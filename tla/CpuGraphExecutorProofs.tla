------------------------ MODULE CpuGraphExecutorProofs ------------------------
(*******************************************************************************)
(* Theorems about ExecutionGraph and CpuGraphExecutor, for any declarations, *)
(* any number of passes, resources and workers.                              *)
(*                                                                           *)
(* The first part is about the answer of compile() to any graph: which edges *)
(* rawEdges() finds, that Kahn's algorithm gives an order that agrees with   *)
(* them, and where assignLanes() puts the passes.  The second part is the    *)
(* invariant of an execution, and the theorems.                              *)
(*******************************************************************************)
EXTENDS CpuGraphExecutor, FiniteSetTheorems, SequenceTheorems, TLAPS

-----------------------------------------------------------------------------
(* Induction, with the set of the numbers that have a property in its place. *)

\* Every number has a property that 0 has and that passes to the next.
LEMMA Induction ==
    ASSUME NEW S, 0 \in S, \A n \in Nat : n \in S => n + 1 \in S
    PROVE  Nat \subseteq S
<1> DEFINE T == Nat \ S
<1>1. SUFFICES ASSUME T # {} PROVE FALSE
  OBVIOUS
<1>2. T \subseteq Nat
  OBVIOUS
<1> HIDE DEF T
<1>3. PICK n \in T : \A m \in T : ~(<<m, n>> \in OpToRel(<, Nat))
  BY <1>1, <1>2, NatLessThanWellFounded, WFMin, Zenon
<1>4. \A m \in T : ~(m < n)
  BY <1>2, <1>3 DEF OpToRel
<1>5. n \in Nat /\ n # 0 /\ n - 1 \in Nat /\ n - 1 < n
  BY <1>2 DEF T
<1>6. n - 1 \in S
  BY <1>4, <1>5 DEF T
<1>7. (n - 1) + 1 \in S
  BY <1>5, <1>6
<1> QED
  BY <1>5, <1>7 DEF T

\* A set of numbers has a least one, and First() returns it.
LEMMA FirstIs ==
    ASSUME NEW S, S \subseteq Nat, S # {}
    PROVE  First(S) \in S /\ \A x \in S : First(S) <= x
<1>1. PICK n \in S : \A m \in S : ~(<<m, n>> \in OpToRel(<, Nat))
  BY NatLessThanWellFounded, WFMin, Zenon
<1>2. \A m \in S : ~(m < n)
  BY <1>1 DEF OpToRel
<1>3. \A m \in S : n <= m
  BY <1>2
<1> QED
  BY <1>3 DEF First

\* The steps of a loop.
LEMMA UpTo ==
    ASSUME NEW n \in Nat, NEW M, 0 \in M, \A i \in 1..n : i - 1 \in M => i \in M
    PROVE  0..n \subseteq M
<1> DEFINE N == {i \in Nat : i <= n => i \in M}
<1>1. 0 \in N
  OBVIOUS
<1>2. ASSUME NEW i \in Nat, i \in N
      PROVE  i + 1 \in N
  <2>1. CASE i + 1 <= n
    <3>1. i + 1 \in 1..n /\ i <= n /\ (i + 1) - 1 = i
      BY <2>1
    <3> QED
      BY <1>2, <3>1
  <2>2. CASE ~(i + 1 <= n)
    BY <2>2
  <2> QED
    BY <2>1, <2>2
<1>3. Nat \subseteq N
  <2> HIDE DEF N
  <2> QED
    BY <1>1, <1>2, Induction
<1> QED
  BY <1>3

\* f is a loop's state after each turn, from x on, by the step h.
Runs(f, n, S, x, h) == f \in [0..n -> S] /\ f[0] = x /\ \A i \in 1..n : f[i] = h[<<i, f[i - 1]>>]

\* A recursive definition whose steps stay in a set has a solution.
LEMMA Recursion ==
    ASSUME NEW n \in Nat, NEW S, NEW x \in S, NEW h \in [(1..n) \X S -> S]
    PROVE  \E f : Runs(f, n, S, x, h)
<1> DEFINE P(f, m) == f[0] = x /\ \A i \in 1..m : f[i] = h[<<i, f[i - 1]>>]
           M == {m \in 0..n : \E f \in [0..m -> S] : P(f, m)}
<1>1. 0 \in M
  <2> DEFINE f == [i \in 0..0 |-> x]
  <2>1. f \in [0..0 -> S] /\ P(f, 0)
    OBVIOUS
  <2>2. 0 \in 0..n
    OBVIOUS
  <2> HIDE DEF f
  <2> QED
    BY <2>1, <2>2
<1>2. ASSUME NEW m \in 1..n, m - 1 \in M
      PROVE  m \in M
  <2>1. PICK f \in [0..(m - 1) -> S] : P(f, m - 1)
    BY <1>2
  <2> DEFINE g == [i \in 0..m |-> IF i <= m - 1 THEN f[i] ELSE h[<<m, f[m - 1]>>]]
  <2>2. f[m - 1] \in S /\ h[<<m, f[m - 1]>>] \in S
    <3>1. m - 1 \in 0..(m - 1)
      OBVIOUS
    <3>2. f[m - 1] \in S
      BY <3>1
    <3>3. <<m, f[m - 1]>> \in (1..n) \X S
      BY <3>2
    <3> QED
      BY <3>2, <3>3
  <2>3. g \in [0..m -> S]
    BY <2>2
  <2>4. ASSUME NEW i \in 1..m
        PROVE  g[i] = h[<<i, g[i - 1]>>]
    <3>1. i - 1 \in 0..(m - 1) /\ i - 1 \in 0..m /\ g[i - 1] = f[i - 1]
      OBVIOUS
    <3>2. CASE i = m
      BY <3>1, <3>2
    <3>3. CASE i # m
      <4>1. i \in 1..(m - 1) /\ i \in 0..m /\ i <= m - 1
        BY <3>3
      <4>2. g[i] = f[i]
        BY <4>1
      <4> QED
        BY <2>1, <3>1, <4>1, <4>2
    <3> QED
      BY <3>2, <3>3
  <2>5. g[0] = x
    BY <2>1
  <2>6. P(g, m)
    BY <2>4, <2>5
  <2>7. m \in 0..n
    OBVIOUS
  <2> HIDE DEF g
  <2> QED
    BY <2>3, <2>6, <2>7
<1>3. 0..n \subseteq M
  <2> HIDE DEF M
  <2> QED
    BY <1>1, <1>2, UpTo
<1> QED
  BY <1>3 DEF Runs

-----------------------------------------------------------------------------
(* Sequences of sequences, laid end to end.                                  *)

\* A sequence that is given as a function on 1..n.
LEMMA SeqOn ==
    ASSUME NEW n \in Nat, NEW T, NEW f \in [1..n -> T]
    PROVE  f \in Seq(T) /\ Len(f) = n
  OBVIOUS

\* F is the first m sequences of s: its item k is item col[k] of sequence row[k].
Laid(F, s, m, row, col) ==
    /\ row \in [DOMAIN F -> 1..m] /\ col \in [DOMAIN F -> Nat]
    /\ \A k \in DOMAIN F : col[k] \in DOMAIN s[row[k]] /\ F[k] = s[row[k]][col[k]]
    /\ \A r \in 1..m : \A c \in DOMAIN s[r] : \E k \in DOMAIN F : row[k] = r /\ col[k] = c
    /\ \A k, l \in DOMAIN F : k < l => row[k] < row[l] \/ (row[k] = row[l] /\ col[k] < col[l])

\* One more sequence is appended.
LEMMA LaidMore ==
    ASSUME NEW T, NEW s \in Seq(Seq(T)), NEW m \in Nat, m + 1 \in 1..Len(s),
           NEW F \in Seq(T), NEW row, NEW col, Laid(F, s, m, row, col)
    PROVE  F \o s[m + 1] \in Seq(T) /\ \E r, c : Laid(F \o s[m + 1], s, m + 1, r, c)
<1>1. PICK e : e = s[m + 1]
  OBVIOUS
<1>2. e \in Seq(T)
  BY <1>1, ElementOfSeq
<1>3. PICK L \in Nat, K \in Nat : L = Len(F) /\ K = Len(e) /\ DOMAIN F = 1..L /\ DOMAIN e = 1..K
  BY <1>2, LenProperties
<1>4. PICK G : G = F \o e
  OBVIOUS
<1>5. /\ G \in Seq(T) /\ DOMAIN G = 1..(L + K)
      /\ \A k \in 1..(L + K) : G[k] = IF k <= L THEN F[k] ELSE e[k - L]
  BY <1>2, <1>3, <1>4, ConcatProperties, LenProperties
<1>6. PICK r : r = [k \in 1..(L + K) |-> IF k <= L THEN row[k] ELSE m + 1]
  OBVIOUS
<1>7. PICK c : c = [k \in 1..(L + K) |-> IF k <= L THEN col[k] ELSE k - L]
  OBVIOUS
<1>8. \A k \in 1..(L + K) : IF k <= L THEN k \in 1..L ELSE k - L \in 1..K
  OBVIOUS
<1>9. /\ row \in [1..L -> 1..m] /\ col \in [1..L -> Nat]
      /\ \A k \in 1..L : col[k] \in DOMAIN s[row[k]] /\ F[k] = s[row[k]][col[k]]
      /\ \A i \in 1..m : \A j \in DOMAIN s[i] : \E k \in 1..L : row[k] = i /\ col[k] = j
      /\ \A k, l \in 1..L : k < l => row[k] < row[l] \/ (row[k] = row[l] /\ col[k] < col[l])
  <2>1. row \in [1..L -> 1..m] /\ col \in [1..L -> Nat]
    BY <1>3 DEF Laid
  <2>2. \A k \in 1..L : col[k] \in DOMAIN s[row[k]] /\ F[k] = s[row[k]][col[k]]
    BY <1>3 DEF Laid
  <2>3. \A i \in 1..m : \A j \in DOMAIN s[i] : \E k \in 1..L : row[k] = i /\ col[k] = j
    BY <1>3 DEF Laid
  <2>4. \A k, l \in 1..L : k < l => row[k] < row[l] \/ (row[k] = row[l] /\ col[k] < col[l])
    BY <1>3 DEF Laid
  <2> QED
    BY <2>1, <2>2, <2>3, <2>4
<1>10. r \in [1..(L + K) -> 1..(m + 1)] /\ c \in [1..(L + K) -> Nat]
  <2>1. ASSUME NEW k \in 1..(L + K)
        PROVE  r[k] \in 1..(m + 1) /\ c[k] \in Nat
    BY <1>6, <1>7, <1>8, <1>9
  <2> QED
    BY <1>6, <1>7, <2>1
<1>11. ASSUME NEW k \in 1..(L + K)
       PROVE  c[k] \in DOMAIN s[r[k]] /\ G[k] = s[r[k]][c[k]]
  <2>1. CASE k <= L
    <3>1. k \in 1..L /\ r[k] = row[k] /\ c[k] = col[k] /\ G[k] = F[k]
      BY <1>5, <1>6, <1>7, <1>8, <2>1
    <3> QED
      BY <1>9, <3>1
  <2>2. CASE ~(k <= L)
    <3>1. k - L \in 1..K /\ r[k] = m + 1 /\ c[k] = k - L /\ G[k] = e[k - L]
      BY <1>5, <1>6, <1>7, <1>8, <2>2
    <3> QED
      BY <1>1, <1>3, <3>1
  <2> QED
    BY <2>1, <2>2
<1>12. ASSUME NEW i \in 1..(m + 1), NEW j \in DOMAIN s[i]
       PROVE  \E k \in 1..(L + K) : r[k] = i /\ c[k] = j
  <2>1. CASE i = m + 1
    <3>1. j \in 1..K
      BY <1>1, <1>3, <2>1
    <3>2. L + j \in 1..(L + K) /\ ~(L + j <= L) /\ (L + j) - L = j
      BY <3>1
    <3> QED
      BY <1>6, <1>7, <2>1, <3>2
  <2>2. CASE i # m + 1
    <3>1. i \in 1..m
      BY <2>2
    <3>2. PICK k \in 1..L : row[k] = i /\ col[k] = j
      BY <1>9, <3>1
    <3>3. k \in 1..(L + K) /\ k <= L
      OBVIOUS
    <3> QED
      BY <1>6, <1>7, <3>2, <3>3
  <2> QED
    BY <2>1, <2>2
<1>13. ASSUME NEW k \in 1..(L + K), NEW l \in 1..(L + K), k < l
       PROVE  r[k] < r[l] \/ (r[k] = r[l] /\ c[k] < c[l])
  <2>1. CASE l <= L
    <3>1. k \in 1..L /\ l \in 1..L /\ k <= L
      BY <1>8, <1>13, <2>1
    <3> QED
      BY <1>6, <1>7, <1>9, <1>13, <2>1, <3>1
  <2>2. CASE ~(l <= L) /\ k <= L
    <3>1. r[l] = m + 1 /\ r[k] = row[k] /\ row[k] \in 1..m
      BY <1>6, <1>8, <1>9, <2>2
    <3> QED
      BY <3>1
  <2>3. CASE ~(l <= L) /\ ~(k <= L)
    BY <1>6, <1>7, <1>13, <2>3
  <2> QED
    BY <2>1, <2>2, <2>3
<1>14. Laid(G, s, m + 1, r, c)
  <2>1. DOMAIN G = 1..(L + K)
    BY <1>5
  <2>2. \A k \in DOMAIN G : c[k] \in DOMAIN s[r[k]] /\ G[k] = s[r[k]][c[k]]
    BY <1>11, <2>1
  <2>3. \A i \in 1..(m + 1) : \A j \in DOMAIN s[i] : \E k \in DOMAIN G : r[k] = i /\ c[k] = j
    <3> SUFFICES ASSUME NEW i \in 1..(m + 1), NEW j \in DOMAIN s[i]
                 PROVE  \E k \in 1..(L + K) : r[k] = i /\ c[k] = j
      BY <2>1
    <3> QED
      BY <1>12
  <2>4. \A k, l \in DOMAIN G : k < l => r[k] < r[l] \/ (r[k] = r[l] /\ c[k] < c[l])
    BY <1>13, <2>1
  <2>5. r \in [DOMAIN G -> 1..(m + 1)] /\ c \in [DOMAIN G -> Nat]
    BY <1>10, <2>1
  <2> QED
    BY <2>2, <2>3, <2>4, <2>5 DEF Laid
<1> QED
  BY <1>1, <1>4, <1>5, <1>14

\* FlattenSeq() lays the sequences of s end to end.
LEMMA FlattenIs ==
    ASSUME NEW T, NEW s \in Seq(Seq(T))
    PROVE  FlattenSeq(s) \in Seq(T) /\ \E row, col : Laid(FlattenSeq(s), s, Len(s), row, col)
<1>1. Len(s) \in Nat
  BY LenProperties
<1>2. PICK z : z = <<>>
  OBVIOUS
<1>3. z \in Seq(T) /\ Laid(z, s, 0, z, z)
  BY <1>2, EmptySeq DEF Laid
<1>4. CASE Len(s) = 0
  <2>1. FlattenSeq(s) = s
    BY <1>4 DEF FlattenSeq
  <2>2. s = z
    BY <1>2, <1>4, EmptySeq
  <2> QED
    BY <1>3, <1>4, <2>1, <2>2
<1>5. CASE Len(s) # 0
  <2>1. PICK n \in Nat : Len(s) = n + 1
    <3>1. Len(s) - 1 \in Nat /\ Len(s) = (Len(s) - 1) + 1
      BY <1>1, <1>5
    <3> QED
      BY <3>1
  <2>2. PICK f : f = CHOOSE x : x = [i \in 1..(n + 1) |-> IF i = 1 THEN s[i] ELSE x[i - 1] \o s[i]]
    OBVIOUS
  <2>3. FlattenSeq(s) = f[n + 1]
    BY <1>5, <2>1, <2>2 DEF FlattenSeq
  <2>4. f = [i \in 1..(n + 1) |-> IF i = 1 THEN s[i] ELSE f[i - 1] \o s[i]]
    <3> DEFINE h == [y \in (1..n) \X Seq(T) |-> y[2] \o s[y[1] + 1]]
    <3>1. \A i \in 1..(n + 1) : s[i] \in Seq(T)
      BY <2>1, ElementOfSeq
    <3>2. ASSUME NEW y \in (1..n) \X Seq(T)
          PROVE  y[2] \o s[y[1] + 1] \in Seq(T)
      <4>1. y[2] \in Seq(T) /\ y[1] + 1 \in 1..(n + 1)
        OBVIOUS
      <4> QED
        BY <3>1, <4>1, ConcatProperties
    <3>3. h \in [(1..n) \X Seq(T) -> Seq(T)] /\ s[1] \in Seq(T)
      BY <3>1, <3>2
    <3>4. \A i \in 1..n, u \in Seq(T) : h[<<i, u>>] = u \o s[i + 1]
      OBVIOUS
    <3> HIDE DEF h
    <3>5. PICK k : Runs(k, n, Seq(T), s[1], h)
      BY <3>3, Recursion
    <3>6. k \in [0..n -> Seq(T)] /\ k[0] = s[1] /\ \A i \in 1..n : k[i] = h[<<i, k[i - 1]>>]
      BY <3>5 DEF Runs
    <3> DEFINE q == [i \in 1..(n + 1) |-> k[i - 1]]
    <3>7. ASSUME NEW i \in 1..(n + 1)
          PROVE  q[i] = IF i = 1 THEN s[i] ELSE q[i - 1] \o s[i]
      <4>1. CASE i = 1
        BY <3>6, <4>1
      <4>2. CASE i # 1
        <5>1. i - 1 \in 1..n /\ i - 1 \in 1..(n + 1) /\ (i - 1) - 1 \in 0..n /\ (i - 1) + 1 = i
          BY <4>2
        <5>2. q[i] = k[i - 1] /\ q[i - 1] = k[(i - 1) - 1]
          BY <5>1
        <5>3. k[i - 1] = k[(i - 1) - 1] \o s[(i - 1) + 1]
          BY <3>4, <3>6, <5>1
        <5> QED
          BY <4>2, <5>1, <5>2, <5>3
      <4> QED
        BY <4>1, <4>2
    <3>8. DOMAIN q = 1..(n + 1) /\ q = [i \in 1..(n + 1) |-> q[i]]
      OBVIOUS
    <3>9. q = [i \in 1..(n + 1) |-> IF i = 1 THEN s[i] ELSE q[i - 1] \o s[i]]
      <4> HIDE DEF q
      <4> QED
        BY <3>7, <3>8
    <3> HIDE DEF q
    <3> QED
      BY <2>2, <3>9
  <2> DEFINE M == {m \in 0..n : f[m + 1] \in Seq(T) /\ \E row, col : Laid(f[m + 1], s, m + 1, row, col)}
  <2>5. 0 \in M
    <3>1. f[1] = s[1] /\ s[1] \in Seq(T) /\ 0 + 1 \in 1..Len(s) /\ 0 \in 0..n
      BY <2>1, <2>4, ElementOfSeq
    <3>2. z \o s[0 + 1] = s[1]
      BY <1>2, <3>1, ConcatEmptySeq
    <3>3. \E r, c : Laid(z \o s[0 + 1], s, 0 + 1, r, c)
      BY <1>3, <3>1, LaidMore
    <3>4. \E r, c : Laid(f[0 + 1], s, 0 + 1, r, c)
      BY <3>1, <3>2, <3>3
    <3> QED
      BY <3>1, <3>4
  <2>6. ASSUME NEW m \in 1..n, m - 1 \in M
        PROVE  m \in M
    <3>1. (m - 1) + 1 = m /\ m + 1 \in 1..(n + 1) /\ m + 1 # 1 /\ (m + 1) - 1 = m /\ m \in 0..n /\ m \in Nat
      OBVIOUS
    <3>2. f[m + 1] = f[m] \o s[m + 1]
      BY <2>4, <3>1
    <3>3. f[m] \in Seq(T) /\ \E row, col : Laid(f[m], s, m, row, col)
      BY <2>6, <3>1
    <3>4. f[m] \o s[m + 1] \in Seq(T) /\ \E r, c : Laid(f[m] \o s[m + 1], s, m + 1, r, c)
      BY <2>1, <3>1, <3>3, LaidMore
    <3> QED
      BY <3>1, <3>2, <3>4
  <2>7. 0..n \subseteq M
    <3> HIDE DEF M
    <3> QED
      BY <2>5, <2>6, UpTo
  <2>8. n \in M
    BY <2>7
  <2> QED
    BY <2>1, <2>3, <2>8
<1> QED
  BY <1>4, <1>5

\* The items of s that are in X, in order: item k comes from position at[k].
Picks(K, s, X, at) ==
    /\ at \in [DOMAIN K -> DOMAIN s]
    /\ \A k \in DOMAIN K : K[k] = s[at[k]] /\ K[k] \in X
    /\ \A i \in DOMAIN s : s[i] \in X => \E k \in DOMAIN K : at[k] = i
    /\ \A k, l \in DOMAIN K : k < l => at[k] < at[l]

Kept(s, X) == FlattenSeq([i \in DOMAIN s |-> IF s[i] \in X THEN <<s[i]>> ELSE <<>>])

\* Keep() takes what is in X, in order.
LEMMA KeptIs ==
    ASSUME NEW T, NEW s \in Seq(T), NEW X
    PROVE  Kept(s, X) \in Seq(T) /\ \E at : Picks(Kept(s, X), s, X, at)
<1>1. PICK n \in Nat : n = Len(s) /\ DOMAIN s = 1..n
  BY LenProperties
<1>2. PICK t : t = [i \in DOMAIN s |-> IF s[i] \in X THEN <<s[i]>> ELSE <<>>]
  OBVIOUS
<1>3. \A i \in 1..n : s[i] \in T
  BY <1>1, ElementOfSeq
<1>4. \A i \in 1..n : t[i] \in Seq(T)
  BY <1>1, <1>2, <1>3
<1>5. t \in Seq(Seq(T)) /\ Len(t) = n /\ DOMAIN t = 1..n
  BY <1>1, <1>2, <1>4
<1>6. PICK K : K = Kept(s, X)
  OBVIOUS
<1>7. K \in Seq(T) /\ \E row, col : Laid(K, t, n, row, col)
  BY <1>2, <1>5, <1>6, FlattenIs DEF Kept
<1>8. PICK row, col : Laid(K, t, n, row, col)
  BY <1>7
<1>9. ASSUME NEW k \in DOMAIN K
      PROVE  row[k] \in 1..n /\ s[row[k]] \in X /\ K[k] = s[row[k]] /\ col[k] = 1
  <2>1. row[k] \in 1..n /\ col[k] \in DOMAIN t[row[k]] /\ K[k] = t[row[k]][col[k]]
    BY <1>8 DEF Laid
  <2>2. t[row[k]] = IF s[row[k]] \in X THEN <<s[row[k]]>> ELSE <<>>
    BY <1>1, <1>2, <2>1
  <2> QED
    BY <2>1, <2>2
<1>10. ASSUME NEW i \in DOMAIN s, s[i] \in X
       PROVE  \E k \in DOMAIN K : row[k] = i
  <2>1. 1 \in DOMAIN t[i] /\ i \in 1..n
    BY <1>1, <1>2, <1>10
  <2> QED
    BY <1>8, <2>1 DEF Laid
<1>11. ASSUME NEW k \in DOMAIN K, NEW l \in DOMAIN K, k < l
       PROVE  row[k] < row[l]
  <2>1. row[k] < row[l] \/ (row[k] = row[l] /\ col[k] < col[l])
    BY <1>8, <1>11 DEF Laid
  <2> QED
    BY <1>9, <2>1
<1>12. row \in [DOMAIN K -> DOMAIN s]
  BY <1>1, <1>8 DEF Laid
<1>13. Picks(K, s, X, row)
  BY <1>9, <1>10, <1>11, <1>12 DEF Picks
<1> QED
  BY <1>6, <1>7, <1>13

-----------------------------------------------------------------------------
(* 1. Hazards.                                                               *)

\* A graph that a client can build: accesses name resources that were imported.
Built(g) ==
    /\ g \in [resources : Nat, passes : Seq(Pass)]
    /\ \A p \in DOMAIN g.passes : \A i \in DOMAIN g.passes[p].accesses :
          g.passes[p].accesses[i].resource <= g.resources

Accesses(g, p) == g.passes[p].accesses

\* The passes of such a graph and their accesses.
LEMMA BuiltFacts ==
    ASSUME NEW g, Built(g)
    PROVE  /\ Len(g.passes) \in Nat /\ DOMAIN g.passes = 1..Len(g.passes)
           /\ g.resources \in Nat /\ g.passes \in Seq(Pass)
           /\ \A p \in DOMAIN g.passes : /\ g.passes[p] \in Pass
                                         /\ Accesses(g, p) \in Seq(Access)
           /\ \A p \in DOMAIN g.passes : \A i \in DOMAIN Accesses(g, p) :
                 Accesses(g, p)[i] \in Access /\ Accesses(g, p)[i].resource \in 1..g.resources
<1>1. g \in [resources : Nat, passes : Seq(Pass)]
  BY DEF Built
<1>2. Len(g.passes) \in Nat /\ DOMAIN g.passes = 1..Len(g.passes)
      /\ g.resources \in Nat /\ g.passes \in Seq(Pass)
  BY <1>1, LenProperties
<1>3. ASSUME NEW p \in DOMAIN g.passes
      PROVE  g.passes[p] \in Pass /\ Accesses(g, p) \in Seq(Access)
  <2>1. g.passes[p] \in Pass
    BY <1>2, <1>3, ElementOfSeq
  <2> QED
    BY <2>1 DEF Pass, Accesses
<1>4. ASSUME NEW p \in DOMAIN g.passes, NEW i \in DOMAIN Accesses(g, p)
      PROVE  Accesses(g, p)[i] \in Access /\ Accesses(g, p)[i].resource \in 1..g.resources
  <2>1. Accesses(g, p)[i] \in Access
    BY <1>3, <1>4, ElementOfSeq, LenProperties
  <2>2. Accesses(g, p)[i].resource \in Nat \ {0}
    BY <2>1 DEF Access
  <2>3. Accesses(g, p)[i].resource <= g.resources
    BY <1>4 DEF Built, Accesses
  <2> QED
    BY <1>2, <2>1, <2>2, <2>3
<1> QED
  BY <1>2, <1>3, <1>4

\* t is the accesses to resource r: touch k is access ix[k] of its pass.
Touched(g, r, t, ix) ==
    /\ t \in Seq([pass : DOMAIN g.passes, mode : Modes]) /\ ix \in [DOMAIN t -> Nat]
    /\ \A k \in DOMAIN t : /\ ix[k] \in DOMAIN Accesses(g, t[k].pass)
                           /\ Accesses(g, t[k].pass)[ix[k]].resource = r
                           /\ Accesses(g, t[k].pass)[ix[k]].mode = t[k].mode
    /\ \A p \in DOMAIN g.passes : \A i \in DOMAIN Accesses(g, p) :
          Accesses(g, p)[i].resource = r => \E k \in DOMAIN t : t[k].pass = p /\ ix[k] = i
    /\ \A k, l \in DOMAIN t : k < l => \/ t[k].pass < t[l].pass
                                       \/ t[k].pass = t[l].pass /\ ix[k] < ix[l]

\* touches() finds every access to r, in the order of declaration.
LEMMA TouchesAre ==
    ASSUME NEW g, Built(g), NEW r
    PROVE  \E ix : Touched(g, r, touches(g, r), ix)
<1> DEFINE X == {a \in Access : a.resource = r}
           T == [pass : DOMAIN g.passes, mode : Modes]
           n == Len(g.passes)
           K(p) == Kept(Accesses(g, p), X)
           A(p) == CHOOSE at : Picks(K(p), Accesses(g, p), X, at)
<1>1. /\ n \in Nat /\ DOMAIN g.passes = 1..n
      /\ \A p \in 1..n : Accesses(g, p) \in Seq(Access)
      /\ \A p \in 1..n : \A i \in DOMAIN Accesses(g, p) : Accesses(g, p)[i] \in Access
  BY BuiltFacts
<1>2. PICK u : u = [p \in 1..n |-> [i \in DOMAIN K(p) |-> [pass |-> p, mode |-> K(p)[i].mode]]]
  OBVIOUS
<1>3. touches(g, r) = FlattenSeq(u)
  <2>1. ASSUME NEW p \in 1..n
        PROVE  Keep(g.passes[p].accesses, LAMBDA a : a.resource = r) = K(p)
    BY <1>1, <2>1 DEF Keep, Kept, Accesses
  <2> HIDE DEF X, K
  <2> QED
    BY <1>1, <1>2, <2>1 DEF touches
<1>4. ASSUME NEW p \in 1..n
      PROVE  K(p) \in Seq(Access) /\ Picks(K(p), Accesses(g, p), X, A(p))
  <2>1. K(p) \in Seq(Access) /\ \E at : Picks(K(p), Accesses(g, p), X, at)
    <3> HIDE DEF X
    <3> QED
      BY <1>1, KeptIs
  <2> QED
    BY <2>1
<1> HIDE DEF K, A
<1>5. ASSUME NEW p \in 1..n
      PROVE  u[p] \in Seq(T) /\ DOMAIN u[p] = DOMAIN K(p)
             /\ \A i \in DOMAIN K(p) : u[p][i] = [pass |-> p, mode |-> K(p)[i].mode]
  <2>1. PICK m \in Nat : DOMAIN K(p) = 1..m
    BY <1>4, LenProperties
  <2>2. \A i \in 1..m : K(p)[i].mode \in Modes
    <3>1. \A i \in 1..m : K(p)[i] \in Access
      BY <1>4, <2>1, ElementOfSeq, LenProperties
    <3> QED
      BY <3>1 DEF Access
  <2>3. u[p] = [i \in 1..m |-> [pass |-> p, mode |-> K(p)[i].mode]]
    BY <1>2, <2>1
  <2> QED
    BY <1>1, <2>1, <2>2, <2>3
<1>6. u \in Seq(Seq(T)) /\ Len(u) = n
  <2>1. \A p \in 1..n : u[p] \in Seq(T)
    BY <1>5
  <2> HIDE DEF T
  <2>2. u \in [1..n -> Seq(T)]
    BY <1>2, <2>1
  <2> QED
    BY <1>1, <2>2, SeqOn
<1>7. PICK t : t = touches(g, r)
  OBVIOUS
<1>8. t \in Seq(T) /\ \E row, col : Laid(t, u, n, row, col)
  <2> HIDE DEF T
  <2> QED
    BY <1>3, <1>6, <1>7, FlattenIs
<1>9. PICK row, col : Laid(t, u, n, row, col)
  BY <1>8
<1> DEFINE ix == [k \in DOMAIN t |-> A(row[k])[col[k]]]
<1>10. ASSUME NEW k \in DOMAIN t
       PROVE  /\ row[k] \in 1..n /\ col[k] \in DOMAIN K(row[k]) /\ t[k].pass = row[k]
              /\ t[k].mode = K(row[k])[col[k]].mode
              /\ ix[k] \in DOMAIN Accesses(g, row[k])
              /\ Accesses(g, row[k])[ix[k]] = K(row[k])[col[k]]
              /\ K(row[k])[col[k]].resource = r
  <2>1. row[k] \in 1..n /\ col[k] \in DOMAIN u[row[k]] /\ t[k] = u[row[k]][col[k]]
    BY <1>9 DEF Laid
  <2>2. col[k] \in DOMAIN K(row[k]) /\ t[k] = [pass |-> row[k], mode |-> K(row[k])[col[k]].mode]
    BY <1>5, <2>1
  <2>3. Picks(K(row[k]), Accesses(g, row[k]), X, A(row[k]))
    BY <1>4, <2>1
  <2>4. /\ A(row[k])[col[k]] \in DOMAIN Accesses(g, row[k])
        /\ K(row[k])[col[k]] = Accesses(g, row[k])[A(row[k])[col[k]]] /\ K(row[k])[col[k]] \in X
    BY <2>2, <2>3 DEF Picks
  <2> QED
    BY <2>1, <2>2, <2>4
<1>11. ASSUME NEW p \in 1..n, NEW i \in DOMAIN Accesses(g, p), Accesses(g, p)[i].resource = r
       PROVE  \E k \in DOMAIN t : t[k].pass = p /\ ix[k] = i
  <2>1. PICK j \in DOMAIN K(p) : A(p)[j] = i
    <3>1. Accesses(g, p)[i] \in X
      BY <1>1, <1>11
    <3> QED
      BY <1>4, <3>1 DEF Picks
  <2>2. PICK k \in DOMAIN t : row[k] = p /\ col[k] = j
    <3>1. j \in DOMAIN u[p]
      BY <1>5, <2>1
    <3> QED
      BY <1>9, <3>1 DEF Laid
  <2> QED
    BY <1>10, <2>1, <2>2
<1>12. ASSUME NEW k \in DOMAIN t, NEW l \in DOMAIN t, k < l
       PROVE  t[k].pass < t[l].pass \/ (t[k].pass = t[l].pass /\ ix[k] < ix[l])
  <2>1. row[k] < row[l] \/ (row[k] = row[l] /\ col[k] < col[l])
    BY <1>9, <1>12 DEF Laid
  <2>2. CASE row[k] < row[l]
    BY <1>10, <2>2
  <2>3. CASE row[k] = row[l] /\ col[k] < col[l]
    <3>1. Picks(K(row[k]), Accesses(g, row[k]), X, A(row[k]))
      BY <1>4, <1>10
    <3>2. A(row[k])[col[k]] < A(row[k])[col[l]]
      BY <1>10, <2>3, <3>1 DEF Picks
    <3> QED
      BY <1>10, <2>3, <3>2
  <2> QED
    BY <2>1, <2>2, <2>3
<1>13. ix \in [DOMAIN t -> Nat]
  <2>1. ASSUME NEW k \in DOMAIN t
        PROVE  ix[k] \in Nat
    <3>1. ix[k] \in DOMAIN Accesses(g, row[k]) /\ row[k] \in 1..n
      BY <1>10
    <3>2. DOMAIN Accesses(g, row[k]) \subseteq Nat
      BY <1>1, <3>1, LenProperties
    <3> QED
      BY <3>1, <3>2
  <2> QED
    BY <2>1
<1> HIDE DEF ix
<1>14. Touched(g, r, t, ix)
  <2>1. \A k \in DOMAIN t : /\ ix[k] \in DOMAIN Accesses(g, t[k].pass)
                             /\ Accesses(g, t[k].pass)[ix[k]].resource = r
                             /\ Accesses(g, t[k].pass)[ix[k]].mode = t[k].mode
    BY <1>10
  <2>2. \A p \in DOMAIN g.passes : \A i \in DOMAIN Accesses(g, p) :
           Accesses(g, p)[i].resource = r => \E k \in DOMAIN t : t[k].pass = p /\ ix[k] = i
    BY <1>1, <1>11
  <2> QED
    BY <1>8, <1>12, <1>13, <2>1, <2>2 DEF Touched
<1> QED
  BY <1>7, <1>14

\* The pairs of the two loops are those of an earlier and a later index.
LEMMA PairsAre ==
    ASSUME NEW n \in Nat
    PROVE  /\ Pairs(n) \in Seq((1..n) \X (1..n))
           /\ \A k \in DOMAIN Pairs(n) : Pairs(n)[k][1] < Pairs(n)[k][2]
           /\ \A i, j \in 1..n : i < j => \E k \in DOMAIN Pairs(n) : Pairs(n)[k] = <<i, j>>
<1> DEFINE T == (1..n) \X (1..n)
<1>1. PICK u : u = [i \in 1..n |-> [k \in 1..(n - i) |-> <<i, i + k>>]]
  OBVIOUS
<1>2. PICK F : F = Pairs(n)
  OBVIOUS
<1>3. ASSUME NEW i \in 1..n
      PROVE  /\ u[i] \in Seq(T) /\ DOMAIN u[i] = 1..(n - i)
             /\ \A k \in 1..(n - i) : u[i][k] = <<i, i + k>> /\ i + k \in 1..n /\ i < i + k
  <2>1. u[i] = [k \in 1..(n - i) |-> <<i, i + k>>] /\ n - i \in Nat
    BY <1>1
  <2>2. \A k \in 1..(n - i) : i + k \in 1..n /\ i < i + k
    OBVIOUS
  <2> QED
    BY <2>1, <2>2
<1>4. u \in Seq(Seq(T)) /\ Len(u) = n
  <2>1. \A i \in 1..n : u[i] \in Seq(T)
    BY <1>3
  <2> HIDE DEF T
  <2>2. u \in [1..n -> Seq(T)]
    BY <1>1, <2>1
  <2> QED
    BY <2>2, SeqOn
<1>5. F \in Seq(T) /\ \E row, col : Laid(F, u, n, row, col)
  <2>1. F = FlattenSeq(u)
    BY <1>1, <1>2 DEF Pairs
  <2> HIDE DEF T
  <2> QED
    BY <1>4, <2>1, FlattenIs
<1>6. PICK row, col : Laid(F, u, n, row, col)
  BY <1>5
<1>7. ASSUME NEW k \in DOMAIN F
      PROVE  F[k][1] < F[k][2]
  <2>1. row[k] \in 1..n /\ col[k] \in DOMAIN u[row[k]] /\ F[k] = u[row[k]][col[k]]
    BY <1>6 DEF Laid
  <2>2. col[k] \in 1..(n - row[k])
    BY <1>3, <2>1
  <2>3. F[k] = <<row[k], row[k] + col[k]>>
    BY <1>3, <2>1, <2>2
  <2>4. F[k][1] = row[k] /\ F[k][2] = row[k] + col[k]
    BY <2>3
  <2> QED
    BY <2>1, <2>2, <2>4
<1>8. ASSUME NEW i \in 1..n, NEW j \in 1..n, i < j
      PROVE  \E k \in DOMAIN F : F[k] = <<i, j>>
  <2>1. j - i \in 1..(n - i) /\ i + (j - i) = j
    BY <1>8
  <2>2. PICK k \in DOMAIN F : row[k] = i /\ col[k] = j - i
    <3>1. j - i \in DOMAIN u[i]
      BY <1>3, <2>1
    <3> QED
      BY <1>6, <3>1 DEF Laid
  <2>3. F[k] = u[i][j - i]
    BY <1>6, <2>2 DEF Laid
  <2> QED
    BY <1>3, <2>1, <2>3
<1> QED
  BY <1>2, <1>5, <1>7, <1>8

\* Between two accesses there is a hazard if the later one writes, or reads after a
\* write.
LEMMA HazardIs ==
    ASSUME NEW a \in Modes, NEW b \in Modes
    PROVE  /\ classify_hazard(a, b) \in Hazards \cup {"none"}
           /\ classify_hazard(a, b) # "none" <=> involves_write(b) \/ (involves_write(a) /\ b # "none")
  BY DEF classify_hazard, involves_read, involves_write, Modes, Hazards

Edge(g) == [src : DOMAIN g.passes, dst : DOMAIN g.passes, resource : Nat, hazard : Hazards]

\* The pairs of touches between which there is a hazard, and the edges they give.
Hazardous(t) == {ij \in (1..Len(t)) \X (1..Len(t)) :
                    classify_hazard(t[ij[1]].mode, t[ij[2]].mode) # "none"}

EdgesOf(r, t, found) ==
    [k \in DOMAIN found |->
        [src |-> t[found[k][1]].pass, dst |-> t[found[k][2]].pass,
         resource |-> r, hazard |-> classify_hazard(t[found[k][1]].mode, t[found[k][2]].mode)]]

\* E joins passes that conflict, by their accesses to resource r.
Joins(g, r, E) ==
    /\ E \in Seq(Edge(g))
    /\ \A e \in DOMAIN E : E[e].src <= E[e].dst /\ Conflict(g, E[e].src, E[e].dst)
    /\ \A p, q \in DOMAIN g.passes : \A i \in DOMAIN Accesses(g, p), j \in DOMAIN Accesses(g, q) :
          /\ p < q \/ (p = q /\ i < j)
          /\ Accesses(g, p)[i].resource = r /\ Conflicting(Accesses(g, p)[i], Accesses(g, q)[j])
          => \E e \in DOMAIN E : E[e].src = p /\ E[e].dst = q

\* The two loops over the touches of r find the conflicts over r.
LEMMA EdgesOfAre ==
    ASSUME NEW g, Built(g), NEW r \in 1..g.resources,
           NEW t, t = touches(g, r), NEW E, E = EdgesOf(r, t, Kept(Pairs(Len(t)), Hazardous(t)))
    PROVE  Joins(g, r, E)
<1>1. PICK ix : Touched(g, r, t, ix)
  BY TouchesAre
<1>2. /\ t \in Seq([pass : DOMAIN g.passes, mode : Modes]) /\ ix \in [DOMAIN t -> Nat]
      /\ \A k \in DOMAIN t : /\ ix[k] \in DOMAIN Accesses(g, t[k].pass)
                             /\ Accesses(g, t[k].pass)[ix[k]].resource = r
                             /\ Accesses(g, t[k].pass)[ix[k]].mode = t[k].mode
  BY <1>1 DEF Touched
<1>3. PICK n \in Nat : n = Len(t) /\ DOMAIN t = 1..n
  BY <1>2, LenProperties
<1>4. \A k \in 1..n : t[k] \in [pass : DOMAIN g.passes, mode : Modes]
  BY <1>2, <1>3, ElementOfSeq
<1>5. \A k \in 1..n : t[k].pass \in DOMAIN g.passes /\ t[k].mode \in Modes
  BY <1>4
<1>6. DOMAIN g.passes = 1..Len(g.passes) /\ Len(g.passes) \in Nat /\ g.resources \in Nat
  BY BuiltFacts
<1>7. PICK P : P = Pairs(n)
  OBVIOUS
<1>8. /\ P \in Seq((1..n) \X (1..n))
      /\ \A k \in DOMAIN P : P[k][1] < P[k][2]
      /\ \A i, j \in 1..n : i < j => \E k \in DOMAIN P : P[k] = <<i, j>>
  BY <1>7, PairsAre
<1>9. PICK X : X = Hazardous(t)
  OBVIOUS
<1>10. PICK F : F = Kept(P, X)
  OBVIOUS
<1>11. F \in Seq((1..n) \X (1..n)) /\ \E at : Picks(F, P, X, at)
  <2>1. PICK T : T = (1..n) \X (1..n)
    OBVIOUS
  <2> QED
    BY <1>8, <1>10, <2>1, KeptIs
<1>12. PICK at : Picks(F, P, X, at)
  BY <1>11
<1>13. PICK m \in Nat : DOMAIN F = 1..m
  BY <1>11, LenProperties
<1>14. ASSUME NEW k \in DOMAIN F
       PROVE  /\ F[k][1] \in 1..n /\ F[k][2] \in 1..n /\ F[k][1] < F[k][2]
              /\ classify_hazard(t[F[k][1]].mode, t[F[k][2]].mode) # "none"
  <2>1. at[k] \in DOMAIN P /\ F[k] = P[at[k]] /\ F[k] \in X
    BY <1>12 DEF Picks
  <2>2. P[at[k]][1] < P[at[k]][2]
    BY <1>8, <2>1
  <2> QED
    BY <1>3, <1>9, <2>1, <2>2 DEF Hazardous
<1>15. E = EdgesOf(r, t, F)
  BY <1>3, <1>7, <1>9, <1>10
<1>16. DOMAIN E = DOMAIN F
       /\ \A k \in DOMAIN F : E[k] = [src |-> t[F[k][1]].pass, dst |-> t[F[k][2]].pass, resource |-> r,
                                      hazard |-> classify_hazard(t[F[k][1]].mode, t[F[k][2]].mode)]
  BY <1>15 DEF EdgesOf
<1>17. ASSUME NEW k \in DOMAIN F
       PROVE  /\ E[k] \in Edge(g) /\ E[k].src <= E[k].dst /\ Conflict(g, E[k].src, E[k].dst)
  <2>1. PICK a \in 1..n, b \in 1..n : a = F[k][1] /\ b = F[k][2] /\ a < b
    BY <1>14
  <2>2. PICK p \in DOMAIN g.passes, q \in DOMAIN g.passes : p = t[a].pass /\ q = t[b].pass
    BY <1>5
  <2>3. classify_hazard(t[a].mode, t[b].mode) # "none" /\ t[a].mode \in Modes /\ t[b].mode \in Modes
    BY <1>5, <1>14, <2>1
  <2>4. E[k] = [src |-> p, dst |-> q, resource |-> r, hazard |-> classify_hazard(t[a].mode, t[b].mode)]
    BY <1>16, <2>1, <2>2
  <2>5. E[k] \in Edge(g)
    <3>1. classify_hazard(t[a].mode, t[b].mode) \in Hazards
      BY <2>3, HazardIs
    <3> QED
      BY <1>6, <2>4, <3>1 DEF Edge
  <2>6. p < q \/ (p = q /\ ix[a] < ix[b])
    BY <1>1, <1>3, <2>1, <2>2 DEF Touched
  <2>7. /\ ix[a] \in DOMAIN Accesses(g, p) /\ ix[b] \in DOMAIN Accesses(g, q)
        /\ Conflicting(Accesses(g, p)[ix[a]], Accesses(g, q)[ix[b]])
    <3>1. involves_write(t[b].mode) \/ (involves_write(t[a].mode) /\ t[b].mode # "none")
      BY <2>3, HazardIs
    <3> QED
      BY <1>2, <1>3, <2>1, <2>2, <3>1 DEF Conflicting
  <2>8. Conflict(g, p, q)
    <3>1. p = q => ix[a] < ix[b]
      BY <1>6, <2>6
    <3> QED
      BY <2>7, <3>1 DEF Conflict, Accesses
  <2>9. p <= q
    BY <1>6, <2>6
  <2> QED
    BY <2>4, <2>5, <2>8, <2>9
<1>18. E \in Seq(Edge(g))
  <2>1. E \in [1..m -> Edge(g)]
    <3>1. E = [k \in 1..m |-> E[k]]
      BY <1>13, <1>15 DEF EdgesOf
    <3> QED
      BY <1>13, <1>17, <3>1
  <2> QED
    BY <2>1, SeqOn
<1>19. ASSUME NEW p \in DOMAIN g.passes, NEW q \in DOMAIN g.passes,
              NEW i \in DOMAIN Accesses(g, p), NEW j \in DOMAIN Accesses(g, q),
              p < q \/ (p = q /\ i < j),
              Accesses(g, p)[i].resource = r, Conflicting(Accesses(g, p)[i], Accesses(g, q)[j])
       PROVE  \E e \in DOMAIN E : E[e].src = p /\ E[e].dst = q
  <2>1. PICK a \in 1..n : t[a].pass = p /\ ix[a] = i
    BY <1>1, <1>3, <1>19 DEF Touched
  <2>2. Accesses(g, q)[j].resource = r
    BY <1>19 DEF Conflicting
  <2>3. PICK b \in 1..n : t[b].pass = q /\ ix[b] = j
    <3>1. \E b \in DOMAIN t : t[b].pass = q /\ ix[b] = j
      BY <1>1, <1>19, <2>2 DEF Touched
    <3> QED
      BY <1>3, <3>1
  <2>4. a < b
    <3>1. ~(b < a)
      <4>1. b < a => q < p \/ (q = p /\ j < i)
        BY <1>1, <1>3, <2>1, <2>3 DEF Touched
      <4>2. i \in Nat /\ j \in Nat
        BY <1>2, <1>3, <2>1, <2>3
      <4> QED
        BY <1>6, <1>19, <4>1, <4>2
    <3>2. a # b
      <4>1. a = b => p = q /\ i = j
        BY <2>1, <2>3
      <4>2. i \in Nat
        BY <1>2, <1>3, <2>1
      <4> QED
        BY <1>6, <1>19, <4>1, <4>2
    <3> QED
      BY <3>1, <3>2
  <2>5. t[a].mode = Accesses(g, p)[i].mode /\ t[b].mode = Accesses(g, q)[j].mode
    BY <1>2, <1>3, <2>1, <2>3
  <2>6. classify_hazard(t[a].mode, t[b].mode) # "none"
    <3>1. involves_write(t[b].mode) \/ (involves_write(t[a].mode) /\ t[b].mode # "none")
      BY <1>19, <2>5 DEF Conflicting
    <3> QED
      BY <1>5, <3>1, HazardIs
  <2>7. <<a, b>> \in X
    BY <1>3, <1>9, <2>6 DEF Hazardous
  <2>8. PICK l \in DOMAIN P : P[l] = <<a, b>>
    BY <1>8, <2>4
  <2>9. PICK k \in DOMAIN F : at[k] = l
    BY <1>12, <2>7, <2>8 DEF Picks
  <2>10. F[k] = <<a, b>>
    BY <1>12, <2>8, <2>9 DEF Picks
  <2>11. E[k].src = p /\ E[k].dst = q
    BY <1>16, <2>1, <2>3, <2>9, <2>10
  <2> QED
    BY <1>16, <2>11
<1> QED
  BY <1>16, <1>17, <1>18, <1>19 DEF Joins

\* The edges join a pass to those declared no earlier that it conflicts with,
\* and to no others.
LEMMA RawEdgesAre ==
    ASSUME NEW g, Built(g)
    PROVE  /\ rawEdges(g) \in Seq(Edge(g))
           /\ \A e \in DOMAIN rawEdges(g) :
                 /\ rawEdges(g)[e].src <= rawEdges(g)[e].dst
                 /\ Conflict(g, rawEdges(g)[e].src, rawEdges(g)[e].dst)
           /\ \A p, q \in DOMAIN g.passes : p <= q /\ Conflict(g, p, q) =>
                 \E e \in DOMAIN rawEdges(g) : rawEdges(g)[e].src = p /\ rawEdges(g)[e].dst = q
<1> DEFINE D(r) == EdgesOf(r, touches(g, r), Kept(Pairs(Len(touches(g, r))), Hazardous(touches(g, r))))
<1>1. g.resources \in Nat /\ DOMAIN g.passes = 1..Len(g.passes) /\ Len(g.passes) \in Nat
  BY BuiltFacts
<1>2. PICK n \in Nat : n = g.resources
  BY <1>1
<1>3. PICK u : u = [r \in 1..n |-> D(r)]
  OBVIOUS
<1>4. ASSUME NEW r \in 1..n
      PROVE  Joins(g, r, D(r))
  <2>1. PICK t, E : t = touches(g, r) /\ E = EdgesOf(r, t, Kept(Pairs(Len(t)), Hazardous(t)))
    OBVIOUS
  <2>2. E = D(r)
    BY <2>1
  <2> HIDE DEF D
  <2>3. Joins(g, r, E)
    BY <1>2, <2>1, EdgesOfAre
  <2> QED
    BY <2>2, <2>3
<1>5. PICK Z : Z = rawEdges(g)
  OBVIOUS
<1>6. Z = FlattenSeq(u)
  <2> DEFINE L(t) == FlattenSeq([i \in DOMAIN Pairs(Len(t)) |->
                        IF classify_hazard(t[Pairs(Len(t))[i][1]].mode, t[Pairs(Len(t))[i][2]].mode) # "none"
                        THEN <<Pairs(Len(t))[i]>> ELSE <<>>])
  <2>1. ASSUME NEW r \in 1..n
        PROVE  L(touches(g, r)) = Kept(Pairs(Len(touches(g, r))), Hazardous(touches(g, r)))
    <3>1. PICK t : t = touches(g, r)
      OBVIOUS
    <3>2. t \in Seq([pass : DOMAIN g.passes, mode : Modes])
      BY <3>1, TouchesAre DEF Touched
    <3>3. PICK m \in Nat : m = Len(t)
      BY <3>2, LenProperties
    <3>4. PICK P : P = Pairs(m)
      OBVIOUS
    <3>5. P \in Seq((1..m) \X (1..m))
      BY <3>4, PairsAre
    <3>6. \A i \in DOMAIN P : P[i] \in (1..m) \X (1..m)
      BY <3>5, ElementOfSeq, LenProperties
    <3>7. \A i \in DOMAIN P : P[i] \in Hazardous(t) <=> classify_hazard(t[P[i][1]].mode, t[P[i][2]].mode) # "none"
      BY <3>3, <3>6 DEF Hazardous
    <3>8. FlattenSeq([i \in DOMAIN P |->
              IF classify_hazard(t[P[i][1]].mode, t[P[i][2]].mode) # "none" THEN <<P[i]>> ELSE <<>>])
            = Kept(P, Hazardous(t))
      BY <3>7 DEF Kept
    <3> QED
      BY <3>1, <3>3, <3>4, <3>8
  <2>2. rawEdges(g) = FlattenSeq([r \in 1..g.resources |-> EdgesOf(r, touches(g, r), L(touches(g, r)))])
    BY DEF rawEdges, Keep, EdgesOf
  <2> HIDE DEF L
  <2>3. [r \in 1..g.resources |-> EdgesOf(r, touches(g, r), L(touches(g, r)))] = u
    BY <1>2, <1>3, <2>1
  <2> QED
    BY <1>5, <2>2, <2>3
<1> HIDE DEF D
<1>7. u \in Seq(Seq(Edge(g))) /\ Len(u) = n
  <2>1. u \in [1..n -> Seq(Edge(g))]
    BY <1>3, <1>4 DEF Joins
  <2> QED
    BY <2>1, SeqOn
<1>8. Z \in Seq(Edge(g)) /\ \E row, col : Laid(Z, u, n, row, col)
  BY <1>6, <1>7, FlattenIs
<1>9. PICK row, col : Laid(Z, u, n, row, col)
  BY <1>8
<1>10. ASSUME NEW e \in DOMAIN Z
       PROVE  Z[e].src <= Z[e].dst /\ Conflict(g, Z[e].src, Z[e].dst)
  <2>1. row[e] \in 1..n /\ col[e] \in DOMAIN u[row[e]] /\ Z[e] = u[row[e]][col[e]]
    BY <1>9 DEF Laid
  <2>2. u[row[e]] = D(row[e])
    BY <1>3, <2>1
  <2> QED
    BY <1>4, <2>1, <2>2 DEF Joins
<1>11. ASSUME NEW p \in DOMAIN g.passes, NEW q \in DOMAIN g.passes, p <= q, Conflict(g, p, q)
       PROVE  \E e \in DOMAIN Z : Z[e].src = p /\ Z[e].dst = q
  <2>1. PICK i \in DOMAIN Accesses(g, p), j \in DOMAIN Accesses(g, q) :
           (p = q => i < j) /\ Conflicting(Accesses(g, p)[i], Accesses(g, q)[j])
    BY <1>11 DEF Conflict, Accesses
  <2>2. PICK r \in 1..n : r = Accesses(g, p)[i].resource
    BY <1>2, BuiltFacts
  <2>3. p < q \/ (p = q /\ i < j)
    BY <1>1, <1>11, <2>1
  <2>4. PICK d \in DOMAIN D(r) : D(r)[d].src = p /\ D(r)[d].dst = q
    <3>1. PICK E : E = D(r)
      OBVIOUS
    <3>2. Joins(g, r, E)
      BY <1>4, <3>1
    <3>3. \E d \in DOMAIN E : E[d].src = p /\ E[d].dst = q
      BY <2>1, <2>2, <2>3, <3>2 DEF Joins
    <3> QED
      BY <3>1, <3>3
  <2>5. u[r] = D(r)
    BY <1>3
  <2>6. PICK e \in DOMAIN Z : row[e] = r /\ col[e] = d
    BY <1>9, <2>4, <2>5 DEF Laid
  <2>7. Z[e] = D(r)[d]
    BY <1>9, <2>5, <2>6 DEF Laid
  <2> QED
    BY <2>4, <2>7
<1> QED
  BY <1>5, <1>8, <1>10, <1>11

\* The successors of a pass, each once.
LEMMA AdjIs ==
    ASSUME NEW g, NEW edges \in Seq(Edge(g)), NEW p
    PROVE  /\ adj(edges, p) \in Seq(DOMAIN g.passes)
           /\ \A k, l \in DOMAIN adj(edges, p) : adj(edges, p)[k] = adj(edges, p)[l] => k = l
           /\ \A q : (\E k \in DOMAIN adj(edges, p) : adj(edges, p)[k] = q)
                       <=> p \in preds(edges, q)
<1>0. PICK S : S = DOMAIN g.passes
  OBVIOUS
<1>1. PICK m \in Nat : m = Len(edges) /\ DOMAIN edges = 1..m
  BY LenProperties
<1>2. \A i \in 1..m : edges[i].dst \in S
  <2>1. \A i \in 1..m : edges[i] \in Edge(g)
    BY <1>1, ElementOfSeq
  <2> QED
    BY <1>0, <2>1 DEF Edge
<1>3. PICK X : X = {i \in 1..m : /\ edges[i].src = p
                                 /\ \A j \in 1..(i - 1) : edges[j].src = p => edges[j].dst # edges[i].dst}
  OBVIOUS
<1>4. PICK id : id = [i \in 1..m |-> i]
  OBVIOUS
<1>5. id \in Seq(1..m) /\ DOMAIN id = 1..m
  BY <1>4, SeqOn
<1>6. PICK F : F = Kept(id, X)
  OBVIOUS
<1>7. F \in Seq(1..m) /\ \E at : Picks(F, id, X, at)
  BY <1>5, <1>6, KeptIs
<1>8. PICK at : Picks(F, id, X, at)
  BY <1>7
<1>9. PICK n \in Nat : DOMAIN F = 1..n
  BY <1>7, LenProperties
<1>10. \A k \in 1..n : F[k] \in X /\ F[k] \in 1..m /\ at[k] = F[k]
  BY <1>4, <1>8, <1>9 DEF Picks
<1>11. \A k, l \in 1..n : k < l => F[k] < F[l]
  BY <1>8, <1>9, <1>10 DEF Picks
<1>12. \A i \in X : \E k \in 1..n : F[k] = i
  <2> SUFFICES ASSUME NEW i \in X
               PROVE  \E k \in 1..n : F[k] = i
    OBVIOUS
  <2>1. i \in 1..m /\ id[i] = i
    BY <1>3, <1>4
  <2>2. PICK k \in 1..n : at[k] = i
    BY <1>5, <1>8, <1>9, <2>1 DEF Picks
  <2> QED
    BY <1>10, <2>2
<1>13. adj(edges, p) = [k \in 1..n |-> edges[F[k]].dst]
  <2>1. F = FlattenSeq([i \in DOMAIN [i \in DOMAIN edges |-> i] |->
               IF /\ edges[[i_1 \in DOMAIN edges |-> i_1][i]].src = p
                  /\ \A j \in 1..([i_1 \in DOMAIN edges |-> i_1][i] - 1) :
                        edges[j].src = p => edges[j].dst # edges[[i_1 \in DOMAIN edges |-> i_1][i]].dst
               THEN <<[i_1 \in DOMAIN edges |-> i_1][i]>> ELSE <<>>])
    <3>1. \A i \in 1..m : id[i] = i
      BY <1>4
    <3>2. Kept(id, X) = FlattenSeq([i \in 1..m |-> IF id[i] \in X THEN <<id[i]>> ELSE <<>>])
      BY <1>5 DEF Kept
    <3>3. \A i \in 1..m : id[i] \in X <=>
             (edges[id[i]].src = p
              /\ \A j \in 1..(id[i] - 1) : edges[j].src = p => edges[j].dst # edges[id[i]].dst)
      BY <1>3, <3>1
    <3>4. [i \in DOMAIN [i \in DOMAIN edges |-> i] |->
               IF /\ edges[[i_1 \in DOMAIN edges |-> i_1][i]].src = p
                  /\ \A j \in 1..([i_1 \in DOMAIN edges |-> i_1][i] - 1) :
                        edges[j].src = p => edges[j].dst # edges[[i_1 \in DOMAIN edges |-> i_1][i]].dst
               THEN <<[i_1 \in DOMAIN edges |-> i_1][i]>> ELSE <<>>]
            = [i \in 1..m |-> IF id[i] \in X THEN <<id[i]>> ELSE <<>>]
      BY <1>1, <3>1, <3>3
    <3> QED
      BY <1>6, <3>2, <3>4
  <2>2. adj(edges, p) = [k \in DOMAIN F |-> edges[F[k]].dst]
    BY <2>1 DEF adj, Keep
  <2> QED
    BY <1>9, <2>2
<1>14. PICK a : a = adj(edges, p)
  OBVIOUS
<1>15. DOMAIN a = 1..n /\ \A k \in 1..n : a[k] = edges[F[k]].dst
  BY <1>13, <1>14
<1>16. a \in Seq(S)
  <2>1. a \in [1..n -> S]
    BY <1>2, <1>10, <1>13, <1>14
  <2> QED
    BY <2>1, SeqOn
<1>17. ASSUME NEW k \in 1..n, NEW l \in 1..n, k < l
       PROVE  a[k] # a[l]
  <2>1. F[k] \in 1..(F[l] - 1) /\ edges[F[k]].src = p /\ F[l] \in X
    BY <1>3, <1>10, <1>11, <1>17
  <2>2. edges[F[k]].dst # edges[F[l]].dst
    BY <1>3, <2>1
  <2> QED
    BY <1>15, <2>2
<1>18. \A k, l \in DOMAIN a : a[k] = a[l] => k = l
  <2> SUFFICES ASSUME NEW k \in 1..n, NEW l \in 1..n, k # l
               PROVE  a[k] # a[l]
    BY <1>15
  <2>1. k < l \/ l < k
    OBVIOUS
  <2> QED
    BY <1>17, <2>1
<1>19. ASSUME NEW q
       PROVE  p \in preds(edges, q) <=> \E i \in 1..m : edges[i].src = p /\ edges[i].dst = q
  BY <1>1 DEF preds, ToSet
<1>20. ASSUME NEW q, NEW i \in 1..m, edges[i].src = p, edges[i].dst = q
       PROVE  \E k \in DOMAIN a : a[k] = q
  <2> DEFINE Y == {j \in 1..m : edges[j].src = p /\ edges[j].dst = q}
  <2>1. Y \subseteq Nat /\ Y # {}
    BY <1>20
  <2>2. PICK j : j = First(Y)
    OBVIOUS
  <2>3. j \in Y /\ \A x \in Y : j <= x
    <3> HIDE DEF Y
    <3> QED
      BY <2>1, <2>2, FirstIs
  <2>4. j \in X
    BY <1>3, <2>3
  <2>5. PICK k \in 1..n : F[k] = j
    BY <1>12, <2>4
  <2> QED
    BY <1>15, <2>3, <2>5
<1>21. ASSUME NEW k \in DOMAIN a
       PROVE  F[k] \in 1..m /\ edges[F[k]].src = p /\ edges[F[k]].dst = a[k]
  BY <1>3, <1>10, <1>15
<1>22. ASSUME NEW q
       PROVE  (\E k \in DOMAIN a : a[k] = q) <=> p \in preds(edges, q)
  BY <1>19, <1>20, <1>21
<1> QED
  BY <1>0, <1>14, <1>16, <1>18, <1>22

-----------------------------------------------------------------------------
(* 2. The sort.                                                              *)

\* The cost of a pass is a number, so that costs are in a total order.
LEMMA CostIs ==
    ASSUME NEW p \in Pass
    PROVE  effectiveCost(p) \in Nat
<1>1. PICK a : a = p.accesses
  OBVIOUS
<1>2. a \in Seq(Access) /\ p.cycles \in Nat
  BY <1>1 DEF Pass
<1>3. PICK n \in Nat : n = Len(a)
  BY <1>2, LenProperties
<1> DEFINE B(i) == (IF involves_read(a[i].mode) THEN a[i].length ELSE 0)
                    + (IF involves_write(a[i].mode) THEN a[i].length ELSE 0)
<1>4. ASSUME NEW i \in 1..n
      PROVE  B(i) \in Nat
  <2>1. a[i] \in Access
    BY <1>2, <1>3, ElementOfSeq
  <2>2. a[i].length \in Nat
    BY <2>1 DEF Access
  <2> QED
    BY <2>2
<1>5. PICK f : f = CHOOSE x : x = [i \in 0..n |-> IF i = 0 THEN 0 ELSE x[i - 1] + B(i)]
  OBVIOUS
<1>6. deduce_cost_hint(a) = IF f[n] > 0 THEN (f[n] + 63) \div 64 ELSE 1
  BY <1>3, <1>5 DEF deduce_cost_hint
<1> HIDE DEF B
<1>7. f = [i \in 0..n |-> IF i = 0 THEN 0 ELSE f[i - 1] + B(i)]
  <2> DEFINE h == [y \in (1..n) \X Nat |-> y[2] + B(y[1])]
  <2>1. \A y \in (1..n) \X Nat : y[2] + B(y[1]) \in Nat
    BY <1>4
  <2>2. h \in [(1..n) \X Nat -> Nat] /\ 0 \in Nat
    BY <2>1
  <2>3. \A i \in 1..n, u \in Nat : h[<<i, u>>] = u + B(i)
    OBVIOUS
  <2> HIDE DEF h
  <2>4. PICK k : Runs(k, n, Nat, 0, h)
    BY <2>2, Recursion
  <2>5. k \in [0..n -> Nat] /\ k[0] = 0 /\ \A i \in 1..n : k[i] = h[<<i, k[i - 1]>>]
    BY <2>4 DEF Runs
  <2>6. ASSUME NEW i \in 0..n
        PROVE  k[i] = IF i = 0 THEN 0 ELSE k[i - 1] + B(i)
    <3>1. CASE i = 0
      BY <2>5, <3>1
    <3>2. CASE i # 0
      <4>1. i \in 1..n /\ i - 1 \in 0..n /\ k[i - 1] \in Nat
        BY <2>5, <3>2
      <4> QED
        BY <2>3, <2>5, <3>2, <4>1
    <3> QED
      BY <3>1, <3>2
  <2>7. k = [i \in 0..n |-> k[i]]
    BY <2>5
  <2>8. k = [i \in 0..n |-> IF i = 0 THEN 0 ELSE k[i - 1] + B(i)]
    BY <2>6, <2>7
  <2> QED
    BY <1>5, <2>8
<1> DEFINE M == {i \in 0..n : f[i] \in Nat}
<1>8. 0 \in M
  BY <1>7
<1>9. ASSUME NEW i \in 1..n, i - 1 \in M
      PROVE  i \in M
  <2>1. f[i] = f[i - 1] + B(i)
    BY <1>7
  <2> QED
    BY <1>4, <1>9, <2>1
<1>10. 0..n \subseteq M
  <2> HIDE DEF M
  <2> QED
    BY <1>8, <1>9, UpTo
<1>11. f[n] \in Nat
  BY <1>10
<1> QED
  BY <1>1, <1>2, <1>6, <1>11 DEF effectiveCost

\* What bestIdx() finds: the first of the best in the order among ready passes.
BestOf(g, ready, i) ==
    /\ i \in DOMAIN ready
    /\ \A j \in DOMAIN ready : /\ ~Before(g.passes[ready[j]], g.passes[ready[i]])
                               /\ j < i => Before(g.passes[ready[i]], g.passes[ready[j]])

\* The scan finds a best ready pass if there is one.
LEMMA BestIs ==
    ASSUME NEW g, g.passes \in Seq(Pass), NEW ready \in Seq(DOMAIN g.passes), ready # <<>>
    PROVE  BestOf(g, ready, bestIdx(g, ready))
<1>1. PICK n \in Nat : DOMAIN ready = 1..n /\ n # 0
  BY EmptySeq, LenProperties
<1> DEFINE B(i, j) == Before(g.passes[ready[i]], g.passes[ready[j]])
           P(i) == g.passes[ready[i]].priority
           C(i) == effectiveCost(g.passes[ready[i]])
<1>2. ASSUME NEW i \in 1..n
      PROVE  P(i) \in Int /\ C(i) \in Nat
  <2>1. ready[i] \in DOMAIN g.passes
    BY <1>1, ElementOfSeq, LenProperties
  <2>2. g.passes[ready[i]] \in Pass
    BY <2>1, ElementOfSeq, LenProperties
  <2> QED
    BY <2>2, CostIs DEF Pass
<1>3. ASSUME NEW i, NEW j
      PROVE  B(i, j) <=> P(i) > P(j) \/ (P(i) = P(j) /\ C(i) > C(j))
  BY DEF Before
<1> HIDE DEF B, P, C
<1>4. ASSUME NEW i \in 1..n, NEW j \in 1..n, NEW k \in 1..n
      PROVE  ~B(i, i) /\ (B(k, i) /\ ~B(j, i) => B(k, j)) /\ (B(i, j) => ~B(j, i))
  <2>1. /\ P(i) \in Int /\ P(j) \in Int /\ P(k) \in Int
        /\ C(i) \in Nat /\ C(j) \in Nat /\ C(k) \in Nat
    BY <1>2
  <2>2. PICK pi, pj, pk, ci, cj, ck \in Int : /\ pi = P(i) /\ pj = P(j) /\ pk = P(k)
                                              /\ ci = C(i) /\ cj = C(j) /\ ck = C(k)
    BY <2>1
  <2>3. /\ ~B(i, i)
        /\ B(k, i) <=> pk > pi \/ (pk = pi /\ ck > ci)
        /\ B(j, i) <=> pj > pi \/ (pj = pi /\ cj > ci)
        /\ B(k, j) <=> pk > pj \/ (pk = pj /\ ck > cj)
        /\ B(i, j) <=> pi > pj \/ (pi = pj /\ ci > cj)
    <3>1. ~B(i, i)
      BY <1>3, <2>2
    <3>2. B(k, i) <=> pk > pi \/ (pk = pi /\ ck > ci)
      BY <1>3, <2>2
    <3>3. B(j, i) <=> pj > pi \/ (pj = pi /\ cj > ci)
      BY <1>3, <2>2
    <3>4. B(k, j) <=> pk > pj \/ (pk = pj /\ ck > cj)
      BY <1>3, <2>2
    <3>5. B(i, j) <=> pi > pj \/ (pi = pj /\ ci > cj)
      BY <1>3, <2>2
    <3> QED
      BY <3>1, <3>2, <3>3, <3>4, <3>5
  <2> QED
    BY <2>3
<1> DEFINE M == {m \in 0..n : m = 0 \/ \E i \in 1..m : \A j \in 1..m : ~B(j, i) /\ (j < i => B(i, j))}
<1>5. 0 \in M
  BY <1>1
<1>6. ASSUME NEW m \in 1..n, m - 1 \in M
      PROVE  m \in M
  <2>1. CASE m = 1
    BY <1>4, <2>1
  <2>2. CASE m # 1
    <3>1. PICK i \in 1..(m - 1) : \A j \in 1..(m - 1) : ~B(j, i) /\ (j < i => B(i, j))
      BY <1>6, <2>2
    <3>2. \A j \in 1..m : j = m \/ j \in 1..(m - 1)
      OBVIOUS
    <3>3. i \in 1..m /\ i < m /\ i \in 1..n /\ \A j \in 1..m : j \in 1..n
      OBVIOUS
    <3>4. CASE B(m, i)
      <4>1. ASSUME NEW j \in 1..m
            PROVE  ~B(j, m) /\ (j < m => B(m, j))
        <5>1. CASE j = m
          BY <1>4, <5>1
        <5>2. CASE j \in 1..(m - 1)
          <6>1. ~B(j, i) /\ j \in 1..n
            BY <3>1, <3>3, <5>2
          <6>2. B(m, j)
            BY <1>4, <3>3, <3>4, <6>1
          <6> QED
            BY <1>4, <6>1, <6>2
        <5> QED
          BY <3>2, <5>1, <5>2
      <4> QED
        BY <4>1
    <3>5. CASE ~B(m, i)
      <4>1. \A j \in 1..m : ~B(j, i) /\ (j < i => B(i, j))
        BY <3>1, <3>2, <3>3, <3>5
      <4> QED
        BY <3>3, <4>1
    <3> QED
      BY <3>4, <3>5
  <2> QED
    BY <2>1, <2>2
<1>7. 0..n \subseteq M
  <2> HIDE DEF M
  <2> QED
    BY <1>5, <1>6, UpTo
<1>8. \E i \in 1..n : \A j \in 1..n : ~B(j, i) /\ (j < i => B(i, j))
  <2>1. n \in M
    <3>1. n \in 0..n
      BY <1>1
    <3> HIDE DEF M
    <3> QED
      BY <1>7, <3>1
  <2> QED
    BY <1>1, <2>1
<1>9. \E i \in DOMAIN ready : \A j \in DOMAIN ready :
        /\ ~Before(g.passes[ready[j]], g.passes[ready[i]])
        /\ j < i => Before(g.passes[ready[i]], g.passes[ready[j]])
  BY <1>1, <1>8 DEF B
<1> QED
  BY <1>9 DEF bestIdx, BestOf

NoRepeat(s) == \A i, j \in DOMAIN s : s[i] = s[j] => i = j

In(x, s) == \E i \in DOMAIN s : s[i] = x

\* A sequence without repeats of numbers up to n has at most n items, and n of
\* them when it has all the numbers.
LEMMA Fills ==
    ASSUME NEW n \in Nat, NEW s \in Seq(1..n), NoRepeat(s)
    PROVE  Len(s) \in Nat /\ Len(s) <= n /\ (Len(s) = n <=> \A p \in 1..n : In(p, s))
<1>1. PICK m \in Nat : m = Len(s) /\ DOMAIN s = 1..m
  BY LenProperties
<1>2. s \in [1..m -> 1..n]
  BY <1>1, LenProperties
<1>3. s \in Injection(1..m, 1..n)
  BY <1>1, <1>2 DEF NoRepeat, Injection, IsInjective
<1>4. IsFiniteSet(1..n) /\ Cardinality(1..n) = n /\ Cardinality(1..m) = m
  BY FS_Interval
<1>5. m <= n /\ (m = n <=> s \in Surjection(1..m, 1..n))
  BY <1>3, <1>4, FS_Injection
<1>6. s \in Surjection(1..m, 1..n) <=> \A p \in 1..n : In(p, s)
  BY <1>1, <1>2 DEF Surjection, In
<1> QED
  BY <1>1, <1>5, <1>6

\* The ready queue after the pass at b has changed places with the head and left.
Left(r, b) == Tail([r EXCEPT ![b] = Head(r)])

\* It is the only one that leaves.
LEMMA LeaveQueue ==
    ASSUME NEW T, NEW r \in Seq(T), NEW b \in DOMAIN r, NEW R, R = Left(r, b)
    PROVE  /\ R \in Seq(T)
           /\ NoRepeat(r) => NoRepeat(R) /\ \A x : In(x, R) <=> In(x, r) /\ x # r[b]
<1>1. PICK n \in Nat : n = Len(r) /\ DOMAIN r = 1..n
  BY LenProperties
<1>2. r # <<>> /\ 1 \in 1..n /\ b \in 1..n
  BY <1>1
<1>3. \A i \in 1..n : r[i] \in T
  BY <1>1, ElementOfSeq
<1>4. PICK q : q = [r EXCEPT ![b] = Head(r)]
  OBVIOUS
<1>5. q \in Seq(T) /\ Len(q) = n /\ \A i \in 1..n : q[i] = IF i = b THEN r[1] ELSE r[i]
  <2>1. Head(r) = r[1] /\ Head(r) \in T
    BY <1>2, <1>3
  <2> QED
    BY <1>1, <1>2, <1>4, <2>1, ExceptSeq
<1>6. q # <<>>
  BY <1>2, <1>5
<1>7. /\ R \in Seq(T) /\ Len(R) = n - 1 /\ \A i \in 1..(n - 1) : R[i] = q[i + 1]
  <2>1. R = Tail(q)
    BY <1>4 DEF Left
  <2>2. q \in Seq(T) /\ q # <<>> /\ Len(q) = n
    BY <1>5, <1>6
  <2>3. Tail(q) \in Seq(T) /\ Len(Tail(q)) = Len(q) - 1
        /\ \A i \in 1..Len(Tail(q)) : Tail(q)[i] = q[i + 1]
    BY <2>2, HeadTailProperties
  <2> QED
    BY <2>1, <2>2, <2>3
<1>8. DOMAIN R = 1..(n - 1)
  BY <1>7, LenProperties
<1>9. \A i \in 1..(n - 1) : i + 1 \in 1..n /\ R[i] = IF i + 1 = b THEN r[1] ELSE r[i + 1]
  BY <1>5, <1>7
<1>10. ASSUME NoRepeat(r)
       PROVE  NoRepeat(R) /\ \A x : In(x, R) <=> In(x, r) /\ x # r[b]
  <2>1. \A i, j \in 1..n : r[i] = r[j] => i = j
    BY <1>1, <1>10 DEF NoRepeat
  <2>2. NoRepeat(R)
    <3> SUFFICES ASSUME NEW i \in 1..(n - 1), NEW j \in 1..(n - 1), R[i] = R[j]
                 PROVE  i = j
      BY <1>8 DEF NoRepeat
    <3>1. i + 1 \in 1..n /\ j + 1 \in 1..n
      OBVIOUS
    <3>2. CASE i + 1 = b /\ j + 1 = b
      BY <3>2
    <3>3. CASE i + 1 = b /\ j + 1 # b
      <4>1. r[1] = r[j + 1]
        BY <1>9, <3>3
      <4> QED
        BY <1>2, <2>1, <3>1, <4>1
    <3>4. CASE i + 1 # b /\ j + 1 = b
      <4>1. r[1] = r[i + 1]
        BY <1>9, <3>4
      <4> QED
        BY <1>2, <2>1, <3>1, <4>1
    <3>5. CASE i + 1 # b /\ j + 1 # b
      <4>1. r[i + 1] = r[j + 1]
        BY <1>9, <3>5
      <4>2. i + 1 = j + 1
        BY <2>1, <3>1, <4>1
      <4> QED
        BY <4>2
    <3> QED
      BY <3>2, <3>3, <3>4, <3>5
  <2>3. ASSUME NEW x, In(x, R)
        PROVE  In(x, r) /\ x # r[b]
    <3>1. PICK i \in 1..(n - 1) : R[i] = x
      BY <1>8, <2>3 DEF In
    <3>2. CASE i + 1 = b
      <4>1. x = r[1] /\ b # 1
        BY <1>9, <3>1, <3>2
      <4> QED
        BY <1>1, <1>2, <2>1, <4>1 DEF In
    <3>3. CASE i + 1 # b
      <4>1. x = r[i + 1] /\ i + 1 \in 1..n
        BY <1>9, <3>1, <3>3
      <4> QED
        BY <1>1, <1>2, <2>1, <3>3, <4>1 DEF In
    <3> QED
      BY <3>2, <3>3
  <2>4. ASSUME NEW x, In(x, r), x # r[b]
        PROVE  In(x, R)
    <3>1. PICK i \in 1..n : r[i] = x /\ i # b
      BY <1>1, <2>4 DEF In
    <3>2. CASE i = 1
      <4>1. b - 1 \in 1..(n - 1) /\ (b - 1) + 1 = b
        BY <1>2, <3>1, <3>2
      <4>2. R[b - 1] = r[1]
        BY <1>9, <4>1
      <4> QED
        BY <1>8, <3>1, <3>2, <4>1, <4>2 DEF In
    <3>3. CASE i # 1
      <4>1. i - 1 \in 1..(n - 1) /\ (i - 1) + 1 = i
        BY <3>3
      <4>2. R[i - 1] = r[i]
        BY <1>9, <3>1, <4>1
      <4> QED
        BY <1>8, <3>1, <4>1, <4>2 DEF In
    <3> QED
      BY <3>2, <3>3
  <2> QED
    BY <2>2, <2>3, <2>4
<1> QED
  BY <1>7, <1>10

\* Two sequences without a common item, one after the other.
LEMMA ConcatIs ==
    ASSUME NEW T, NEW r \in Seq(T), NEW s \in Seq(T)
    PROVE  /\ r \o s \in Seq(T)
           /\ \A x : In(x, r \o s) <=> In(x, r) \/ In(x, s)
           /\ NoRepeat(r) /\ NoRepeat(s) /\ (\A x : ~(In(x, r) /\ In(x, s))) => NoRepeat(r \o s)
<1>1. PICK m \in Nat, n \in Nat : /\ m = Len(r) /\ DOMAIN r = 1..m
                                  /\ n = Len(s) /\ DOMAIN s = 1..n
  BY LenProperties
<1>2. PICK z : z = r \o s
  OBVIOUS
<1>3. /\ z \in Seq(T) /\ DOMAIN z = 1..(m + n)
      /\ \A i \in 1..(m + n) : z[i] = IF i <= m THEN r[i] ELSE s[i - m]
  BY <1>1, <1>2, ConcatProperties, LenProperties
<1>4. \A i \in 1..(m + n) : IF i <= m THEN i \in 1..m ELSE i - m \in 1..n
  OBVIOUS
<1>5. ASSUME NEW x, In(x, z)
      PROVE  In(x, r) \/ In(x, s)
  <2>1. PICK i \in 1..(m + n) : z[i] = x
    BY <1>3, <1>5 DEF In
  <2> QED
    BY <1>1, <1>3, <1>4, <2>1 DEF In
<1>6. ASSUME NEW x, In(x, r)
      PROVE  In(x, z)
  <2>1. PICK i \in 1..m : r[i] = x
    BY <1>1, <1>6 DEF In
  <2>2. i \in 1..(m + n) /\ i <= m
    OBVIOUS
  <2> QED
    BY <1>3, <2>1, <2>2 DEF In
<1>7. ASSUME NEW x, In(x, s)
      PROVE  In(x, z)
  <2>1. PICK i \in 1..n : s[i] = x
    BY <1>1, <1>7 DEF In
  <2>2. m + i \in 1..(m + n) /\ ~(m + i <= m) /\ (m + i) - m = i
    OBVIOUS
  <2> QED
    BY <1>3, <2>1, <2>2 DEF In
<1>8. ASSUME NoRepeat(r), NoRepeat(s), \A x : ~(In(x, r) /\ In(x, s))
      PROVE  NoRepeat(z)
  <2> SUFFICES ASSUME NEW i \in 1..(m + n), NEW j \in 1..(m + n), z[i] = z[j]
               PROVE  i = j
    BY <1>3 DEF NoRepeat
  <2>1. CASE i <= m /\ j <= m
    <3>1. i \in 1..m /\ j \in 1..m /\ r[i] = r[j]
      BY <1>3, <2>1
    <3> QED
      BY <1>1, <1>8, <3>1 DEF NoRepeat
  <2>2. CASE ~(i <= m) /\ ~(j <= m)
    <3>1. i - m \in 1..n /\ j - m \in 1..n /\ s[i - m] = s[j - m]
      BY <1>3, <2>2
    <3>2. i - m = j - m
      BY <1>1, <1>8, <3>1 DEF NoRepeat
    <3> QED
      BY <3>2
  <2>3. CASE i <= m /\ ~(j <= m)
    <3>1. i \in 1..m /\ j - m \in 1..n /\ r[i] = s[j - m]
      BY <1>3, <2>3
    <3>2. In(r[i], r) /\ In(r[i], s)
      BY <1>1, <3>1 DEF In
    <3> QED
      BY <1>8, <3>2
  <2>4. CASE ~(i <= m) /\ j <= m
    <3>1. j \in 1..m /\ i - m \in 1..n /\ r[j] = s[i - m]
      BY <1>3, <2>4
    <3>2. In(r[j], r) /\ In(r[j], s)
      BY <1>1, <3>1 DEF In
    <3> QED
      BY <1>8, <3>2
  <2> QED
    BY <2>1, <2>2, <2>3, <2>4
<1> QED
  BY <1>2, <1>3, <1>5, <1>6, <1>7, <1>8

\* The items of a sequence without repeats that are in X.
LEMMA KeptOnce ==
    ASSUME NEW T, NEW s \in Seq(T), NoRepeat(s), NEW X
    PROVE  Kept(s, X) \in Seq(T) /\ NoRepeat(Kept(s, X))
           /\ \A x : In(x, Kept(s, X)) <=> In(x, s) /\ x \in X
<1>1. PICK K : K = Kept(s, X)
  OBVIOUS
<1>2. K \in Seq(T) /\ \E at : Picks(K, s, X, at)
  BY <1>1, KeptIs
<1>3. PICK at : Picks(K, s, X, at)
  BY <1>2
<1>4. PICK n \in Nat : DOMAIN K = 1..n
  BY <1>2, LenProperties
<1>5. NoRepeat(K)
  <2> SUFFICES ASSUME NEW i \in 1..n, NEW j \in 1..n, K[i] = K[j], i # j
               PROVE  FALSE
    BY <1>4 DEF NoRepeat
  <2>1. at[i] = at[j]
    BY <1>3, <1>4 DEF Picks, NoRepeat
  <2>2. i < j \/ j < i
    OBVIOUS
  <2>3. at[i] < at[j] \/ at[j] < at[i]
    BY <1>3, <1>4, <2>2 DEF Picks
  <2>4. at[i] \in Nat
    BY <1>3, <1>4, LenProperties DEF Picks
  <2> QED
    BY <2>1, <2>3, <2>4
<1>6. \A x : In(x, K) <=> In(x, s) /\ x \in X
  BY <1>3 DEF Picks, In
<1> QED
  BY <1>1, <1>2, <1>5, <1>6

\* The states of the sort over the passes of g.
SortState(g) == [ready : Seq(DOMAIN g.passes), inDegree : [DOMAIN g.passes -> Int],
                 sorted : Seq(DOMAIN g.passes)]

Waits(edges, k, p) == {q \in preds(edges, p) : ~In(q, k.sorted)}

\* sorted[j] comes after those it has edges from, and after one of lower priority
\* only with such a pass in between.
InOrder(g, edges, sorted) ==
    /\ \A j \in DOMAIN sorted : \A q \in preds(edges, sorted[j]) :
          \E i \in DOMAIN sorted : i < j /\ sorted[i] = q
    /\ \A i, j \in DOMAIN sorted :
          i < j /\ g.passes[sorted[j]].priority > g.passes[sorted[i]].priority =>
          \E c \in i..(j - 1) : sorted[c] \in preds(edges, sorted[j])

\* The invariant of the sort: a pass is ready or sorted when those it has edges
\* from are sorted; the count of the others is its degree.
Kahn(g, edges, k) ==
    /\ k \in SortState(g)
    /\ NoRepeat(k.ready) /\ NoRepeat(k.sorted) /\ \A p : ~(In(p, k.ready) /\ In(p, k.sorted))
    /\ \A p \in DOMAIN g.passes : k.inDegree[p] = Cardinality(Waits(edges, k, p))
    /\ \A p \in DOMAIN g.passes : In(p, k.ready) \/ In(p, k.sorted) <=> Waits(edges, k, p) = {}
    /\ InOrder(g, edges, k.sorted)
    /\ \A p \in DOMAIN g.passes : \A i \in DOMAIN k.sorted :
          In(p, k.ready) /\ g.passes[p].priority > g.passes[k.sorted[i]].priority =>
          \E c \in i..Len(k.sorted) : k.sorted[c] \in preds(edges, p)

\* The same, for the sort.
LEMMA AdjOf ==
    ASSUME NEW g, NEW edges \in Seq(Edge(g)), NEW p
    PROVE  /\ adj(edges, p) \in Seq(DOMAIN g.passes) /\ NoRepeat(adj(edges, p))
           /\ \A q : In(q, adj(edges, p)) <=> p \in preds(edges, q)
<1>1. PICK a : a = adj(edges, p)
  OBVIOUS
<1>2. /\ a \in Seq(DOMAIN g.passes)
      /\ \A k, l \in DOMAIN a : a[k] = a[l] => k = l
      /\ \A q : (\E k \in DOMAIN a : a[k] = q) <=> p \in preds(edges, q)
  BY <1>1, AdjIs
<1>3. NoRepeat(a) /\ \A q : In(q, a) <=> p \in preds(edges, q)
  BY <1>2 DEF NoRepeat, In
<1> QED
  BY <1>1, <1>2, <1>3

\* k2 is the state after a turn that takes position b of the queue: rest stays
\* there, freed joins it.
Turn(g, edges, k, b, rest, freed, k2) ==
    /\ BestOf(g, k.ready, b)
    /\ rest = Left(k.ready, b)
    /\ freed = Kept(adj(edges, k.ready[b]), {s \in DOMAIN g.passes : k.inDegree[s] = 1})
    /\ k2.ready = rest \o freed
    /\ k2.inDegree = [p \in DOMAIN g.passes |->
                         k.inDegree[p] - (IF k.ready[b] \in preds(edges, p) THEN 1 ELSE 0)]
    /\ k2.sorted = Append(k.sorted, k.ready[b])
    /\ k2 = [ready |-> k2.ready, inDegree |-> k2.inDegree, sorted |-> k2.sorted]

\* What a turn of the sort is made of.
LEMMA SortStepIs ==
    ASSUME NEW g, g.passes \in Seq(Pass), NEW edges \in Seq(Edge(g)),
           NEW k \in SortState(g), k.ready # <<>>
    PROVE  \E b, rest, freed : Turn(g, edges, k, b, rest, freed, SortStep(g, edges, k))
<1>1. PICK b : b = bestIdx(g, k.ready)
  OBVIOUS
<1>2. k.ready \in Seq(DOMAIN g.passes) /\ DOMAIN k.inDegree = DOMAIN g.passes
  BY DEF SortState
<1>3. BestOf(g, k.ready, b)
  BY <1>1, <1>2, BestIs
<1>4. PICK cur, a : cur = k.ready[b] /\ a = adj(edges, cur)
  OBVIOUS
<1>5. a \in Seq(DOMAIN g.passes) /\ \A q : In(q, a) <=> cur \in preds(edges, q)
  BY <1>4, AdjOf
<1>6. PICK freed : freed = Kept(a, {s \in DOMAIN g.passes : k.inDegree[s] = 1})
  OBVIOUS
<1>7. PICK rest : rest = Left(k.ready, b)
  OBVIOUS
<1>8. freed = FlattenSeq([i \in DOMAIN a |-> IF k.inDegree[a[i]] = 1 THEN <<a[i]>> ELSE <<>>])
  <2>1. \A i \in DOMAIN a : a[i] \in DOMAIN g.passes
    BY <1>5, ElementOfSeq, LenProperties
  <2> QED
    BY <1>6, <2>1 DEF Kept
<1>9. \A p : Contains(a, p) <=> cur \in preds(edges, p)
  BY <1>5, LenProperties DEF Contains, In
<1>10. PICK D : D = [p \in DOMAIN k.inDegree |-> k.inDegree[p] - (IF Contains(a, p) THEN 1 ELSE 0)]
  OBVIOUS
<1>11. D = [p \in DOMAIN g.passes |-> k.inDegree[p] - (IF cur \in preds(edges, p) THEN 1 ELSE 0)]
  BY <1>2, <1>9, <1>10
<1>12. SortStep(g, edges, k) =
         [ready    |-> Tail([k.ready EXCEPT ![b] = Head(k.ready)])
                         \o FlattenSeq([i \in DOMAIN a |-> IF k.inDegree[a[i]] = 1 THEN <<a[i]>> ELSE <<>>]),
          inDegree |-> [p \in DOMAIN k.inDegree |-> k.inDegree[p] - (IF Contains(a, p) THEN 1 ELSE 0)],
          sorted   |-> Append(k.sorted, cur)]
  BY <1>1, <1>4 DEF SortStep, Keep
<1>13. SortStep(g, edges, k) = [ready |-> rest \o freed, inDegree |-> D, sorted |-> Append(k.sorted, cur)]
  BY <1>7, <1>8, <1>10, <1>12 DEF Left
<1>14. Turn(g, edges, k, b, rest, freed, [ready |-> rest \o freed, inDegree |-> D, sorted |-> Append(k.sorted, cur)])
  BY <1>3, <1>4, <1>6, <1>7, <1>11 DEF Turn
<1> QED
  BY <1>13, <1>14

\* The facts of a turn that its proofs need.
LEMMA TurnIs ==
    ASSUME NEW g, NEW edges \in Seq(Edge(g)), NEW k \in SortState(g),
           NEW b, NEW rest, NEW freed, NEW k2, Turn(g, edges, k, b, rest, freed, k2)
    PROVE  /\ k2 \in SortState(g)
           /\ k.ready[b] \in DOMAIN g.passes /\ In(k.ready[b], k.ready)
           /\ rest \in Seq(DOMAIN g.passes) /\ freed \in Seq(DOMAIN g.passes) /\ NoRepeat(freed)
           /\ NoRepeat(k.ready) => NoRepeat(rest) /\ \A x : In(x, rest) <=> In(x, k.ready) /\ x # k.ready[b]
           /\ \A x : In(x, freed) <=> x \in DOMAIN g.passes /\ k.ready[b] \in preds(edges, x) /\ k.inDegree[x] = 1
<1>1. PICK P : P = DOMAIN g.passes
  OBVIOUS
<1>2. PICK r, cur : r = k.ready /\ cur = r[b]
  OBVIOUS
<1>3. r \in Seq(P) /\ k.sorted \in Seq(P) /\ k.inDegree \in [P -> Int]
  BY <1>1, <1>2 DEF SortState
<1>4. b \in DOMAIN r /\ rest = Left(r, b)
  BY <1>2 DEF Turn, BestOf
<1>5. cur \in P /\ In(cur, r)
  <2>1. \A i \in DOMAIN r : r[i] \in P
    BY <1>3, ElementOfSeq, LenProperties
  <2> QED
    BY <1>2, <1>4, <2>1 DEF In
<1>6. /\ rest \in Seq(P)
      /\ NoRepeat(r) => NoRepeat(rest) /\ \A x : In(x, rest) <=> In(x, r) /\ x # cur
  <2>1. r \in Seq(P)
    BY <1>3
  <2>2. /\ rest \in Seq(P)
        /\ NoRepeat(r) => NoRepeat(rest) /\ \A x : In(x, rest) <=> In(x, r) /\ x # r[b]
    BY <1>4, <2>1, LeaveQueue
  <2> QED
    BY <1>2, <2>2
<1>7. PICK a, X : a = adj(edges, cur) /\ X = {s \in P : k.inDegree[s] = 1}
  OBVIOUS
<1>8. a \in Seq(P) /\ NoRepeat(a) /\ \A q : In(q, a) <=> cur \in preds(edges, q)
  BY <1>1, <1>7, AdjOf
<1>9. freed = Kept(a, X)
  BY <1>1, <1>2, <1>7 DEF Turn
<1>10. freed \in Seq(P) /\ NoRepeat(freed) /\ \A x : In(x, freed) <=> In(x, a) /\ x \in X
  BY <1>8, <1>9, KeptOnce
<1>11. k2 \in SortState(g)
  <2>1. k2.ready \in Seq(P)
    <3>1. k2.ready = rest \o freed
      BY DEF Turn
    <3> QED
      BY <1>6, <1>10, <3>1, ConcatProperties
  <2>2. k2.sorted \in Seq(P)
    <3>1. k2.sorted = Append(k.sorted, cur)
      BY <1>2 DEF Turn
    <3> QED
      BY <1>3, <1>5, <3>1, AppendProperties
  <2>3. k2.inDegree \in [P -> Int]
    <3>1. k2.inDegree = [p \in P |-> k.inDegree[p] - (IF cur \in preds(edges, p) THEN 1 ELSE 0)]
      BY <1>1, <1>2 DEF Turn
    <3>2. \A p \in P : k.inDegree[p] - (IF cur \in preds(edges, p) THEN 1 ELSE 0) \in Int
      BY <1>3
    <3> QED
      BY <3>1, <3>2
  <2>4. k2 = [ready |-> k2.ready, inDegree |-> k2.inDegree, sorted |-> k2.sorted]
    BY DEF Turn
  <2> QED
    BY <1>1, <2>1, <2>2, <2>3, <2>4 DEF SortState
<1>12. \A x : In(x, freed) <=> x \in P /\ cur \in preds(edges, x) /\ k.inDegree[x] = 1
  BY <1>7, <1>8, <1>10
<1> QED
  BY <1>1, <1>2, <1>5, <1>6, <1>10, <1>11, <1>12

\* A turn of the sort keeps the types of its state.
LEMMA SortStepTypes ==
    ASSUME NEW g, g.passes \in Seq(Pass), NEW edges \in Seq(Edge(g)),
           NEW k \in SortState(g), k.ready # <<>>
    PROVE  SortStep(g, edges, k) \in SortState(g)
  BY SortStepIs, TurnIs

\* Predecessors are passes, finitely many.
LEMMA PredsAre ==
    ASSUME NEW g, g.passes \in Seq(Pass), NEW edges \in Seq(Edge(g)), NEW p
    PROVE  /\ preds(edges, p) \subseteq DOMAIN g.passes /\ IsFiniteSet(preds(edges, p))
           /\ \A q : q \in preds(edges, p) <=> \E e \in DOMAIN edges : edges[e].src = q /\ edges[e].dst = p
<1>1. \A q : q \in preds(edges, p) <=> \E e \in DOMAIN edges : edges[e].src = q /\ edges[e].dst = p
  BY DEF preds, ToSet
<1>2. \A e \in DOMAIN edges : edges[e].src \in DOMAIN g.passes
  <2>1. \A e \in DOMAIN edges : edges[e] \in Edge(g)
    BY ElementOfSeq, LenProperties
  <2> QED
    BY <2>1 DEF Edge
<1>3. preds(edges, p) \subseteq DOMAIN g.passes
  BY <1>1, <1>2
<1>4. IsFiniteSet(DOMAIN g.passes)
  BY LenProperties, FS_Interval
<1> QED
  BY <1>1, <1>3, <1>4, FS_Subset

\* A turn of the sort keeps its invariant.
LEMMA SortStepKeeps ==
    ASSUME NEW g, g.passes \in Seq(Pass), NEW edges \in Seq(Edge(g)),
           NEW k, Kahn(g, edges, k), k.ready # <<>>
    PROVE  /\ Kahn(g, edges, SortStep(g, edges, k))
           /\ Len(SortStep(g, edges, k).sorted) = Len(k.sorted) + 1
<1> DEFINE P == DOMAIN g.passes
           Pri(p) == g.passes[p].priority
<1>1. /\ k \in SortState(g) /\ NoRepeat(k.ready) /\ NoRepeat(k.sorted)
      /\ \A p : ~(In(p, k.ready) /\ In(p, k.sorted))
      /\ \A p \in P : k.inDegree[p] = Cardinality(Waits(edges, k, p))
      /\ \A p \in P : In(p, k.ready) \/ In(p, k.sorted) <=> Waits(edges, k, p) = {}
      /\ InOrder(g, edges, k.sorted)
      /\ \A p \in P : \A i \in DOMAIN k.sorted :
            In(p, k.ready) /\ Pri(p) > Pri(k.sorted[i]) =>
            \E c \in i..Len(k.sorted) : k.sorted[c] \in preds(edges, p)
  BY DEF Kahn
<1>2. k.ready \in Seq(P) /\ k.sorted \in Seq(P) /\ k.inDegree \in [P -> Int]
  BY <1>1 DEF SortState
<1>3. PICK k2 : k2 = SortStep(g, edges, k)
  OBVIOUS
<1>4. PICK b, rest, freed : Turn(g, edges, k, b, rest, freed, k2)
  BY <1>1, <1>3, SortStepIs
<1>5. PICK cur : cur = k.ready[b]
  OBVIOUS
<1>6. /\ k2.ready = rest \o freed /\ k2.sorted = Append(k.sorted, cur)
      /\ \A p \in P : k2.inDegree[p] = k.inDegree[p] - (IF cur \in preds(edges, p) THEN 1 ELSE 0)
  BY <1>4, <1>5 DEF Turn
<1>7. /\ k2 \in SortState(g) /\ cur \in P /\ In(cur, k.ready) /\ ~In(cur, k.sorted)
  BY <1>1, <1>4, <1>5, TurnIs
<1>8. rest \in Seq(P) /\ NoRepeat(rest) /\ \A x : In(x, rest) <=> In(x, k.ready) /\ x # cur
  BY <1>1, <1>4, <1>5, TurnIs
<1>9. freed \in Seq(P) /\ NoRepeat(freed)
      /\ \A x : In(x, freed) <=> x \in P /\ cur \in preds(edges, x) /\ k.inDegree[x] = 1
  BY <1>1, <1>4, <1>5, TurnIs
<1>10. PICK L \in Nat : /\ L = Len(k.sorted) /\ DOMAIN k.sorted = 1..L
                        /\ Len(k2.sorted) = L + 1 /\ DOMAIN k2.sorted = 1..(L + 1)
                        /\ k2.sorted \in Seq(P)
                        /\ \A i \in 1..L : k2.sorted[i] = k.sorted[i]
                        /\ k2.sorted[L + 1] = cur
  <2>1. PICK y, z, S : y = k.sorted /\ z = k2.sorted /\ S = P
    OBVIOUS
  <2>2. y \in Seq(S) /\ cur \in S /\ z = Append(y, cur)
    BY <1>2, <1>6, <1>7, <2>1
  <2>3. /\ z \in Seq(S) /\ Len(z) = Len(y) + 1 /\ z[Len(y) + 1] = cur
        /\ \A i \in 1..Len(y) : z[i] = y[i]
    BY <2>2, AppendProperties
  <2>4. Len(y) \in Nat /\ DOMAIN y = 1..Len(y) /\ DOMAIN z = 1..Len(z)
    BY <2>2, <2>3, LenProperties
  <2> QED
    BY <2>1, <2>3, <2>4
<1>11. \A i \in 1..(L + 1) : i = L + 1 \/ i \in 1..L
  OBVIOUS
<1>12. \A x : In(x, k2.sorted) <=> In(x, k.sorted) \/ x = cur
  <2>1. L + 1 \in 1..(L + 1) /\ \A i \in 1..L : i \in 1..(L + 1)
    OBVIOUS
  <2> QED
    BY <1>10, <1>11, <2>1 DEF In
<1>13. NoRepeat(k2.sorted)
  <2> SUFFICES ASSUME NEW i \in 1..(L + 1), NEW j \in 1..(L + 1), k2.sorted[i] = k2.sorted[j]
               PROVE  i = j
    BY <1>10 DEF NoRepeat
  <2>1. CASE i \in 1..L /\ j \in 1..L
    BY <1>1, <1>10, <2>1 DEF NoRepeat
  <2>2. CASE i \in 1..L /\ j = L + 1
    BY <1>7, <1>10, <2>2 DEF In
  <2>3. CASE i = L + 1 /\ j \in 1..L
    BY <1>7, <1>10, <2>3 DEF In
  <2> QED
    BY <1>11, <2>1, <2>2, <2>3
<1>14. \A p : Waits(edges, k2, p) = Waits(edges, k, p) \ {cur}
  BY <1>12 DEF Waits
<1>15. \A p : cur \in Waits(edges, k, p) <=> cur \in preds(edges, p)
  BY <1>7 DEF Waits
<1>16. ASSUME NEW p \in P
       PROVE  /\ IsFiniteSet(Waits(edges, k, p))
              /\ Cardinality(Waits(edges, k, p)) \in Nat
              /\ (Cardinality(Waits(edges, k, p)) = 0 <=> Waits(edges, k, p) = {})
              /\ Cardinality(Waits(edges, k2, p)) = k2.inDegree[p]
              /\ cur \in preds(edges, p) => (k.inDegree[p] = 1 <=> Waits(edges, k2, p) = {})
  <2>1. PICK W : W = Waits(edges, k, p)
    OBVIOUS
  <2>2. IsFiniteSet(W)
    BY <2>1, PredsAre, FS_Subset DEF Waits
  <2>3. /\ Cardinality(W) \in Nat /\ (Cardinality(W) = 0 <=> W = {})
        /\ IsFiniteSet(W \ {cur})
        /\ Cardinality(W \ {cur}) = IF cur \in W THEN Cardinality(W) - 1 ELSE Cardinality(W)
        /\ (Cardinality(W \ {cur}) = 0 <=> W \ {cur} = {})
    BY <2>2, FS_RemoveElement, FS_EmptySet, FS_CardinalityType
  <2>4. k.inDegree[p] = Cardinality(W) /\ Waits(edges, k2, p) = W \ {cur}
    BY <1>1, <1>14, <2>1
  <2>5. Cardinality(W \ {cur}) = k2.inDegree[p]
    BY <1>6, <1>15, <2>1, <2>3, <2>4
  <2>6. cur \in preds(edges, p) => (k.inDegree[p] = 1 <=> W \ {cur} = {})
    BY <1>15, <2>1, <2>3, <2>4
  <2> QED
    BY <2>1, <2>2, <2>3, <2>4, <2>5, <2>6
<1>17. \A x : In(x, freed) => ~In(x, k.ready) /\ ~In(x, k.sorted)
  BY <1>1, <1>9, <1>15
<1>18. NoRepeat(k2.ready) /\ \A x : In(x, k2.ready) <=> In(x, rest) \/ In(x, freed)
  <2>1. \A x : ~(In(x, rest) /\ In(x, freed))
    BY <1>8, <1>17
  <2> HIDE DEF P
  <2> QED
    BY <1>6, <1>8, <1>9, <2>1, ConcatIs
<1>19. \A p : ~(In(p, k2.ready) /\ In(p, k2.sorted))
  BY <1>1, <1>7, <1>8, <1>12, <1>17, <1>18
<1>20. ASSUME NEW p \in P
       PROVE  In(p, k2.ready) \/ In(p, k2.sorted) <=> Waits(edges, k2, p) = {}
  <2>1. In(p, k2.ready) \/ In(p, k2.sorted) <=> In(p, k.ready) \/ In(p, k.sorted) \/ In(p, freed)
    BY <1>7, <1>8, <1>12, <1>18
  <2>2. CASE cur \in preds(edges, p)
    <3>1. ~In(p, k.ready) /\ ~In(p, k.sorted)
      BY <1>1, <1>15, <2>2
    <3> QED
      BY <1>9, <1>16, <2>1, <2>2, <3>1
  <2>3. CASE cur \notin preds(edges, p)
    <3>1. ~In(p, freed) /\ Waits(edges, k2, p) = Waits(edges, k, p)
      BY <1>9, <1>14, <1>15, <2>3
    <3> QED
      BY <1>1, <2>1, <3>1
  <2> QED
    BY <2>2, <2>3
<1>21. \A p \in P : Pri(p) \in Int
  <2>1. \A p \in P : g.passes[p] \in Pass
    BY ElementOfSeq, LenProperties
  <2> QED
    BY <2>1 DEF Pass
<1>22. \A p \in P : In(p, k.ready) => ~(Pri(p) > Pri(cur))
  BY <1>4, <1>5 DEF Turn, BestOf, Before, In
<1>23. \A i \in 1..L : k.sorted[i] \in P
  <2> HIDE DEF P
  <2> QED
    BY <1>2, <1>10, ElementOfSeq
<1> HIDE DEF P
<1>24. InOrder(g, edges, k2.sorted)
  <2>1. ASSUME NEW j \in 1..(L + 1), NEW q \in preds(edges, k2.sorted[j])
        PROVE  \E i \in 1..(L + 1) : i < j /\ k2.sorted[i] = q
    <3>1. CASE j \in 1..L
      <4>1. PICK i \in 1..L : i < j /\ k.sorted[i] = q
        BY <1>1, <1>10, <2>1, <3>1 DEF InOrder
      <4> QED
        BY <1>10, <4>1
    <3>2. CASE j = L + 1
      <4>1. Waits(edges, k, cur) = {}
        BY <1>1, <1>7
      <4>2. PICK i \in 1..L : k.sorted[i] = q
        BY <1>10, <2>1, <3>2, <4>1 DEF Waits, In
      <4>3. i \in 1..(L + 1) /\ i < j /\ k2.sorted[i] = q
        BY <1>10, <3>2, <4>2
      <4> QED
        BY <4>3
    <3> QED
      BY <1>11, <3>1, <3>2
  <2>2. ASSUME NEW i \in 1..(L + 1), NEW j \in 1..(L + 1), i < j,
               Pri(k2.sorted[j]) > Pri(k2.sorted[i])
        PROVE  \E c \in i..(j - 1) : k2.sorted[c] \in preds(edges, k2.sorted[j])
    <3>1. i \in 1..L /\ k2.sorted[i] = k.sorted[i] /\ \A c \in i..(j - 1) : c \in 1..L
      BY <1>10, <2>2
    <3>2. CASE j \in 1..L
      <4>1. \E c \in i..(j - 1) : k.sorted[c] \in preds(edges, k.sorted[j])
        BY <1>1, <1>10, <2>2, <3>1, <3>2 DEF InOrder
      <4> QED
        BY <1>10, <3>1, <3>2, <4>1
    <3>3. CASE j = L + 1
      <4>1. \E c \in i..L : k.sorted[c] \in preds(edges, cur)
        BY <1>1, <1>7, <1>10, <2>2, <3>1, <3>3
      <4> QED
        BY <1>10, <3>1, <3>3, <4>1
    <3> QED
      BY <1>11, <3>2, <3>3
  <2>3. \A j \in DOMAIN k2.sorted : \A q \in preds(edges, k2.sorted[j]) :
           \E i \in DOMAIN k2.sorted : i < j /\ k2.sorted[i] = q
    <3> SUFFICES ASSUME NEW j \in DOMAIN k2.sorted, NEW q \in preds(edges, k2.sorted[j])
                 PROVE  \E i \in DOMAIN k2.sorted : i < j /\ k2.sorted[i] = q
      OBVIOUS
    <3>1. j \in 1..(L + 1)
      BY <1>10
    <3>2. PICK i \in 1..(L + 1) : i < j /\ k2.sorted[i] = q
      BY <2>1, <3>1
    <3>3. i \in DOMAIN k2.sorted
      BY <1>10
    <3> QED
      BY <3>2, <3>3
  <2>4. \A i, j \in DOMAIN k2.sorted :
           i < j /\ Pri(k2.sorted[j]) > Pri(k2.sorted[i]) =>
           \E c \in i..(j - 1) : k2.sorted[c] \in preds(edges, k2.sorted[j])
    BY <1>10, <2>2
  <2> QED
    BY <2>3, <2>4 DEF InOrder
<1>25. ASSUME NEW p \in P, NEW i \in 1..(L + 1), In(p, k2.ready), Pri(p) > Pri(k2.sorted[i])
       PROVE  \E c \in i..(L + 1) : k2.sorted[c] \in preds(edges, p)
  <2>1. CASE In(p, freed)
    <3>1. L + 1 \in i..(L + 1) /\ cur \in preds(edges, p)
      BY <1>9, <2>1
    <3> QED
      BY <1>10, <3>1
  <2>2. CASE In(p, k.ready)
    <3>1. i \in 1..L
      BY <1>10, <1>11, <1>22, <1>25, <2>2
    <3>2. PICK c \in i..L : k.sorted[c] \in preds(edges, p)
      BY <1>1, <1>10, <1>25, <2>2, <3>1
    <3>3. c \in i..(L + 1) /\ k2.sorted[c] = k.sorted[c]
      BY <1>10, <3>1
    <3> QED
      BY <3>2, <3>3
  <2> QED
    BY <1>8, <1>18, <1>25, <2>1, <2>2
<1>26. Kahn(g, edges, k2)
  <2>1. \A p \in P : k2.inDegree[p] = Cardinality(Waits(edges, k2, p))
    BY <1>16
  <2>2. \A p \in P : \A i \in DOMAIN k2.sorted :
            In(p, k2.ready) /\ Pri(p) > Pri(k2.sorted[i]) =>
            \E c \in i..Len(k2.sorted) : k2.sorted[c] \in preds(edges, p)
    BY <1>10, <1>25
  <2> QED
    BY <1>7, <1>13, <1>18, <1>19, <1>20, <1>24, <2>1, <2>2 DEF Kahn, P
<1> QED
  BY <1>3, <1>10, <1>26

\* The sort starts from the passes without predecessors.
LEMMA SortInitIs ==
    ASSUME NEW g, g.passes \in Seq(Pass), NEW edges \in Seq(Edge(g))
    PROVE  /\ Kahn(g, edges, SortInit(g, edges)) /\ SortInit(g, edges) \in SortState(g)
           /\ Len(SortInit(g, edges).sorted) = 0
<1>1. PICK n \in Nat : n = Len(g.passes) /\ DOMAIN g.passes = 1..n
  BY LenProperties
<1>2. PICK P : P = 1..n
  OBVIOUS
<1>3. PICK D : D = [p \in P |-> Cardinality(preds(edges, p))]
  OBVIOUS
<1>4. PICK id, X : id = [p \in P |-> p] /\ X = {p \in P : D[p] = 0}
  OBVIOUS
<1>5. id \in Seq(P) /\ DOMAIN id = P /\ NoRepeat(id) /\ \A p : In(p, id) <=> p \in P
  BY <1>2, <1>4, SeqOn DEF NoRepeat, In
<1>6. PICK R : R = Kept(id, X)
  OBVIOUS
<1>7. R \in Seq(P) /\ NoRepeat(R) /\ \A p : In(p, R) <=> p \in P /\ D[p] = 0
  <2>1. R \in Seq(P) /\ NoRepeat(R) /\ \A p : In(p, R) <=> In(p, id) /\ p \in X
    BY <1>5, <1>6, KeptOnce
  <2> QED
    BY <1>4, <1>5, <2>1
<1>8. PICK k : k = SortInit(g, edges)
  OBVIOUS
<1>9. k = [ready |-> R, inDegree |-> D, sorted |-> <<>>]
  <2>1. k = [ready    |-> FlattenSeq([i \in DOMAIN [p \in P |-> p] |->
                             IF D[[p \in P |-> p][i]] = 0 THEN <<[p \in P |-> p][i]>> ELSE <<>>]),
             inDegree |-> D, sorted |-> <<>>]
    BY <1>1, <1>2, <1>3, <1>8 DEF SortInit, Keep
  <2>2. [i \in DOMAIN [p \in P |-> p] |->
                             IF D[[p \in P |-> p][i]] = 0 THEN <<[p \in P |-> p][i]>> ELSE <<>>]
          = [i \in P |-> IF id[i] \in X THEN <<id[i]>> ELSE <<>>]
    BY <1>4
  <2>3. R = FlattenSeq([i \in P |-> IF id[i] \in X THEN <<id[i]>> ELSE <<>>])
    BY <1>5, <1>6 DEF Kept
  <2> QED
    BY <2>1, <2>2, <2>3
<1>10. k.ready = R /\ k.inDegree = D /\ k.sorted = <<>> /\ DOMAIN k.sorted = {} /\ Len(k.sorted) = 0
  BY <1>9
<1>11. \A p \in P : IsFiniteSet(preds(edges, p)) /\ Cardinality(preds(edges, p)) \in Nat
                    /\ (Cardinality(preds(edges, p)) = 0 <=> preds(edges, p) = {})
  BY PredsAre, FS_CardinalityType, FS_EmptySet
<1>12. k \in SortState(g)
  <2>1. D \in [P -> Int]
    BY <1>3, <1>11
  <2>2. <<>> \in Seq(P)
    OBVIOUS
  <2> QED
    BY <1>1, <1>2, <1>7, <1>9, <2>1, <2>2 DEF SortState
<1>13. \A p : ~In(p, k.sorted) /\ Waits(edges, k, p) = preds(edges, p)
  BY <1>10 DEF In, Waits
<1>14. \A p \in P : k.inDegree[p] = Cardinality(Waits(edges, k, p))
  BY <1>3, <1>10, <1>13
<1>15. \A p \in P : In(p, k.ready) \/ In(p, k.sorted) <=> Waits(edges, k, p) = {}
  BY <1>3, <1>7, <1>10, <1>11, <1>13
<1>16. InOrder(g, edges, k.sorted)
  BY <1>10 DEF InOrder
<1>17. NoRepeat(k.ready) /\ NoRepeat(k.sorted)
  BY <1>7, <1>10 DEF NoRepeat
<1>18. Kahn(g, edges, k)
  BY <1>1, <1>2, <1>10, <1>12, <1>13, <1>14, <1>15, <1>16, <1>17 DEF Kahn
<1> QED
  BY <1>8, <1>10, <1>12, <1>18

\* After i turns i passes are sorted, or none is ready.
Turns(g, edges, n, k) ==
    /\ k[0] = SortInit(g, edges)
    /\ \A i \in 1..n : k[i] = IF k[i - 1].ready = <<>> THEN k[i - 1] ELSE SortStep(g, edges, k[i - 1])

\* The loop of the sort.
LEMMA SortTurnsAre ==
    ASSUME NEW g, g.passes \in Seq(Pass), NEW edges \in Seq(Edge(g)), NEW n \in Nat, n = Len(g.passes)
    PROVE  Turns(g, edges, n, SortTurns(g, edges))
<1>1. PICK k : k = SortTurns(g, edges)
  OBVIOUS
<1>2. PICK x : x = SortInit(g, edges)
  OBVIOUS
<1>3. k = CHOOSE f : f = [i \in 0..n |-> IF i = 0 THEN SortInit(g, edges)
                                         ELSE IF f[i - 1].ready = <<>> THEN f[i - 1]
                                              ELSE SortStep(g, edges, f[i - 1])]
  BY <1>1 DEF SortTurns
<1> DEFINE next(s) == IF s.ready = <<>> THEN s ELSE SortStep(g, edges, s)
           h == [y \in (1..n) \X SortState(g) |-> next(y[2])]
<1>4. ASSUME NEW s \in SortState(g)
      PROVE  next(s) \in SortState(g)
  BY <1>4, SortStepTypes
<1>5. x \in SortState(g)
  BY <1>2, SortInitIs
<1>6. k = CHOOSE f : f = [i \in 0..n |-> IF i = 0 THEN x ELSE next(f[i - 1])]
  BY <1>2, <1>3
<1> HIDE DEF next
<1>7. /\ h \in [(1..n) \X SortState(g) -> SortState(g)]
      /\ \A i \in 1..n, s \in SortState(g) : h[<<i, s>>] = next(s)
  BY <1>4
<1> HIDE DEF h
<1>8. PICK f : Runs(f, n, SortState(g), x, h)
  BY <1>5, <1>7, Recursion
<1>9. f \in [0..n -> SortState(g)] /\ f[0] = x /\ \A i \in 1..n : f[i] = h[<<i, f[i - 1]>>]
  BY <1>8 DEF Runs
<1>10. \A i \in 1..n : f[i] = next(f[i - 1])
  <2> TAKE i \in 1..n
  <2>1. i - 1 \in 0..n /\ f[i - 1] \in SortState(g)
    BY <1>9
  <2> QED
    BY <1>7, <1>9, <2>1
<1>11. f = [i \in 0..n |-> IF i = 0 THEN x ELSE next(f[i - 1])]
  <2>1. \A i \in 0..n : f[i] = IF i = 0 THEN x ELSE next(f[i - 1])
    <3> TAKE i \in 0..n
    <3>1. i = 0 \/ i \in 1..n
      OBVIOUS
    <3> QED
      BY <1>9, <1>10, <3>1
  <2>2. f = [i \in 0..n |-> f[i]]
    BY <1>9
  <2> QED
    BY <2>1, <2>2
<1>12. k = [i \in 0..n |-> IF i = 0 THEN x ELSE next(k[i - 1])]
  BY <1>6, <1>11
<1>13. k[0] = x /\ \A i \in 1..n : k[i] = next(k[i - 1])
  <2>1. k[0] = x
    <3>1. 0 \in 0..n
      OBVIOUS
    <3> QED
      BY <1>12, <3>1
  <2>2. ASSUME NEW i \in 1..n
        PROVE  k[i] = next(k[i - 1])
    <3>1. i \in 0..n /\ i # 0
      OBVIOUS
    <3> QED
      BY <1>12, <3>1
  <2> QED
    BY <2>1, <2>2
<1> QED
  BY <1>1, <1>2, <1>13 DEF Turns, next

\* A state of the sort that is the last: no pass is ready or all are sorted.
LEMMA SortEnds ==
    ASSUME NEW g, g.passes \in Seq(Pass), NEW edges \in Seq(Edge(g)), NEW n \in Nat, n = Len(g.passes)
    PROVE  \E k : /\ Kahn(g, edges, k) /\ (k.ready # <<>> => Len(k.sorted) = n)
                  /\ Sort(g, edges) = IF Len(k.sorted) = n THEN k.sorted ELSE <<>>
<1>1. PICK t : t = SortTurns(g, edges)
  OBVIOUS
<1>2. Turns(g, edges, n, t)
  BY <1>1, SortTurnsAre
<1> DEFINE M == {i \in 0..n : Kahn(g, edges, t[i]) /\ (t[i].ready # <<>> => Len(t[i].sorted) = i)}
<1>3. 0 \in M
  BY <1>2, SortInitIs DEF Turns
<1>4. ASSUME NEW i \in 1..n, i - 1 \in M
      PROVE  i \in M
  <2>1. PICK k, l : k = t[i - 1] /\ l = t[i]
    OBVIOUS
  <2>2. Kahn(g, edges, k) /\ (k.ready # <<>> => Len(k.sorted) = i - 1)
    BY <1>4, <2>1
  <2>3. l = IF k.ready = <<>> THEN k ELSE SortStep(g, edges, k)
    BY <1>2, <2>1 DEF Turns
  <2>4. CASE k.ready = <<>>
    <3>1. l = k
      BY <2>3, <2>4
    <3>2. Kahn(g, edges, l) /\ ~(l.ready # <<>>)
      BY <2>2, <2>4, <3>1
    <3> QED
      BY <2>1, <3>2
  <2>5. CASE k.ready # <<>>
    <3>1. Kahn(g, edges, l) /\ Len(l.sorted) = Len(k.sorted) + 1
      BY <2>2, <2>3, <2>5, SortStepKeeps
    <3>2. Len(l.sorted) = i
      BY <2>2, <2>5, <3>1
    <3> QED
      BY <2>1, <3>1, <3>2
  <2> QED
    BY <2>4, <2>5
<1>5. n \in M
  <2>1. 0..n \subseteq M
    <3> HIDE DEF M
    <3> QED
      BY <1>3, <1>4, UpTo
  <2> QED
    BY <2>1
<1>6. Sort(g, edges) = IF Len(t[n].sorted) = n THEN t[n].sorted ELSE <<>>
  BY <1>1 DEF Sort
<1>7. PICK k : k = t[n]
  OBVIOUS
<1> QED
  BY <1>5, <1>6, <1>7

\* When edges point from a pass to one declared no earlier, the sort succeeds
\* exactly if there are passes and none has an edge to itself; then it has every
\* pass once, in an order that the edges and the priorities agree with.
LEMMA SortIs ==
    ASSUME NEW g, g.passes \in Seq(Pass), NEW edges \in Seq(Edge(g)),
           \A e \in DOMAIN edges : edges[e].src <= edges[e].dst
    PROVE  /\ Sort(g, edges) # <<>> <=>
                 g.passes # <<>> /\ \A p \in DOMAIN g.passes : p \notin preds(edges, p)
           /\ Sort(g, edges) # <<>> =>
                 /\ Sort(g, edges) \in Seq(DOMAIN g.passes) /\ Len(Sort(g, edges)) = Len(g.passes)
                 /\ NoRepeat(Sort(g, edges)) /\ InOrder(g, edges, Sort(g, edges))
                 /\ \A p \in DOMAIN g.passes : In(p, Sort(g, edges))
<1>1. PICK n \in Nat : n = Len(g.passes) /\ DOMAIN g.passes = 1..n /\ (g.passes = <<>> <=> n = 0)
  BY LenProperties, EmptySeq
<1>2. PICK k : /\ Kahn(g, edges, k) /\ (k.ready # <<>> => Len(k.sorted) = n)
               /\ Sort(g, edges) = IF Len(k.sorted) = n THEN k.sorted ELSE <<>>
  BY <1>1, SortEnds
<1>3. PICK s, z : s = k.sorted /\ z = Sort(g, edges)
  OBVIOUS
<1>4. /\ s \in Seq(1..n) /\ NoRepeat(s) /\ InOrder(g, edges, s)
      /\ k.ready \in Seq(1..n)
      /\ \A p \in 1..n : In(p, k.ready) \/ In(p, s) <=> Waits(edges, k, p) = {}
  BY <1>1, <1>2, <1>3 DEF Kahn, SortState
<1>5. Len(s) \in Nat /\ (Len(s) = n <=> \A p \in 1..n : In(p, s)) /\ (s = <<>> <=> Len(s) = 0)
  BY <1>4, Fills, EmptySeq
<1>6. \A p : preds(edges, p) \subseteq 1..n
  BY <1>1, PredsAre
<1>7. \A p, q : q \in preds(edges, p) => q <= p
  BY PredsAre
<1>8. ASSUME \A p \in 1..n : p \notin preds(edges, p)
      PROVE  Len(s) = n
  <2>1. CASE k.ready # <<>>
    BY <1>2, <1>3, <2>1
  <2>2. CASE k.ready = <<>>
    <3> DEFINE U == {p \in 1..n : ~In(p, s)}
    <3>1. CASE U = {}
      BY <1>5, <3>1
    <3>2. CASE U # {}
      <4>1. U \subseteq Nat
        OBVIOUS
      <4>2. PICK p : p = First(U)
        OBVIOUS
      <4>3. p \in U /\ \A q \in U : p <= q
        <5> HIDE DEF U
        <5> QED
          BY <3>2, <4>1, <4>2, FirstIs
      <4>4. ~In(p, k.ready)
        BY <2>2 DEF In
      <4>5. Waits(edges, k, p) # {}
        BY <1>4, <4>3, <4>4
      <4>6. PICK q \in preds(edges, p) : ~In(q, s)
        BY <1>3, <4>5 DEF Waits
      <4>7. q \in 1..n /\ q <= p /\ q # p /\ p \in 1..n
        BY <1>6, <1>7, <1>8, <4>3, <4>6
      <4>8. p <= q
        BY <4>3, <4>6, <4>7
      <4> QED
        BY <4>7, <4>8
    <3> QED
      BY <3>1, <3>2
  <2> QED
    BY <2>1, <2>2
<1>9. ASSUME Len(s) = n
      PROVE  \A p \in 1..n : p \notin preds(edges, p)
  <2> SUFFICES ASSUME NEW p \in 1..n, p \in preds(edges, p)
               PROVE  FALSE
    OBVIOUS
  <2>1. PICK j \in DOMAIN s : s[j] = p
    BY <1>5, <1>9 DEF In
  <2>2. PICK i \in DOMAIN s : i < j /\ s[i] = p
    BY <1>4, <2>1 DEF InOrder
  <2>3. i = j
    BY <1>4, <2>1, <2>2 DEF NoRepeat
  <2>4. DOMAIN s \subseteq Nat
    BY <1>4, LenProperties
  <2> QED
    BY <2>2, <2>3, <2>4
<1>10. z # <<>> <=> n # 0 /\ \A p \in 1..n : p \notin preds(edges, p)
  BY <1>2, <1>3, <1>5, <1>8, <1>9
<1>11. z # <<>> => z = s /\ Len(s) = n
  BY <1>2, <1>3
<1>12. z # <<>> => /\ z \in Seq(1..n) /\ Len(z) = n /\ NoRepeat(z) /\ InOrder(g, edges, z)
                   /\ \A p \in 1..n : In(p, z)
  BY <1>4, <1>5, <1>11
<1> QED
  BY <1>1, <1>3, <1>10, <1>12

-----------------------------------------------------------------------------
(* 3. Queue classes, and 4. lanes.                                           *)

LaneState(g) == Seq([queueClass : Classes, passes : SUBSET (DOMAIN g.passes)])

\* The passes in D are on the lanes, each on one, which is of its class.
Placed(g, lanes, D) ==
    /\ lanes \in LaneState(g)
    /\ \A l \in DOMAIN lanes : \A p \in lanes[l].passes : queueClass(g.passes[p]) = lanes[l].queueClass
    /\ \A p : (\E l \in DOMAIN lanes : p \in lanes[l].passes) <=> p \in D
    /\ \A l, m \in DOMAIN lanes : lanes[l].passes \cap lanes[m].passes # {} => l = m

\* A pass that is placed is on the lane that laneOf() answers.
LEMMA LaneOfIs ==
    ASSUME NEW g, NEW lanes, NEW D, Placed(g, lanes, D), NEW p \in D
    PROVE  laneOf(lanes, p) \in DOMAIN lanes /\ p \in lanes[laneOf(lanes, p)].passes
           /\ lanes[laneOf(lanes, p)].queueClass = queueClass(g.passes[p])
<1>1. \E l \in DOMAIN lanes : p \in lanes[l].passes
  BY DEF Placed
<1>2. laneOf(lanes, p) \in DOMAIN lanes /\ p \in lanes[laneOf(lanes, p)].passes
  BY <1>1 DEF laneOf
<1> QED
  BY <1>2 DEF Placed

\* p is the next pass to be put on a lane: its predecessors are on theirs.
NextOnLane(g, edges, D, p) ==
    p \in DOMAIN g.passes /\ p \notin D /\ preds(edges, p) \subseteq D /\ D \subseteq Nat

\* The next pass gets a lane of its class or a new one.
LEMMA ChooseLaneIs ==
    ASSUME NEW g, NEW edges, NEW lanes, NEW D, Placed(g, lanes, D), NEW p,
           NextOnLane(g, edges, D, p), NEW c, c = chooseLane(g, edges, lanes, p)
    PROVE  c \in DOMAIN lanes => lanes[c].queueClass = queueClass(g.passes[p])
<1>1. lanes \in LaneState(g) /\ Len(lanes) \in Nat /\ DOMAIN lanes = 1..Len(lanes)
  BY LenProperties DEF Placed, LaneState
<1>2. PICK qc : qc = queueClass(g.passes[p])
  OBVIOUS
<1>3. PICK C : C = {i \in DOMAIN lanes : lanes[i].queueClass = qc}
  OBVIOUS
<1>4. PICK B : B = {q \in preds(edges, p) : queueClass(g.passes[q]) = qc}
  OBVIOUS
<1>5. PICK F : F = {i \in C : ~hasConflictOnLane(edges, lanes, p, i)}
  OBVIOUS
<1>6. c = IF g.passes[p].exclusiveLane \/ C = {} THEN Len(lanes) + 1
          ELSE IF lanes[First(C)].passes \cap preds(edges, p) # {} THEN First(C)
          ELSE IF B # {} THEN laneOf(lanes, First(B))
          ELSE IF F # {} THEN First(F)
          ELSE Len(lanes) + 1
  BY <1>2, <1>3, <1>4, <1>5 DEF chooseLane
<1>7. C # {} => First(C) \in C
  <2>1. C \subseteq Nat
    BY <1>1, <1>3
  <2> QED
    BY <2>1, FirstIs
<1>8. F # {} => First(F) \in C
  <2>1. F \subseteq Nat
    BY <1>1, <1>3, <1>5
  <2>2. F # {} => First(F) \in F
    BY <2>1, FirstIs
  <2> QED
    BY <1>5, <2>2
<1>9. B # {} => laneOf(lanes, First(B)) \in C
  <2> SUFFICES ASSUME B # {}
               PROVE  laneOf(lanes, First(B)) \in C
    OBVIOUS
  <2>1. B \subseteq D /\ B \subseteq Nat
    BY <1>4 DEF NextOnLane
  <2>2. PICK q : q = First(B)
    OBVIOUS
  <2>3. q \in B
    BY <2>1, <2>2, FirstIs
  <2>4. q \in D /\ queueClass(g.passes[q]) = qc
    BY <1>4, <2>1, <2>3
  <2>5. laneOf(lanes, q) \in DOMAIN lanes /\ lanes[laneOf(lanes, q)].queueClass = queueClass(g.passes[q])
    BY <2>4, LaneOfIs
  <2> QED
    BY <1>3, <2>2, <2>4, <2>5
<1>10. c \in C \/ c = Len(lanes) + 1
  BY <1>6, <1>7, <1>8, <1>9
<1>11. Len(lanes) + 1 \notin DOMAIN lanes
  BY <1>1
<1> QED
  BY <1>2, <1>3, <1>10, <1>11

\* Lanes stay lanes.
LEMMA PutOnLaneTypes ==
    ASSUME NEW g, NEW edges, NEW lanes \in LaneState(g), NEW p \in DOMAIN g.passes
    PROVE  putOnLane(g, edges, lanes, p) \in LaneState(g)
<1>1. PICK P, T : P = DOMAIN g.passes /\ T = [queueClass : Classes, passes : SUBSET P]
  OBVIOUS
<1>2. lanes \in Seq(T) /\ LaneState(g) = Seq(T)
  BY <1>1 DEF LaneState
<1>3. PICK n \in Nat : n = Len(lanes) /\ DOMAIN lanes = 1..n
  BY <1>2, LenProperties
<1>4. PICK c : c = chooseLane(g, edges, lanes, p)
  OBVIOUS
<1>5. putOnLane(g, edges, lanes, p) =
         IF c \in DOMAIN lanes THEN [lanes EXCEPT ![c].passes = @ \cup {p}]
         ELSE Append(lanes, [queueClass |-> queueClass(g.passes[p]), passes |-> {p}])
  BY <1>4 DEF putOnLane
<1>6. CASE c \in DOMAIN lanes
  <2>1. PICK r : r = [lanes[c] EXCEPT !.passes = @ \cup {p}]
    OBVIOUS
  <2>2. lanes[c] \in T
    BY <1>2, <1>3, <1>6, ElementOfSeq
  <2>3. r \in T
    BY <1>1, <2>1, <2>2
  <2>4. putOnLane(g, edges, lanes, p) = [lanes EXCEPT ![c] = r]
    BY <1>5, <1>6, <2>1
  <2> QED
    BY <1>2, <1>3, <1>6, <2>3, <2>4, ExceptSeq
<1>7. CASE c \notin DOMAIN lanes
  <2>1. [queueClass |-> queueClass(g.passes[p]), passes |-> {p}] \in T
    <3>1. queueClass(g.passes[p]) \in Classes
      BY DEF queueClass, Classes
    <3> QED
      BY <1>1, <3>1
  <2> QED
    BY <1>2, <1>5, <1>7, <2>1, AppendProperties
<1> QED
  BY <1>6, <1>7

\* A pass is put on one lane and the others stay.
LEMMA PutOnLaneIs ==
    ASSUME NEW g, NEW edges, NEW lanes, NEW D, Placed(g, lanes, D), NEW p,
           NextOnLane(g, edges, D, p)
    PROVE  Placed(g, putOnLane(g, edges, lanes, p), D \cup {p})
<1>1. PICK c : c = chooseLane(g, edges, lanes, p)
  OBVIOUS
<1>2. PICK m : m = putOnLane(g, edges, lanes, p)
  OBVIOUS
<1>3. /\ lanes \in LaneState(g)
      /\ \A l \in DOMAIN lanes : \A q \in lanes[l].passes : queueClass(g.passes[q]) = lanes[l].queueClass
      /\ \A q : (\E l \in DOMAIN lanes : q \in lanes[l].passes) <=> q \in D
      /\ \A l, k \in DOMAIN lanes : lanes[l].passes \cap lanes[k].passes # {} => l = k
  BY DEF Placed
<1>4. PICK n \in Nat : n = Len(lanes) /\ DOMAIN lanes = 1..n
  BY <1>3, LenProperties DEF LaneState
<1>5. m \in LaneState(g)
  BY <1>2, <1>3, PutOnLaneTypes DEF NextOnLane
<1>6. m = IF c \in DOMAIN lanes THEN [lanes EXCEPT ![c].passes = @ \cup {p}]
         ELSE Append(lanes, [queueClass |-> queueClass(g.passes[p]), passes |-> {p}])
  BY <1>1, <1>2 DEF putOnLane
<1>7. \A l \in DOMAIN lanes : p \notin lanes[l].passes
  BY <1>3 DEF NextOnLane
\* Lane d is the one that p is on; it was there before, or had nothing.
<1>8. \E d \in DOMAIN m :
        /\ DOMAIN m = DOMAIN lanes \cup {d}
        /\ m[d].queueClass = queueClass(g.passes[p])
        /\ m[d].passes = (IF d \in DOMAIN lanes THEN lanes[d].passes ELSE {}) \cup {p}
        /\ d \in DOMAIN lanes => m[d].queueClass = lanes[d].queueClass
        /\ \A l \in DOMAIN lanes : l # d => m[l] = lanes[l]
  <2>1. CASE c \in DOMAIN lanes
    <3>1. lanes[c].queueClass = queueClass(g.passes[p])
      BY <1>1, <2>1, ChooseLaneIs
    <3>2. lanes[c] \in [queueClass : Classes, passes : SUBSET (DOMAIN g.passes)]
      BY <1>3, <1>4, <2>1, ElementOfSeq DEF LaneState
    <3>3. PICK r : r = [lanes[c] EXCEPT !.passes = @ \cup {p}]
      OBVIOUS
    <3>4. r.queueClass = lanes[c].queueClass /\ r.passes = lanes[c].passes \cup {p}
      BY <3>2, <3>3
    <3>5. m = [lanes EXCEPT ![c] = r]
      BY <1>6, <2>1, <3>3
    <3>6. DOMAIN m = DOMAIN lanes /\ m[c] = r /\ \A l \in DOMAIN lanes : l # c => m[l] = lanes[l]
      BY <2>1, <3>5
    <3> QED
      BY <2>1, <3>1, <3>4, <3>6
  <2>2. CASE c \notin DOMAIN lanes
    <3>1. PICK r : r = [queueClass |-> queueClass(g.passes[p]), passes |-> {p}]
      OBVIOUS
    <3>2. PICK T : T = [queueClass : Classes, passes : SUBSET (DOMAIN g.passes)]
      OBVIOUS
    <3>3. r \in T
      <4>1. queueClass(g.passes[p]) \in Classes
        BY DEF queueClass, Classes
      <4>2. p \in DOMAIN g.passes
        BY DEF NextOnLane
      <4> QED
        BY <3>1, <3>2, <4>1, <4>2
    <3>4. lanes \in Seq(T) /\ m = Append(lanes, r)
      BY <1>3, <1>6, <2>2, <3>1, <3>2 DEF LaneState
    <3>5. m \in Seq(T) /\ Len(m) = n + 1 /\ m[n + 1] = r /\ \A l \in 1..n : m[l] = lanes[l]
      BY <1>4, <3>3, <3>4, AppendProperties
    <3>6. DOMAIN m = 1..(n + 1)
      BY <3>5, LenProperties
    <3>7. n + 1 \in 1..(n + 1) /\ n + 1 \notin 1..n /\ 1..(n + 1) = (1..n) \cup {n + 1}
      OBVIOUS
    <3>8. m[n + 1].queueClass = queueClass(g.passes[p]) /\ m[n + 1].passes = {} \cup {p}
      BY <3>1, <3>5
    <3> QED
      BY <1>4, <3>5, <3>6, <3>7, <3>8
  <2> QED
    BY <2>1, <2>2
<1>9. PICK d \in DOMAIN m :
        /\ DOMAIN m = DOMAIN lanes \cup {d}
        /\ m[d].queueClass = queueClass(g.passes[p])
        /\ m[d].passes = (IF d \in DOMAIN lanes THEN lanes[d].passes ELSE {}) \cup {p}
        /\ d \in DOMAIN lanes => m[d].queueClass = lanes[d].queueClass
        /\ \A l \in DOMAIN lanes : l # d => m[l] = lanes[l]
  BY <1>8
<1>10. ASSUME NEW l \in DOMAIN m, NEW q \in m[l].passes
       PROVE  queueClass(g.passes[q]) = m[l].queueClass
  <2>1. CASE l # d
    BY <1>3, <1>9, <2>1
  <2>2. CASE l = d /\ q # p
    <3>1. d \in DOMAIN lanes /\ q \in lanes[d].passes
      BY <1>9, <1>10, <2>2
    <3> QED
      BY <1>3, <1>9, <2>2, <3>1
  <2>3. CASE l = d /\ q = p
    BY <1>9, <2>3
  <2> QED
    BY <2>1, <2>2, <2>3
<1>11. ASSUME NEW q
       PROVE  (\E l \in DOMAIN m : q \in m[l].passes) <=> q \in D \cup {p}
  <2>1. ASSUME NEW l \in DOMAIN m, q \in m[l].passes
        PROVE  q \in D \cup {p}
    BY <1>3, <1>9, <2>1
  <2>2. ASSUME q \in D
        PROVE  \E l \in DOMAIN m : q \in m[l].passes
    <3>1. PICK l \in DOMAIN lanes : q \in lanes[l].passes
      BY <1>3, <2>2
    <3> QED
      BY <1>9, <3>1
  <2> QED
    BY <1>9, <2>1, <2>2
<1>12. ASSUME NEW l \in DOMAIN m, NEW k \in DOMAIN m, NEW q, q \in m[l].passes, q \in m[k].passes
       PROVE  l = k
  <2>1. CASE q = p
    BY <1>7, <1>9, <1>12, <2>1
  <2>2. CASE q # p
    <3>1. l \in DOMAIN lanes /\ q \in lanes[l].passes /\ k \in DOMAIN lanes /\ q \in lanes[k].passes
      BY <1>9, <1>12, <2>2
    <3> QED
      BY <1>3, <3>1
  <2> QED
    BY <2>1, <2>2
<1>13. Placed(g, m, D \cup {p})
  <2>1. \A l, k \in DOMAIN m : m[l].passes \cap m[k].passes # {} => l = k
    BY <1>12
  <2> QED
    BY <1>5, <1>10, <1>11, <2>1 DEF Placed
<1> QED
  BY <1>2, <1>13

\* Every pass of an order that the edges agree with is put on one lane of its class.
LEMMA AssignLanesIs ==
    ASSUME NEW g, g.passes \in Seq(Pass), NEW edges,
           NEW s \in Seq(DOMAIN g.passes), NoRepeat(s), InOrder(g, edges, s)
    PROVE  Placed(g, assignLanes(g, edges, s), {p \in DOMAIN g.passes : In(p, s)})
<1>1. PICK n \in Nat : n = Len(s) /\ DOMAIN s = 1..n
  BY LenProperties
<1>2. PICK P : P = DOMAIN g.passes
  OBVIOUS
<1>3. \A i \in 1..n : s[i] \in P
  BY <1>1, <1>2, ElementOfSeq
<1>4. P \subseteq Nat
  BY <1>2, LenProperties
<1>5. PICK f : f = laneStates(g, edges, s)
  OBVIOUS
<1> DEFINE h == [y \in (1..n) \X LaneState(g) |-> putOnLane(g, edges, y[2], s[y[1]])]
<1>6. f = CHOOSE u : u = [i \in 0..n |-> IF i = 0 THEN <<>> ELSE putOnLane(g, edges, u[i - 1], s[i])]
  BY <1>1, <1>5 DEF laneStates
<1>7. \A i \in 1..n, l \in LaneState(g) : putOnLane(g, edges, l, s[i]) \in LaneState(g)
  BY <1>2, <1>3, PutOnLaneTypes
<1>8. /\ h \in [(1..n) \X LaneState(g) -> LaneState(g)]
      /\ \A i \in 1..n, l \in LaneState(g) : h[<<i, l>>] = putOnLane(g, edges, l, s[i])
  BY <1>7
<1>9. PICK z : z = <<>>
  OBVIOUS
<1>10. z \in LaneState(g) /\ DOMAIN z = {}
  BY <1>9 DEF LaneState
<1> HIDE DEF h
<1>11. PICK u : Runs(u, n, LaneState(g), z, h)
  BY <1>8, <1>10, Recursion
<1>12. u \in [0..n -> LaneState(g)] /\ u[0] = z /\ \A i \in 1..n : u[i] = h[<<i, u[i - 1]>>]
  BY <1>11 DEF Runs
<1>13. \A i \in 1..n : u[i] = putOnLane(g, edges, u[i - 1], s[i])
  <2> TAKE i \in 1..n
  <2>1. i - 1 \in 0..n /\ u[i - 1] \in LaneState(g)
    BY <1>12
  <2> QED
    BY <1>8, <1>12, <2>1
<1>14. u = [i \in 0..n |-> IF i = 0 THEN <<>> ELSE putOnLane(g, edges, u[i - 1], s[i])]
  <2>1. \A i \in 0..n : u[i] = IF i = 0 THEN <<>> ELSE putOnLane(g, edges, u[i - 1], s[i])
    <3> TAKE i \in 0..n
    <3>1. i = 0 \/ i \in 1..n
      OBVIOUS
    <3> QED
      BY <1>9, <1>12, <1>13, <3>1
  <2>2. u = [i \in 0..n |-> u[i]]
    BY <1>12
  <2> QED
    BY <2>1, <2>2
<1>15. f = [i \in 0..n |-> IF i = 0 THEN <<>> ELSE putOnLane(g, edges, f[i - 1], s[i])]
  BY <1>6, <1>14
<1>16. f[0] = z /\ \A i \in 1..n : f[i] = putOnLane(g, edges, f[i - 1], s[i])
  <2>1. f[0] = z
    <3>1. 0 \in 0..n
      OBVIOUS
    <3> QED
      BY <1>9, <1>15, <3>1
  <2>2. ASSUME NEW i \in 1..n
        PROVE  f[i] = putOnLane(g, edges, f[i - 1], s[i])
    <3>1. i \in 0..n /\ i # 0
      OBVIOUS
    <3> QED
      BY <1>15, <3>1
  <2> QED
    BY <2>1, <2>2
<1> DEFINE D(i) == {p \in P : \E j \in 1..i : s[j] = p}
           M == {i \in 0..n : Placed(g, f[i], D(i))}
<1>17. 0 \in M
  <2>1. D(0) = {}
    OBVIOUS
  <2>2. Placed(g, z, {})
    BY <1>10 DEF Placed
  <2>3. Placed(g, f[0], D(0))
    BY <1>16, <2>1, <2>2
  <2> HIDE DEF D
  <2> QED
    BY <2>3
<1>18. ASSUME NEW i \in 1..n, i - 1 \in M
       PROVE  i \in M
  <2>1. PICK l, p, B : l = f[i - 1] /\ p = s[i] /\ B = D(i - 1)
    OBVIOUS
  <2>2. Placed(g, l, B) /\ f[i] = putOnLane(g, edges, l, p) /\ p \in P
    BY <1>3, <1>16, <1>18, <2>1
  <2>3. \A j \in 1..i : j = i \/ j \in 1..(i - 1)
    OBVIOUS
  <2>4. \A j \in 1..(i - 1) : j \in 1..n /\ j \in 1..i /\ j # i
    OBVIOUS
  <2>5. D(i) = B \cup {p}
    BY <2>1, <2>2, <2>3, <2>4
  <2>6. p \notin B
    BY <1>1, <2>1, <2>4 DEF NoRepeat
  <2>7. preds(edges, p) \subseteq B
    <3> SUFFICES ASSUME NEW q \in preds(edges, p)
                 PROVE  q \in B
      OBVIOUS
    <3>1. PICK j \in 1..n : j < i /\ s[j] = q
      BY <1>1, <2>1 DEF InOrder
    <3>2. j \in 1..(i - 1)
      BY <3>1
    <3> QED
      BY <1>3, <2>1, <3>1, <3>2
  <2>8. B \subseteq Nat
    BY <1>4, <2>1
  <2>9. NextOnLane(g, edges, B, p)
    BY <1>2, <2>2, <2>6, <2>7, <2>8 DEF NextOnLane
  <2>10. Placed(g, f[i], B \cup {p})
    BY <2>2, <2>9, PutOnLaneIs
  <2> HIDE DEF D
  <2>11. Placed(g, f[i], D(i))
    BY <2>5, <2>10
  <2> QED
    BY <2>11
<1>19. 0..n \subseteq M
  <2> HIDE DEF M
  <2> QED
    BY <1>17, <1>18, UpTo
<1>20. Placed(g, f[n], D(n))
  <2> HIDE DEF D
  <2>1. n \in M
    <3> HIDE DEF M
    <3> QED
      BY <1>19
  <2> QED
    BY <2>1
<1>21. D(n) = {p \in DOMAIN g.passes : In(p, s)}
  BY <1>1, <1>2 DEF In
<1>22. assignLanes(g, edges, s) = f[n]
  BY <1>1, <1>5 DEF assignLanes
<1> HIDE DEF D
<1> QED
  BY <1>20, <1>21, <1>22

-----------------------------------------------------------------------------
(* 5. The compiled graph.                                                    *)

\* What compile() returns when the sort gives an order.
LEMMA CompileIs ==
    ASSUME NEW g, NEW E, E = rawEdges(g), NEW s, s = Sort(g, E), NEW ls, ls = assignLanes(g, E, s)
    PROVE  /\ valid(compile(g)) <=> s # <<>>
           /\ s # <<>> =>
                 /\ compile(g).sorted = s /\ compile(g).edges = E /\ compile(g).lanes = ls
                 /\ compile(g).timelines = [l \in DOMAIN ls |-> Kept(s, ls[l].passes)]
                 /\ compile(g).cross = {e \in DOMAIN E : crossLane(ls, E[e])}
<1>1. PICK t : t = [l \in DOMAIN ls |-> Kept(s, ls[l].passes)]
  OBVIOUS
<1>2. t = [l \in DOMAIN ls |->
              FlattenSeq([i \in DOMAIN s |-> IF s[i] \in ls[l].passes THEN <<s[i]>> ELSE <<>>])]
  BY <1>1 DEF Kept
<1>3. PICK x : x = {e \in DOMAIN E : crossLane(ls, E[e])}
  OBVIOUS
<1>4. PICK r : r = [sorted |-> s, edges |-> E, lanes |-> ls,
                    timelines |-> [l \in DOMAIN ls |->
                        FlattenSeq([i \in DOMAIN s |-> IF s[i] \in ls[l].passes THEN <<s[i]>> ELSE <<>>])],
                    cross |-> {e \in DOMAIN E : crossLane(ls, E[e])}]
  OBVIOUS
<1>5. /\ compile(g) = IF s = <<>> THEN NoGraph ELSE r
      /\ r.sorted = s /\ r.edges = E /\ r.lanes = ls /\ r.timelines = t /\ r.cross = x
  <2>1. compile(g) = IF s = <<>> THEN NoGraph ELSE r
    BY <1>4 DEF compile, Keep
  <2>2. r.sorted = s /\ r.edges = E /\ r.lanes = ls
    BY <1>4
  <2>3. r.timelines = t
    BY <1>2, <1>4
  <2>4. r.cross = x
    BY <1>3, <1>4
  <2> QED
    BY <2>1, <2>2, <2>3, <2>4
<1>6. NoGraph.sorted = <<>>
  BY DEF NoGraph
<1>7. compile(g).sorted = s
  BY <1>5, <1>6
<1>8. s # <<>> => compile(g).edges = E /\ compile(g).lanes = ls
                  /\ compile(g).timelines = t /\ compile(g).cross = x
  BY <1>5
<1> QED
  BY <1>1, <1>3, <1>7, <1>8 DEF valid

\* The edges and the order of a graph that a client can build.
LEMMA EdgesAndOrder ==
    ASSUME NEW g, Built(g), NEW E, E = rawEdges(g), NEW s, s = Sort(g, E)
    PROVE  /\ E \in Seq(Edge(g))
           /\ \A p, q \in DOMAIN g.passes : p <= q /\ Conflict(g, p, q) => p \in preds(E, q)
           /\ \A p, q : p \in preds(E, q) =>
                 p \in DOMAIN g.passes /\ q \in DOMAIN g.passes /\ p <= q /\ Conflict(g, p, q)
           /\ s # <<>> <=> g.passes # <<>> /\ \A p \in DOMAIN g.passes : ~Conflict(g, p, p)
           /\ s # <<>> => /\ s \in Seq(DOMAIN g.passes) /\ Len(s) = Len(g.passes)
                          /\ NoRepeat(s) /\ InOrder(g, E, s)
                          /\ \A p \in DOMAIN g.passes : In(p, s)
<1>1. g.passes \in Seq(Pass) /\ DOMAIN g.passes = 1..Len(g.passes) /\ Len(g.passes) \in Nat
  BY BuiltFacts
<1>2. /\ E \in Seq(Edge(g))
      /\ \A e \in DOMAIN E : E[e].src <= E[e].dst /\ Conflict(g, E[e].src, E[e].dst)
      /\ \A p, q \in DOMAIN g.passes : p <= q /\ Conflict(g, p, q) =>
            \E e \in DOMAIN E : E[e].src = p /\ E[e].dst = q
  BY RawEdgesAre
<1>3. \A p, q : p \in preds(E, q) <=> \E e \in DOMAIN E : E[e].src = p /\ E[e].dst = q
  BY <1>1, <1>2, PredsAre
<1>4. \A e \in DOMAIN E : E[e].src \in DOMAIN g.passes /\ E[e].dst \in DOMAIN g.passes
  <2>1. \A e \in DOMAIN E : E[e] \in Edge(g)
    BY <1>2, ElementOfSeq, LenProperties
  <2> QED
    BY <2>1 DEF Edge
<1>5. \A p, q \in DOMAIN g.passes : p <= q /\ Conflict(g, p, q) => p \in preds(E, q)
  BY <1>2, <1>3
<1>6. ASSUME NEW p, NEW q, p \in preds(E, q)
      PROVE  p \in DOMAIN g.passes /\ q \in DOMAIN g.passes /\ p <= q /\ Conflict(g, p, q)
  BY <1>2, <1>3, <1>4, <1>6
<1>7. \A p \in DOMAIN g.passes : p \in preds(E, p) <=> Conflict(g, p, p)
  BY <1>1, <1>5, <1>6
<1>8. \A e \in DOMAIN E : E[e].src <= E[e].dst
  BY <1>2
<1>9. /\ s # <<>> <=> g.passes # <<>> /\ \A p \in DOMAIN g.passes : p \notin preds(E, p)
      /\ s # <<>> => /\ s \in Seq(DOMAIN g.passes) /\ Len(s) = Len(g.passes)
                     /\ NoRepeat(s) /\ InOrder(g, E, s)
                     /\ \A p \in DOMAIN g.passes : In(p, s)
  BY <1>1, <1>2, <1>8, SortIs
<1>10. s # <<>> <=> g.passes # <<>> /\ \A p \in DOMAIN g.passes : ~Conflict(g, p, p)
  BY <1>7, <1>9
<1> QED
  BY <1>2, <1>5, <1>6, <1>9, <1>10

\* compile() refuses a graph exactly when it is empty or a pass is in conflict
\* with itself.
LEMMA CompileValid ==
    ASSUME NEW g, Built(g)
    PROVE  valid(compile(g)) <=> DOMAIN g.passes # {} /\ \A p \in DOMAIN g.passes : ~Conflict(g, p, p)
<1>1. PICK E, s : E = rawEdges(g) /\ s = Sort(g, E)
  OBVIOUS
<1>2. valid(compile(g)) <=> s # <<>>
  BY <1>1, CompileIs
<1>3. s # <<>> <=> g.passes # <<>> /\ \A p \in DOMAIN g.passes : ~Conflict(g, p, p)
  BY <1>1, EdgesAndOrder
<1>4. g.passes # <<>> <=> DOMAIN g.passes # {}
  BY BuiltFacts, EmptySeq, LenProperties
<1> QED
  BY <1>2, <1>3, <1>4

\* What execution needs of a compiled graph: each pass is sorted once, every edge
\* points forwards, and passes that conflict are joined by one.
Ordered(g, c) ==
    /\ c.sorted \in [1..Len(g.passes) -> DOMAIN g.passes]
    /\ \A i, j \in DOMAIN c.sorted : c.sorted[i] = c.sorted[j] => i = j
    /\ c.edges \in Seq(Edge(g))
    /\ \A e \in DOMAIN c.edges : \E i, j \in DOMAIN c.sorted :
          i < j /\ c.sorted[i] = c.edges[e].src /\ c.sorted[j] = c.edges[e].dst
    /\ \A p, q \in DOMAIN g.passes : p < q /\ Conflict(g, p, q) =>
          \E e \in DOMAIN c.edges : c.edges[e].src = p /\ c.edges[e].dst = q

\* compile() returns what execution needs.
LEMMA CompileOrders ==
    ASSUME NEW g, Built(g), valid(compile(g))
    PROVE  Ordered(g, compile(g))
<1>1. PICK E, s, c : E = rawEdges(g) /\ s = Sort(g, E) /\ c = compile(g)
  OBVIOUS
<1>2. c.sorted = s /\ c.edges = E /\ s # <<>>
  BY <1>1, CompileIs
<1>3. /\ E \in Seq(Edge(g))
      /\ \A p, q \in DOMAIN g.passes : p <= q /\ Conflict(g, p, q) => p \in preds(E, q)
      /\ s \in Seq(DOMAIN g.passes) /\ Len(s) = Len(g.passes) /\ NoRepeat(s) /\ InOrder(g, E, s)
      /\ \A p \in DOMAIN g.passes : In(p, s)
  BY <1>1, <1>2, EdgesAndOrder
<1>4. g.passes \in Seq(Pass) /\ DOMAIN g.passes = 1..Len(g.passes) /\ Len(g.passes) \in Nat
  BY BuiltFacts
<1>5. \A p, q : p \in preds(E, q) <=> \E e \in DOMAIN E : E[e].src = p /\ E[e].dst = q
  BY <1>3, <1>4, PredsAre
<1>6. s \in [1..Len(g.passes) -> DOMAIN g.passes]
  BY <1>3, LenProperties
<1>7. \A i, j \in DOMAIN s : s[i] = s[j] => i = j
  BY <1>3 DEF NoRepeat
<1>8. ASSUME NEW e \in DOMAIN E
      PROVE  \E i, j \in DOMAIN s : i < j /\ s[i] = E[e].src /\ s[j] = E[e].dst
  <2>1. E[e].src \in preds(E, E[e].dst)
    BY <1>5
  <2>2. E[e] \in Edge(g)
    BY <1>3, ElementOfSeq, LenProperties
  <2>3. PICK j \in DOMAIN s : s[j] = E[e].dst
    BY <1>3, <2>2 DEF Edge, In
  <2> QED
    BY <1>3, <2>1, <2>3 DEF InOrder
<1>9. \A p, q \in DOMAIN g.passes : p < q /\ Conflict(g, p, q) =>
         \E e \in DOMAIN E : E[e].src = p /\ E[e].dst = q
  <2> SUFFICES ASSUME NEW p \in DOMAIN g.passes, NEW q \in DOMAIN g.passes, p < q, Conflict(g, p, q)
               PROVE  \E e \in DOMAIN E : E[e].src = p /\ E[e].dst = q
    OBVIOUS
  <2>1. p <= q
    BY <1>4
  <2>2. p \in preds(E, q)
    BY <1>3, <2>1
  <2> QED
    BY <1>5, <2>2
<1>10. Ordered(g, c)
  BY <1>2, <1>3, <1>6, <1>7, <1>8, <1>9 DEF Ordered
<1> QED
  BY <1>1, <1>10

\* A pass comes after one of lower priority only with a predecessor in between.
LEMMA CompilePriorities ==
    ASSUME NEW g, Built(g), valid(compile(g)), NEW c, c = compile(g)
    PROVE  \A i, j \in DOMAIN c.sorted :
              i < j /\ g.passes[c.sorted[j]].priority > g.passes[c.sorted[i]].priority =>
              \E k \in i..(j - 1) : c.sorted[k] \in preds(c.edges, c.sorted[j])
<1>1. PICK E, s : E = rawEdges(g) /\ s = Sort(g, E)
  OBVIOUS
<1>2. c.sorted = s /\ c.edges = E /\ s # <<>>
  BY <1>1, CompileIs
<1>3. InOrder(g, E, s)
  BY <1>1, <1>2, EdgesAndOrder
<1> QED
  BY <1>2, <1>3 DEF InOrder

Position(s, p) == CHOOSE i \in DOMAIN s : s[i] = p

\* The timeline of a lane keeps the order of the passes.
LEMMA TimelineKeepsOrder ==
    ASSUME NEW T, NEW s \in Seq(T), NoRepeat(s), NEW X, NEW K, K = Kept(s, X),
           NEW p, NEW q, In(p, s), In(q, s), p \in X, q \in X
    PROVE  In(p, K) /\ (Position(K, p) < Position(K, q) <=> Position(s, p) < Position(s, q))
<1>1. PICK at : Picks(K, s, X, at)
  BY KeptIs
<1>2. K \in Seq(T) /\ NoRepeat(K)
  BY KeptOnce
<1>3. PICK m \in Nat, n \in Nat : DOMAIN K = 1..m /\ DOMAIN s = 1..n
  BY <1>2, LenProperties
<1>4. PICK i \in 1..n, j \in 1..n : s[i] = p /\ s[j] = q
  BY <1>3 DEF In
<1>5. PICK k \in 1..m, l \in 1..m : at[k] = i /\ at[l] = j
  BY <1>1, <1>3, <1>4 DEF Picks
<1>6. K[k] = p /\ K[l] = q
  BY <1>1, <1>3, <1>4, <1>5 DEF Picks
<1>7. Position(s, p) = i /\ Position(s, q) = j
  BY <1>3, <1>4 DEF NoRepeat, Position
<1>8. Position(K, p) = k /\ Position(K, q) = l
  BY <1>2, <1>3, <1>6 DEF NoRepeat, Position
<1>9. (k < l => i < j) /\ (l < k => j < i) /\ (k = l => i = j)
  BY <1>1, <1>3, <1>5 DEF Picks
<1> QED
  BY <1>3, <1>6, <1>7, <1>8, <1>9 DEF In

\* A backend that follows the timelines and the cross-lane edges of c honours
\* every conflict, without waiting in a circle.
LanesHonour(g, c) ==
    /\ \A p, q \in DOMAIN g.passes : p < q /\ Conflict(g, p, q) =>
          IF laneOf(c.lanes, p) = laneOf(c.lanes, q)
          THEN Position(c.timelines[laneOf(c.lanes, p)], p) < Position(c.timelines[laneOf(c.lanes, p)], q)
          ELSE \E i \in c.cross : c.edges[i].src = p /\ c.edges[i].dst = q
    /\ \A l \in DOMAIN c.timelines : \A p, q \in ToSet(c.timelines[l]) :
          Position(c.timelines[l], p) < Position(c.timelines[l], q) =>
          Position(c.sorted, p) < Position(c.sorted, q)
    /\ \A l \in DOMAIN c.lanes : \A p \in c.lanes[l].passes :
          queueClass(g.passes[p]) = c.lanes[l].queueClass
    /\ \A e \in DOMAIN c.edges :
          Position(c.sorted, c.edges[e].src) < Position(c.sorted, c.edges[e].dst)

\* compile() returns lanes that are enough.
LEMMA CompileLanes ==
    ASSUME NEW g, Built(g), valid(compile(g)), NEW c, c = compile(g)
    PROVE  LanesHonour(g, c)
<1>1. PICK E, s, ls : E = rawEdges(g) /\ s = Sort(g, E) /\ ls = assignLanes(g, E, s)
  OBVIOUS
<1>2. /\ s # <<>> /\ c.sorted = s /\ c.edges = E /\ c.lanes = ls
      /\ c.timelines = [l \in DOMAIN ls |-> Kept(s, ls[l].passes)]
      /\ c.cross = {e \in DOMAIN E : crossLane(ls, E[e])}
  BY <1>1, CompileIs
<1>3. PICK P : P = DOMAIN g.passes
  OBVIOUS
<1>4. /\ E \in Seq(Edge(g)) /\ s \in Seq(P) /\ NoRepeat(s) /\ InOrder(g, E, s)
      /\ \A p \in P : In(p, s)
      /\ \A p, q \in P : p <= q /\ Conflict(g, p, q) => p \in preds(E, q)
  BY <1>1, <1>2, <1>3, EdgesAndOrder
<1>5. g.passes \in Seq(Pass) /\ P \subseteq Nat
  BY <1>3, BuiltFacts
<1>6. \A p, q : p \in preds(E, q) <=> \E e \in DOMAIN E : E[e].src = p /\ E[e].dst = q
  BY <1>4, <1>5, PredsAre
<1>7. Placed(g, ls, P)
  <2>1. {p \in DOMAIN g.passes : In(p, s)} = P
    BY <1>3, <1>4
  <2> QED
    BY <1>1, <1>3, <1>4, <1>5, <2>1, AssignLanesIs
<1>8. ASSUME NEW q \in P, NEW p \in preds(E, q)
      PROVE  Position(s, p) < Position(s, q)
  <2>1. PICK j \in DOMAIN s : s[j] = q
    BY <1>4 DEF In
  <2>2. PICK i \in DOMAIN s : i < j /\ s[i] = p
    BY <1>4, <2>1 DEF InOrder
  <2> QED
    BY <1>4, <2>1, <2>2 DEF NoRepeat, Position
<1>9. ASSUME NEW p \in P, NEW q \in P, p < q, Conflict(g, p, q)
      PROVE  IF laneOf(ls, p) = laneOf(ls, q)
             THEN Position(c.timelines[laneOf(ls, p)], p) < Position(c.timelines[laneOf(ls, p)], q)
             ELSE \E i \in c.cross : E[i].src = p /\ E[i].dst = q
  <2>1. p \in preds(E, q)
    BY <1>4, <1>5, <1>9
  <2>2. CASE laneOf(ls, p) = laneOf(ls, q)
    <3>1. PICK l, X, K : l = laneOf(ls, p) /\ X = ls[l].passes /\ K = Kept(s, X)
      OBVIOUS
    <3>2. l \in DOMAIN ls /\ p \in X /\ q \in X
      BY <1>7, <2>2, <3>1, LaneOfIs
    <3>3. c.timelines[l] = K
      BY <1>2, <3>1, <3>2
    <3>4. Position(K, p) < Position(K, q) <=> Position(s, p) < Position(s, q)
      BY <1>4, <3>1, <3>2, TimelineKeepsOrder
    <3> QED
      BY <1>8, <2>1, <2>2, <3>1, <3>3, <3>4
  <2>3. CASE laneOf(ls, p) # laneOf(ls, q)
    <3>1. PICK e \in DOMAIN E : E[e].src = p /\ E[e].dst = q
      BY <1>6, <2>1
    <3>2. e \in c.cross
      BY <1>2, <2>3, <3>1 DEF crossLane
    <3> QED
      BY <2>3, <3>1, <3>2
  <2> QED
    BY <2>2, <2>3
<1>10. ASSUME NEW l \in DOMAIN ls, NEW p \in ToSet(c.timelines[l]), NEW q \in ToSet(c.timelines[l]),
              Position(c.timelines[l], p) < Position(c.timelines[l], q)
       PROVE  Position(s, p) < Position(s, q)
  <2>1. PICK X, K : X = ls[l].passes /\ K = Kept(s, X)
    OBVIOUS
  <2>2. c.timelines[l] = K
    BY <1>2, <2>1
  <2>3. In(p, K) /\ In(q, K)
    BY <2>2 DEF ToSet, In
  <2>4. \A x : In(x, K) <=> In(x, s) /\ x \in X
    BY <1>4, <2>1, KeptOnce
  <2>5. Position(K, p) < Position(K, q) <=> Position(s, p) < Position(s, q)
    BY <1>4, <2>1, <2>3, <2>4, TimelineKeepsOrder
  <2> QED
    BY <1>10, <2>2, <2>5
<1>11. \A l \in DOMAIN ls : \A p \in ls[l].passes : queueClass(g.passes[p]) = ls[l].queueClass
  BY <1>7 DEF Placed
<1>12. ASSUME NEW e \in DOMAIN E
       PROVE  Position(s, E[e].src) < Position(s, E[e].dst)
  <2>1. E[e] \in Edge(g)
    BY <1>4, ElementOfSeq, LenProperties
  <2>2. E[e].dst \in P /\ E[e].src \in preds(E, E[e].dst)
    BY <1>3, <1>6, <2>1 DEF Edge
  <2> QED
    BY <1>8, <2>2
<1>13. DOMAIN c.timelines = DOMAIN ls
  BY <1>2
<1>14. \A p, q \in DOMAIN g.passes : p < q /\ Conflict(g, p, q) =>
          IF laneOf(c.lanes, p) = laneOf(c.lanes, q)
          THEN Position(c.timelines[laneOf(c.lanes, p)], p) < Position(c.timelines[laneOf(c.lanes, p)], q)
          ELSE \E i \in c.cross : c.edges[i].src = p /\ c.edges[i].dst = q
  BY <1>2, <1>3, <1>9
<1>15. \A l \in DOMAIN c.timelines : \A p, q \in ToSet(c.timelines[l]) :
          Position(c.timelines[l], p) < Position(c.timelines[l], q) =>
          Position(c.sorted, p) < Position(c.sorted, q)
  BY <1>2, <1>10, <1>13
<1> QED
  BY <1>2, <1>11, <1>12, <1>14, <1>15 DEF LanesHonour

-----------------------------------------------------------------------------
(* 6. The invariant of an execution.                                         *)

Edges   == DOMAIN compiled.edges
Into(p) == {e \in Edges : compiled.edges[e].dst = p}

Executing == phase \in {"roots", "returned"}

Types ==
    /\ phase \in {"build", "compiled", "inline", "body", "ran", "roots", "returned"}
    /\ loop \in Nat \ {0}
    /\ deps \in [Passes -> Int] /\ queue \in [Passes -> Nat] /\ remaining \in Int
    /\ job \in [Workers -> [pass : Passes \cup {NoPass}, at : {"idle", "body", "succs"},
                            todo : SUBSET Edges]]
    /\ event \in BOOLEAN /\ overtaken \in BOOLEAN
    /\ begun \in [Passes -> Nat] /\ ended \in [Passes -> Nat]

Compiling ==
    /\ Built(graph) /\ Len(graph.passes) <= MaxPasses
    /\ compiled = IF phase = "build" THEN NoGraph ELSE compile(graph)
    /\ phase \notin {"build", "compiled"} => valid(compiled)

\* Nothing runs on the workers before execute(), and the passes in order on the
\* caller's thread.
Serial ==
    ~Executing =>
        /\ ~event /\ ~overtaken
        /\ \A w \in Workers : job[w] = Idle
        /\ \A p \in Passes : queue[p] = 0
        /\ phase \in {"build", "compiled"} => loop = 1 /\ \A p \in Passes : begun[p] = 0 /\ ended[p] = 0
        /\ phase \in {"inline", "body", "ran"} => \A i \in DOMAIN compiled.sorted :
              /\ begun[compiled.sorted[i]] = IF i < loop \/ (i = loop /\ phase = "body") THEN 1 ELSE 0
              /\ ended[compiled.sorted[i]] = IF i < loop THEN 1 ELSE 0
        /\ phase = "body" => loop \in DOMAIN compiled.sorted

\* Who runs a pass has begun it, and alone.
Jobs ==
    \A w \in Workers :
        \/ job[w] = Idle
        \/ LET p == job[w].pass
           IN  /\ p \in Passes /\ job[w].at \in {"body", "succs"}
               /\ begun[p] = 1 /\ ended[p] = IF job[w].at = "body" THEN 0 ELSE 1
               /\ job[w].todo \subseteq Successors(p)
               /\ \A v \in Workers : job[v].pass = p => v = w

\* No pass is launched twice.
Once ==
    \A p \in Passes : /\ queue[p] + begun[p] <= 1 /\ ended[p] <= begun[p]
                      /\ ended[p] < begun[p] => \E w \in Workers : job[w].pass = p

Launched(p) == queue[p] + begun[p] = 1

\* An edge is released once its source has returned and its worker has come to it.
Held(e) == LET p == compiled.edges[e].src
           IN  ended[p] = 0 \/ \E w \in Workers : job[w].pass = p /\ e \in job[w].todo

Counted == \A p \in Passes : deps[p] = Cardinality({e \in Into(p) : Held(e)})

\* Passes with predecessors are launched when the last edge is released, the others
\* by the root loop.
Launches ==
    \A p \in Passes : Launched(p) <=> IF Into(p) = {} THEN \E i \in DOMAIN compiled.sorted :
                                                              i < loop /\ compiled.sorted[i] = p
                                                      ELSE deps[p] = 0

Unfinished == {p \in Passes : ended[p] = 0 \/ \E w \in Workers : job[w].pass = p}

Ending == remaining = Cardinality(Unfinished) /\ (event <=> remaining = 0)

Parallel == Executing /\ ~overtaken => Jobs /\ Once /\ Counted /\ Launches /\ Ending

ExecInv == Types /\ Compiling /\ Serial /\ Parallel

-----------------------------------------------------------------------------
(* The execution.                                                            *)

\* What stays with the graph and its compiled form.
LEMMA SameGraph ==
    ASSUME UNCHANGED building
    PROVE  /\ graph' = graph /\ compiled' = compiled
           /\ Passes' = Passes /\ Edges' = Edges /\ Dependencies' = Dependencies
           /\ \A p : Into(p)' = Into(p) /\ Successors(p)' = Successors(p)
  BY DEF building, Passes, Edges, Dependencies, Into, Successors

\* Passes are numbers, and the edges are between them.
LEMMA ReadyFacts ==
    ASSUME Compiling, phase # "build", valid(compiled)
    PROVE  /\ Ordered(graph, compiled)
           /\ Passes = 1..Len(graph.passes) /\ Len(graph.passes) \in Nat
           /\ NoPass \notin Passes
           /\ DOMAIN compiled.sorted = 1..Len(graph.passes)
           /\ \A i \in DOMAIN compiled.sorted : compiled.sorted[i] \in Passes
           /\ Edges \subseteq Nat
           /\ \A e \in Edges : compiled.edges[e].src \in Passes /\ compiled.edges[e].dst \in Passes
           /\ \A p : IsFiniteSet(Into(p)) /\ Into(p) \subseteq Edges
<1>1. Built(graph) /\ compiled = compile(graph)
  BY DEF Compiling
<1>2. Ordered(graph, compiled)
  BY <1>1, CompileOrders
<1>3. graph.passes \in Seq(Pass)
  BY <1>1 DEF Built
<1>4. Len(graph.passes) \in Nat /\ Passes = 1..Len(graph.passes)
  BY <1>3, LenProperties DEF Passes
<1>5. compiled.edges \in Seq(Edge(graph))
  BY <1>2 DEF Ordered
<1>6. Len(compiled.edges) \in Nat /\ Edges = 1..Len(compiled.edges)
  BY <1>5, LenProperties DEF Edges
<1>7. \A e \in Edges : compiled.edges[e] \in Edge(graph)
  BY <1>5, ElementOfSeq DEF Edges
<1>8. \A e \in Edges : compiled.edges[e].src \in Passes /\ compiled.edges[e].dst \in Passes
  BY <1>7 DEF Edge, Passes
<1>9. IsFiniteSet(Edges)
  BY <1>6, FS_Interval
<1>10. \A p : IsFiniteSet(Into(p)) /\ Into(p) \subseteq Edges
  BY <1>9, FS_Subset DEF Into
<1>11. compiled.sorted \in [1..Len(graph.passes) -> Passes]
  BY <1>2 DEF Ordered, Passes
<1>12. NoPass \notin Passes
  BY <1>4, GraphAssumption
<1> QED
  BY <1>2, <1>4, <1>6, <1>8, <1>10, <1>11, <1>12

\* The same, once an execution has begun.
LEMMA GraphFacts ==
    ASSUME Types, Compiling, phase \notin {"build", "compiled"}
    PROVE  /\ Ordered(graph, compiled)
           /\ Passes = 1..Len(graph.passes) /\ Len(graph.passes) \in Nat
           /\ NoPass \notin Passes
           /\ DOMAIN compiled.sorted = 1..Len(graph.passes)
           /\ \A i \in DOMAIN compiled.sorted : compiled.sorted[i] \in Passes
           /\ Edges \subseteq Nat
           /\ \A e \in Edges : compiled.edges[e].src \in Passes /\ compiled.edges[e].dst \in Passes
           /\ \A p : IsFiniteSet(Into(p)) /\ Into(p) \subseteq Edges
<1>1. phase # "build" /\ valid(compiled)
  BY DEF Compiling
<1> QED
  BY <1>1, ReadyFacts

\* The predecessors that execute() counts.
LEMMA DependenciesCount ==
    ASSUME NEW p \in Passes, IsFiniteSet(Into(p))
    PROVE  /\ Dependencies[p] = Cardinality(Into(p)) /\ Cardinality(Into(p)) \in Nat
           /\ Dependencies[p] = 0 <=> Into(p) = {}
<1>1. Dependencies[p] = Cardinality(Into(p))
  BY DEF Dependencies, Into, Edges
<1> QED
  BY <1>1, FS_EmptySet, FS_CardinalityType

\* The number of edges into a pass that are held, and whether there are any.
LEMMA Counts ==
    ASSUME Types, Compiling, phase \notin {"build", "compiled"}, NEW p \in Passes
    PROVE  /\ IsFiniteSet({e \in Into(p) : Held(e)})
           /\ Cardinality({e \in Into(p) : Held(e)}) \in Nat
           /\ Cardinality({e \in Into(p) : Held(e)}) = 0 <=> {e \in Into(p) : Held(e)} = {}
           /\ Dependencies[p] = Cardinality(Into(p)) /\ Cardinality(Into(p)) \in Nat
           /\ Dependencies[p] = 0 <=> Into(p) = {}
<1>1. IsFiniteSet(Into(p))
  BY GraphFacts
<1>2. IsFiniteSet({e \in Into(p) : Held(e)})
  BY <1>1, FS_Subset
<1> QED
  BY <1>1, <1>2, DependenciesCount, FS_EmptySet, FS_CardinalityType

\* Passes of which a worker or an entry of the queue is left.
LEMMA UnfinishedFinite ==
    ASSUME Types, Compiling, phase \notin {"build", "compiled"}
    PROVE  IsFiniteSet(Unfinished) /\ Cardinality(Unfinished) \in Nat
           /\ (Cardinality(Unfinished) = 0 <=> Unfinished = {})
<1>1. IsFiniteSet(Passes)
  BY GraphFacts, FS_Interval
<1>2. IsFiniteSet(Unfinished)
  BY <1>1, FS_Subset DEF Unfinished
<1> QED
  BY <1>2, FS_EmptySet, FS_CardinalityType

\* The root loop launches a pass without predecessors.
LEMMA RootLoopKeeps ==
    ASSUME ExecInv, RootLoop
    PROVE  ExecInv'
<1>0. Types /\ Compiling /\ Serial /\ Parallel /\ Executing /\ phase = "roots"
  BY DEF ExecInv, RootLoop, Executing
<1>1. /\ graph' = graph /\ compiled' = compiled
      /\ Passes' = Passes /\ Edges' = Edges
      /\ \A p : Into(p)' = Into(p) /\ Successors(p)' = Successors(p)
  BY SameGraph DEF RootLoop
<1>2. UNCHANGED <<deps, remaining, job, event, begun, ended>>
  BY DEF RootLoop
<1>3. Executing' /\ phase' \notin {"build", "compiled"}
  BY <1>0 DEF RootLoop, Executing
<1>4. Compiling'
  BY <1>0, <1>1, <1>3 DEF Compiling
<1>5. Serial'
  BY <1>3 DEF Serial
<1>6. /\ DOMAIN compiled.sorted = 1..Len(graph.passes) /\ Len(graph.passes) \in Nat
      /\ \A i \in DOMAIN compiled.sorted : compiled.sorted[i] \in Passes
      /\ \A i, j \in DOMAIN compiled.sorted : compiled.sorted[i] = compiled.sorted[j] => i = j
  BY <1>0, GraphFacts DEF Ordered
<1>7. Types'
  <2>1. CASE loop \in DOMAIN compiled.sorted
    <3>1. compiled.sorted[loop] \in Passes
      BY <1>6, <2>1
    <3>2. overtaken' \in BOOLEAN
      BY <1>0, <2>1 DEF Types, RootLoop
    <3>3. queue' \in [Passes -> Nat] /\ loop' \in Nat \ {0} /\ phase' = phase
      BY <1>0, <2>1, <3>1 DEF Types, RootLoop, Launch
    <3> QED
      BY <1>0, <1>1, <1>2, <3>2, <3>3 DEF Types
  <2>2. CASE loop \notin DOMAIN compiled.sorted
    BY <1>0, <1>1, <1>2, <2>2 DEF Types, RootLoop
  <2> QED
    BY <2>1, <2>2
<1>8. ASSUME ~overtaken'
      PROVE  Jobs' /\ Once' /\ Counted' /\ Launches' /\ Ending'
  <2>1. ~overtaken
    BY <1>8 DEF RootLoop
  <2>2. Jobs /\ Once /\ Counted /\ Launches /\ Ending
    BY <1>0, <2>1 DEF Parallel
  <2>3. Jobs' /\ Counted' /\ Ending'
    BY <1>1, <1>2, <2>2 DEF Jobs, Counted, Ending, Held, Unfinished
  <2>4. CASE loop \notin DOMAIN compiled.sorted
    <3>1. UNCHANGED <<loop, queue>>
      BY <2>4 DEF RootLoop
    <3> QED
      BY <1>1, <1>2, <2>2, <2>3, <3>1 DEF Once, Launches, Launched
  <2>5. CASE loop \in DOMAIN compiled.sorted
    <3> DEFINE p == compiled.sorted[loop]
    <3>1. p \in Passes /\ loop' = loop + 1 /\ loop \in Nat
      BY <1>0, <1>6, <2>5 DEF RootLoop, Types
    <3>2. \A q \in Passes : (\E i \in DOMAIN compiled.sorted : i < loop' /\ compiled.sorted[i] = q)
                <=> q = p \/ \E i \in DOMAIN compiled.sorted : i < loop /\ compiled.sorted[i] = q
      BY <1>6, <2>5, <3>1
    <3>3. ~\E i \in DOMAIN compiled.sorted : i < loop /\ compiled.sorted[i] = p
      BY <1>6, <2>5, <3>1
    <3>4. deps[p] = 0 <=> Dependencies[p] = 0
      <4>1. deps[p] = Cardinality({e \in Into(p) : Held(e)})
        BY <2>2, <3>1 DEF Counted
      <4>2. Dependencies[p] = 0 => deps[p] = 0
        BY <1>0, <3>1, <4>1, Counts
      <4>3. deps[p] = 0 => ~(Dependencies[p] > 0)
        BY <1>8, <2>5 DEF RootLoop
      <4>4. PICK d \in Nat : d = Dependencies[p]
        BY <1>0, <3>1, Counts
      <4>5. d = 0 \/ d > 0
        OBVIOUS
      <4> QED
        BY <4>2, <4>3, <4>4, <4>5
    <3>5. Dependencies[p] = 0 <=> Into(p) = {}
      BY <1>0, <3>1, Counts
    <3>6. CASE deps[p] = 0 /\ Into(p) = {}
      <4>1. queue' = [queue EXCEPT ![p] = @ + 1]
        BY <2>5, <3>6 DEF RootLoop, Launch
      <4>2. ~Launched(p)
        BY <2>2, <3>1, <3>3, <3>6 DEF Launches
      <4>3. queue[p] = 0 /\ begun[p] = 0
        <5>1. queue[p] \in Nat /\ begun[p] \in Nat
          BY <1>0, <3>1 DEF Types
        <5>2. queue[p] + begun[p] <= 1 /\ queue[p] + begun[p] # 1
          BY <2>2, <3>1, <4>2 DEF Launched, Once
        <5> QED
          BY <5>1, <5>2
      <4>4. queue'[p] = 1 /\ \A q \in Passes : q # p => queue'[q] = queue[q]
        BY <1>0, <3>1, <4>1, <4>3 DEF Types
      <4>5. Once'
        BY <1>1, <1>2, <2>2, <4>3, <4>4 DEF Once
      <4>6. ASSUME NEW q \in Passes
            PROVE  Launched(q)' <=> IF Into(q) = {} THEN \E i \in DOMAIN compiled.sorted :
                                                              i < loop' /\ compiled.sorted[i] = q
                                                   ELSE deps[q] = 0
        BY <1>2, <2>2, <3>2, <3>6, <4>3, <4>4 DEF Launches, Launched
      <4>7. Launches'
        BY <1>1, <1>2, <4>6 DEF Launches
      <4> QED
        BY <2>3, <4>5, <4>7
    <3>7. CASE deps[p] # 0 /\ Into(p) # {}
      <4>1. queue' = queue
        BY <2>5, <3>7 DEF RootLoop
      <4>2. Once'
        BY <1>1, <1>2, <2>2, <4>1 DEF Once
      <4>3. ASSUME NEW q \in Passes
            PROVE  Launched(q)' <=> IF Into(q) = {} THEN \E i \in DOMAIN compiled.sorted :
                                                              i < loop' /\ compiled.sorted[i] = q
                                                   ELSE deps[q] = 0
        BY <1>2, <2>2, <3>2, <3>7, <4>1 DEF Launches, Launched
      <4>4. Launches'
        BY <1>1, <1>2, <4>3 DEF Launches
      <4> QED
        BY <2>3, <4>2, <4>4
    <3> QED
      BY <3>4, <3>5, <3>6, <3>7
  <2> QED
    BY <2>4, <2>5
<1> QED
  BY <1>3, <1>4, <1>5, <1>7, <1>8 DEF ExecInv, Parallel

\* Worker w's job and nobody else's changes, within the execution.
WorkerStep(w) ==
    /\ phase = "roots" \/ phase = "returned"
    /\ UNCHANGED <<building, phase, loop, overtaken>>
    /\ job' = [job EXCEPT ![w] = job'[w]]

\* The part of the invariant that such a step does not touch.
LEMMA WorkerKeeps ==
    ASSUME ExecInv, NEW w \in Workers, WorkerStep(w)
    PROVE  /\ Executing /\ Executing' /\ phase \notin {"build", "compiled"}
           /\ graph' = graph /\ compiled' = compiled /\ Passes' = Passes /\ Edges' = Edges
           /\ \A p : Into(p)' = Into(p) /\ Successors(p)' = Successors(p)
           /\ Compiling' /\ Serial'
           /\ \A v \in Workers : v # w => job'[v] = job[v]
<1>1. Types /\ Compiling /\ Executing /\ Executing' /\ phase \notin {"build", "compiled"}
  BY DEF ExecInv, WorkerStep, Executing
<1>2. /\ graph' = graph /\ compiled' = compiled
      /\ Passes' = Passes /\ Edges' = Edges
      /\ \A p : Into(p)' = Into(p) /\ Successors(p)' = Successors(p)
  BY SameGraph DEF WorkerStep
<1>3. Compiling' /\ Serial'
  BY <1>1, <1>2 DEF Compiling, Serial, WorkerStep
<1>4. \A v \in Workers : v # w => job'[v] = job[v]
  BY <1>1 DEF WorkerStep, Types
<1> QED
  BY <1>1, <1>2, <1>3, <1>4

\* Before anything is executed no job is queued, and none runs.
LEMMA WorkersExecute ==
    ASSUME ExecInv, NEW w \in Workers, job[w] # Idle \/ \E p \in Passes : queue[p] > 0
    PROVE  Executing
<1>1. ASSUME ~Executing
      PROVE  FALSE
  <2>1. /\ \A p \in Passes : queue[p] = 0
        /\ job[w] = Idle
    BY <1>1 DEF ExecInv, Serial
  <2> QED
    BY <2>1
<1> QED
  BY <1>1

\* A worker takes a job and enters the pass's callback.
LEMMA JobBeginKeeps ==
    ASSUME ExecInv, NEW w \in Workers, JobBegin(w)
    PROVE  ExecInv'
<1>0. Types /\ Parallel /\ Compiling
  BY DEF ExecInv
<1>1. PICK p \in Passes : /\ queue[p] > 0
                          /\ queue' = [queue EXCEPT ![p] = @ - 1]
                          /\ job' = [job EXCEPT ![w] = [pass |-> p, at |-> "body", todo |-> {}]]
                          /\ begun' = [begun EXCEPT ![p] = @ + 1]
  BY DEF JobBegin
<1>2. job[w] = Idle /\ UNCHANGED <<building, phase, loop, deps, remaining, event, ended, overtaken>>
  BY DEF JobBegin
<1>3. job'[w] = [pass |-> p, at |-> "body", todo |-> {}]
  BY <1>0, <1>1 DEF Types
<1>4. WorkerStep(w)
  <2>1. Executing
    BY <1>1, WorkersExecute
  <2> QED
    BY <1>1, <1>2, <1>3, <2>1 DEF WorkerStep, Executing
<1>5. /\ Executing /\ Executing' /\ phase \notin {"build", "compiled"}
      /\ graph' = graph /\ compiled' = compiled /\ Passes' = Passes /\ Edges' = Edges
      /\ \A q : Into(q)' = Into(q) /\ Successors(q)' = Successors(q)
      /\ Compiling' /\ Serial'
      /\ \A v \in Workers : v # w => job'[v] = job[v]
  BY <1>4, WorkerKeeps
<1>6. /\ queue[p] \in Nat /\ begun[p] \in Nat /\ ended[p] \in Nat
      /\ queue'[p] = queue[p] - 1 /\ begun'[p] = begun[p] + 1
      /\ \A q \in Passes : q # p => queue'[q] = queue[q] /\ begun'[q] = begun[q]
  BY <1>0, <1>1 DEF Types
<1>7. Types'
  <2>1. queue' \in [Passes -> Nat] /\ begun' \in [Passes -> Nat]
    BY <1>0, <1>1, <1>6 DEF Types
  <2>2. job' \in [Workers -> [pass : Passes \cup {NoPass}, at : {"idle", "body", "succs"},
                              todo : SUBSET Edges]]
    BY <1>0, <1>1 DEF Types
  <2> QED
    BY <1>0, <1>2, <1>5, <2>1, <2>2 DEF Types
<1>8. ASSUME ~overtaken'
      PROVE  Jobs' /\ Once' /\ Counted' /\ Launches' /\ Ending'
  <2>1. Jobs /\ Once /\ Counted /\ Launches /\ Ending
    BY <1>0, <1>2, <1>5, <1>8 DEF Parallel
  <2>2. queue[p] = 1 /\ begun[p] = 0 /\ ended[p] = 0 /\ queue'[p] = 0 /\ begun'[p] = 1
    <3>1. queue[p] + begun[p] <= 1 /\ ended[p] <= begun[p]
      BY <1>1, <2>1 DEF Once
    <3>2. queue[p] > 0
      BY <1>1
    <3>3. queue[p] = 1 /\ begun[p] = 0 /\ ended[p] = 0
      BY <1>6, <3>1, <3>2
    <3> QED
      BY <1>6, <3>3
  <2>3. NoPass \notin Passes
    BY <1>0, <1>5, GraphFacts
  <2>4. job[w].pass = NoPass /\ job'[w].pass = p /\ job'[w].at = "body" /\ job'[w].todo = {}
    BY <1>2, <1>3 DEF Idle
  <2>5. \A v \in Workers : job[v].pass # p
    <3>1. SUFFICES ASSUME NEW v \in Workers, job[v].pass = p
                   PROVE  FALSE
      OBVIOUS
    <3>2. job[v] # Idle
      BY <1>1, <2>3, <3>1 DEF Idle
    <3>3. begun[p] = 1
      BY <2>1, <3>1, <3>2 DEF Jobs
    <3> QED
      BY <2>2, <3>3
  <2>6. Jobs'
    <3>1. ASSUME NEW v \in Workers, job'[v] # Idle
          PROVE  /\ job'[v].pass \in Passes /\ job'[v].at \in {"body", "succs"}
                 /\ begun'[job'[v].pass] = 1
                 /\ ended[job'[v].pass] = IF job'[v].at = "body" THEN 0 ELSE 1
                 /\ job'[v].todo \subseteq Successors(job'[v].pass)
                 /\ \A u \in Workers : job'[u].pass = job'[v].pass => u = v
      <4>1. CASE v = w
        BY <1>1, <1>5, <2>2, <2>4, <2>5, <4>1
      <4>2. CASE v # w
        <5>1. job'[v] = job[v] /\ job[v] # Idle
          BY <1>5, <3>1, <4>2
        <5>2. job[v].pass # p
          BY <2>5
        <5>3. /\ job[v].pass \in Passes /\ job[v].at \in {"body", "succs"}
              /\ begun[job[v].pass] = 1
              /\ ended[job[v].pass] = IF job[v].at = "body" THEN 0 ELSE 1
              /\ job[v].todo \subseteq Successors(job[v].pass)
              /\ \A u \in Workers : job[u].pass = job[v].pass => u = v
          BY <2>1, <5>1 DEF Jobs
        <5>4. begun'[job[v].pass] = 1
          BY <1>6, <5>2, <5>3
        <5>5. \A u \in Workers : job'[u].pass = job[v].pass => u = v
          BY <1>5, <2>4, <5>2, <5>3
        <5> QED
          BY <5>1, <5>3, <5>4, <5>5
      <4> QED
        BY <4>1, <4>2
    <3> QED
      BY <1>2, <1>5, <3>1 DEF Jobs, Idle
  <2>7. Once'
    <3>1. ASSUME NEW q \in Passes
          PROVE  /\ queue'[q] + begun'[q] <= 1 /\ ended[q] <= begun'[q]
                 /\ ended[q] < begun'[q] => \E v \in Workers : job'[v].pass = q
      <4>1. CASE q = p
        BY <2>2, <2>4, <4>1
      <4>2. CASE q # p
        <5>1. /\ queue[q] + begun[q] <= 1 /\ ended[q] <= begun[q]
              /\ ended[q] < begun[q] => \E v \in Workers : job[v].pass = q
          BY <2>1 DEF Once
        <5>2. \A v \in Workers : job[v].pass = q => job'[v].pass = q
          BY <1>5, <2>3, <2>4
        <5> QED
          BY <1>6, <4>2, <5>1, <5>2
      <4> QED
        BY <4>1, <4>2
    <3> QED
      BY <1>2, <1>5, <3>1 DEF Once
  <2>8. ASSUME NEW e \in Edges
        PROVE  Held(e)' <=> Held(e)
    <3> DEFINE q == compiled.edges[e].src
    <3>1. CASE q = p
      BY <1>2, <1>5, <2>2, <3>1 DEF Held
    <3>2. CASE q # p
      <4>0. q \in Passes
        BY <1>0, <1>5, GraphFacts
      <4>1. \A v \in Workers : job'[v].pass = q <=> job[v].pass = q
        BY <1>5, <2>3, <2>4, <3>2, <4>0
      <4>2. \A v \in Workers : job[v].pass = q => job'[v] = job[v]
        BY <1>5, <2>3, <2>4, <4>0
      <4> QED
        BY <1>2, <1>5, <4>1, <4>2 DEF Held
    <3> QED
      BY <3>1, <3>2
  <2>9. Counted'
    <3>1. \A q \in Passes : {e \in Into(q) : Held(e)'} = {e \in Into(q) : Held(e)}
      BY <2>8 DEF Into
    <3> QED
      BY <1>2, <1>5, <2>1, <3>1 DEF Counted
  <2>10. Launches'
    <3>1. \A q \in Passes : Launched(q)' <=> Launched(q)
      BY <1>6, <2>2 DEF Launched
    <3> QED
      BY <1>2, <1>5, <2>1, <3>1 DEF Launches
  <2>11. Ending'
    <3>1. ASSUME NEW q \in Passes
          PROVE  (ended[q] = 0 \/ \E v \in Workers : job'[v].pass = q)
                   <=> (ended[q] = 0 \/ \E v \in Workers : job[v].pass = q)
      BY <1>5, <2>2, <2>3, <2>4
    <3>2. Unfinished' = Unfinished
      BY <1>2, <1>5, <3>1 DEF Unfinished
    <3> QED
      BY <1>2, <2>1, <3>2 DEF Ending
  <2> QED
    BY <2>6, <2>7, <2>9, <2>10, <2>11
<1> QED
  BY <1>5, <1>7, <1>8 DEF ExecInv, Parallel

\* The callback returns; the worker has all of the pass's edges ahead.
LEMMA JobReturnsKeeps ==
    ASSUME ExecInv, NEW w \in Workers, JobReturns(w)
    PROVE  ExecInv'
<1> DEFINE p == job[w].pass
<1>0. Types /\ Parallel /\ Compiling
  BY DEF ExecInv
<1>1. /\ job[w].at = "body"
      /\ job' = [job EXCEPT ![w].at = "succs", ![w].todo = Successors(p)]
      /\ ended' = [ended EXCEPT ![p] = @ + 1]
      /\ UNCHANGED <<building, phase, loop, deps, remaining, queue, event, begun, overtaken>>
  BY DEF JobReturns, counters
<1>2. /\ job'[w].pass = p /\ job'[w].at = "succs" /\ job'[w].todo = Successors(p)
      /\ job'[w] = [pass |-> p, at |-> "succs", todo |-> Successors(p)]
  BY <1>0, <1>1 DEF Types
<1>4. WorkerStep(w)
  <2>1. Executing
    BY <1>1, WorkersExecute DEF Idle
  <2> QED
    BY <1>0, <1>1, <1>2, <2>1 DEF WorkerStep, Executing, Types
<1>5. /\ Executing /\ Executing' /\ phase \notin {"build", "compiled"}
      /\ graph' = graph /\ compiled' = compiled /\ Passes' = Passes /\ Edges' = Edges
      /\ \A q : Into(q)' = Into(q) /\ Successors(q)' = Successors(q)
      /\ Compiling' /\ Serial'
      /\ \A v \in Workers : v # w => job'[v] = job[v]
  BY <1>4, WorkerKeeps
<1>6. p \in Passes \cup {NoPass} /\ NoPass \notin Passes
  BY <1>0, <1>5, GraphFacts DEF Types
<1>7. Types'
  <2>1. ended' \in [Passes -> Nat]
    <3>1. ended \in [Passes -> Nat]
      BY <1>0 DEF Types
    <3>2. CASE p \in Passes
      BY <1>1, <3>1, <3>2
    <3>3. CASE p \notin Passes
      BY <1>1, <3>1, <3>3
    <3> QED
      BY <3>2, <3>3
  <2>2. Successors(p) \subseteq Edges
    BY DEF Successors, Edges
  <2>3. job' \in [Workers -> [pass : Passes \cup {NoPass}, at : {"idle", "body", "succs"},
                              todo : SUBSET Edges]]
    BY <1>0, <1>1, <2>2 DEF Types
  <2> QED
    BY <1>0, <1>1, <1>5, <2>1, <2>3 DEF Types
<1>8. ASSUME ~overtaken'
      PROVE  Jobs' /\ Once' /\ Counted' /\ Launches' /\ Ending'
  <2>1. Jobs /\ Once /\ Counted /\ Launches /\ Ending
    BY <1>0, <1>1, <1>5, <1>8 DEF Parallel
  <2>2. /\ p \in Passes /\ begun[p] = 1 /\ ended[p] = 0 /\ \A v \in Workers : job[v].pass = p => v = w
    <3>1. job[w] # Idle
      BY <1>1 DEF Idle
    <3> QED
      BY <1>1, <2>1, <3>1 DEF Jobs
  <2>3. ended'[p] = 1 /\ \A q \in Passes : q # p => ended'[q] = ended[q]
    BY <1>0, <1>1, <2>2 DEF Types
  <2>4. \A v \in Workers : job'[v].pass = job[v].pass
    BY <1>2, <1>5
  <2> HIDE DEF p
  <2>6. Jobs'
    <3>1. ASSUME NEW v \in Workers, job'[v] # Idle
          PROVE  /\ job'[v].pass \in Passes /\ job'[v].at \in {"body", "succs"}
                 /\ begun[job'[v].pass] = 1
                 /\ ended'[job'[v].pass] = IF job'[v].at = "body" THEN 0 ELSE 1
                 /\ job'[v].todo \subseteq Successors(job'[v].pass)
                 /\ \A u \in Workers : job'[u].pass = job'[v].pass => u = v
      <4>1. CASE v = w
        BY <1>2, <2>2, <2>3, <2>4, <4>1
      <4>2. CASE v # w
        <5>1. job'[v] = job[v] /\ job[v] # Idle /\ job[v].pass # p
          BY <1>5, <2>2, <3>1, <4>2
        <5>3. /\ job[v].pass \in Passes /\ job[v].at \in {"body", "succs"}
              /\ begun[job[v].pass] = 1
              /\ ended[job[v].pass] = IF job[v].at = "body" THEN 0 ELSE 1
              /\ job[v].todo \subseteq Successors(job[v].pass)
              /\ \A u \in Workers : job[u].pass = job[v].pass => u = v
          BY <2>1, <5>1 DEF Jobs
        <5> QED
          BY <2>3, <2>4, <5>1, <5>3
      <4> QED
        BY <4>1, <4>2
    <3> QED
      BY <1>1, <1>5, <3>1 DEF Jobs, Idle
  <2>7. Once'
    <3>1. ASSUME NEW q \in Passes
          PROVE  /\ queue[q] + begun[q] <= 1 /\ ended'[q] <= begun[q]
                 /\ ended'[q] < begun[q] => \E v \in Workers : job'[v].pass = q
      <4>1. /\ queue[q] + begun[q] <= 1 /\ ended[q] <= begun[q]
            /\ ended[q] < begun[q] => \E v \in Workers : job[v].pass = q
        BY <2>1 DEF Once
      <4> QED
        BY <2>2, <2>3, <2>4, <4>1
    <3> QED
      BY <1>1, <1>5, <3>1 DEF Once
  <2>8. ASSUME NEW e \in Edges
        PROVE  Held(e)' <=> Held(e)
    <3> DEFINE q == compiled.edges[e].src
    <3>0. q \in Passes
      BY <1>0, <1>5, GraphFacts
    <3>1. CASE q = p
      <4>1. e \in Successors(p)
        BY <3>1 DEF Successors, Edges
      <4>2. Held(e)
        BY <2>2, <3>1 DEF Held
      <4>3. Held(e)'
        BY <1>2, <1>5, <3>1, <4>1 DEF Held
      <4> QED
        BY <4>2, <4>3
    <3>2. CASE q # p
      <4>1. \A v \in Workers : job'[v].pass = q <=> job[v].pass = q
        BY <2>4
      <4>2. \A v \in Workers : job[v].pass = q => job'[v] = job[v]
        BY <1>2, <1>5, <2>4, <3>2
      <4>3. ended'[q] = ended[q]
        BY <2>3, <3>0, <3>2
      <4> QED
        BY <1>5, <4>1, <4>2, <4>3 DEF Held
    <3> QED
      BY <3>1, <3>2
  <2>9. Counted'
    <3>1. \A q \in Passes : {e \in Into(q) : Held(e)'} = {e \in Into(q) : Held(e)}
      BY <2>8 DEF Into
    <3> QED
      BY <1>1, <1>5, <2>1, <3>1 DEF Counted
  <2>10. Launches'
    BY <1>1, <1>5, <2>1 DEF Launches, Launched
  <2>11. Ending'
    <3>1. ASSUME NEW q \in Passes
          PROVE  (ended'[q] = 0 \/ \E v \in Workers : job'[v].pass = q)
                   <=> (ended[q] = 0 \/ \E v \in Workers : job[v].pass = q)
      <4>1. p = job[w].pass
        BY DEF p
      <4> QED
        BY <1>5, <2>2, <2>3, <2>4, <4>1
    <3>2. Unfinished' = Unfinished
      BY <1>5, <3>1 DEF Unfinished
    <3> QED
      BY <1>1, <2>1, <3>2 DEF Ending
  <2> QED
    BY <2>6, <2>7, <2>9, <2>10, <2>11
<1> QED
  BY <1>5, <1>7, <1>8 DEF ExecInv, Parallel

\* One edge is released; the last one into a pass launches it.
LEMMA JobReleasesKeeps ==
    ASSUME ExecInv, NEW w \in Workers, JobReleases(w)
    PROVE  ExecInv'
<1> PICK f : f = First(job[w].todo)
  OBVIOUS
<1> DEFINE p == job[w].pass
           s == compiled.edges[f].dst
<1>0. Types /\ Parallel /\ Compiling
  BY DEF ExecInv
<1>1. /\ job[w].at = "succs" /\ job[w].todo # {}
      /\ deps' = [deps EXCEPT ![s] = @ - 1]
      /\ queue' = IF deps[s] = 1 THEN [queue EXCEPT ![s] = @ + 1] ELSE queue
      /\ job' = [job EXCEPT ![w].todo = @ \ {f}]
      /\ UNCHANGED <<building, phase, loop, remaining, event, begun, ended, overtaken>>
  BY DEF JobReleases, Launch, history
<1>2. /\ job'[w].pass = p /\ job'[w].at = "succs" /\ job'[w].todo = job[w].todo \ {f}
      /\ job'[w] = [pass |-> p, at |-> "succs", todo |-> job[w].todo \ {f}]
  BY <1>0, <1>1 DEF Types
<1>4. WorkerStep(w)
  <2>1. Executing
    BY <1>1, WorkersExecute DEF Idle
  <2> QED
    BY <1>0, <1>1, <1>2, <2>1 DEF WorkerStep, Executing, Types
<1>5. /\ Executing /\ Executing' /\ phase \notin {"build", "compiled"}
      /\ graph' = graph /\ compiled' = compiled /\ Passes' = Passes /\ Edges' = Edges
      /\ \A q : Into(q)' = Into(q) /\ Successors(q)' = Successors(q)
      /\ Compiling' /\ Serial'
      /\ \A v \in Workers : v # w => job'[v] = job[v]
  BY <1>4, WorkerKeeps
<1>6. /\ NoPass \notin Passes /\ Edges \subseteq Nat
      /\ \A e \in Edges : compiled.edges[e].src \in Passes /\ compiled.edges[e].dst \in Passes
  BY <1>0, <1>5, GraphFacts
<1>7. f \in job[w].todo /\ f \in Edges /\ s \in Passes
  <2>1. job[w].todo \subseteq Edges
    BY <1>0 DEF Types
  <2>2. f \in job[w].todo
    BY <1>1, <1>6, <2>1, FirstIs
  <2> QED
    BY <1>6, <2>1, <2>2
<1> HIDE DEF s
<1>8. /\ deps'[s] = deps[s] - 1 /\ deps[s] \in Int
      /\ queue'[s] = (IF deps[s] = 1 THEN queue[s] + 1 ELSE queue[s])
      /\ \A q \in Passes : q # s => deps'[q] = deps[q] /\ queue'[q] = queue[q]
  BY <1>0, <1>1, <1>7 DEF Types
<1>9. Types'
  <2>1. deps' \in [Passes -> Int] /\ queue' \in [Passes -> Nat]
    BY <1>0, <1>1, <1>7 DEF Types
  <2>2. job' \in [Workers -> [pass : Passes \cup {NoPass}, at : {"idle", "body", "succs"},
                              todo : SUBSET Edges]]
    BY <1>0, <1>1 DEF Types
  <2> QED
    BY <1>0, <1>1, <1>5, <2>1, <2>2 DEF Types
<1>10. ASSUME ~overtaken'
       PROVE  Jobs' /\ Once' /\ Counted' /\ Launches' /\ Ending'
  <2>1. Jobs /\ Once /\ Counted /\ Launches /\ Ending
    BY <1>0, <1>1, <1>5, <1>10 DEF Parallel
  <2>2. /\ p \in Passes /\ begun[p] = 1 /\ ended[p] = 1 /\ \A v \in Workers : job[v].pass = p => v = w
        /\ job[w].todo \subseteq Successors(p)
    <3>1. job[w] # Idle
      BY <1>1 DEF Idle
    <3> QED
      BY <1>1, <2>1, <3>1 DEF Jobs
  <2>3. compiled.edges[f].src = p /\ f \in Into(s)
    BY <1>7, <2>2 DEF Successors, Into, s
  <2>4. \A v \in Workers : job'[v].pass = job[v].pass /\ job'[v].at = job[v].at
    BY <1>1, <1>2, <1>5
  <2>5. p = job[w].pass
    OBVIOUS
  <2> HIDE DEF p
  <2>6. Jobs'
    <3>1. ASSUME NEW v \in Workers, job'[v] # Idle
          PROVE  /\ job'[v].pass \in Passes /\ job'[v].at \in {"body", "succs"}
                 /\ begun[job'[v].pass] = 1
                 /\ ended[job'[v].pass] = IF job'[v].at = "body" THEN 0 ELSE 1
                 /\ job'[v].todo \subseteq Successors(job'[v].pass)
                 /\ \A u \in Workers : job'[u].pass = job'[v].pass => u = v
      <4>1. job[v] # Idle
        BY <1>1, <1>5, <3>1 DEF Idle
      <4>2. job'[v].todo \subseteq job[v].todo
        BY <1>2, <1>5
      <4>3. /\ job[v].pass \in Passes /\ job[v].at \in {"body", "succs"}
            /\ begun[job[v].pass] = 1
            /\ ended[job[v].pass] = IF job[v].at = "body" THEN 0 ELSE 1
            /\ job[v].todo \subseteq Successors(job[v].pass)
            /\ \A u \in Workers : job[u].pass = job[v].pass => u = v
        BY <2>1, <4>1 DEF Jobs
      <4> QED
        BY <2>4, <4>2, <4>3
    <3> QED
      BY <1>1, <1>5, <3>1 DEF Jobs, Idle
  <2>7. Held(f) /\ ~Held(f)'
    <3>1. Held(f)
      BY <1>7, <2>3, <2>5 DEF Held
    <3>2. ended'[p] # 0
      BY <1>1, <2>2
    <3>3. \A v \in Workers : job'[v].pass = p => f \notin job'[v].todo
      BY <1>2, <2>2, <2>4
    <3>4. compiled'.edges[f].src = p
      BY <1>5, <2>3
    <3> QED
      BY <3>1, <3>2, <3>3, <3>4 DEF Held
  <2>8. ASSUME NEW e \in Edges, e # f
        PROVE  Held(e)' <=> Held(e)
    <3>1. \A v \in Workers : e \in job'[v].todo <=> e \in job[v].todo
      BY <1>2, <1>5, <2>8
    <3> QED
      BY <1>1, <1>5, <2>4, <3>1 DEF Held
  <2> DEFINE H(q) == {e \in Into(q) : Held(e)}
             K(q) == {e \in Into(q) : Held(e)'}
  <2>9. K(s) = H(s) \ {f} /\ f \in H(s) /\ \A q \in Passes : q # s => K(q) = H(q)
    <3>1. \A q : Into(q) \subseteq Edges
      BY DEF Into
    <3>2. \A q : q # s => f \notin Into(q)
      BY DEF Into, s
    <3>3. K(s) = H(s) \ {f} /\ f \in H(s)
      <4>1. \A e \in Into(s) : e # f => (Held(e)' <=> Held(e))
        BY <2>8, <3>1
      <4> QED
        BY <2>3, <2>7, <4>1
    <3>4. ASSUME NEW q \in Passes, q # s
          PROVE  K(q) = H(q)
      BY <2>8, <3>1, <3>2, <3>4
    <3> QED
      BY <3>3, <3>4
  <2>10. deps[s] = Cardinality(H(s)) /\ deps'[s] = Cardinality(K(s)) /\ deps[s] \in Nat /\ deps[s] # 0
    <3>1. IsFiniteSet(H(s)) /\ Cardinality(H(s)) \in Nat /\ (Cardinality(H(s)) = 0 <=> H(s) = {})
      BY <1>0, <1>5, <1>7, Counts
    <3>2. deps[s] = Cardinality(H(s))
      BY <1>7, <2>1 DEF Counted
    <3>3. Cardinality(K(s)) = Cardinality(H(s)) - 1
      <4>1. Cardinality(H(s) \ {f}) = Cardinality(H(s)) - 1
        <5>1. f \in H(s)
          BY <2>9
        <5> HIDE DEF H
        <5> QED
          BY <3>1, <5>1, FS_RemoveElement
      <4> QED
        BY <2>9, <4>1
    <3> QED
      BY <1>8, <2>9, <3>1, <3>2, <3>3
  <2>11. Counted'
    <3>1. \A q \in Passes : deps'[q] = Cardinality(K(q))
      BY <1>8, <2>1, <2>9, <2>10 DEF Counted
    <3> QED
      BY <1>5, <3>1 DEF Counted
  <2>12. ~Launched(s) /\ Into(s) # {}
    BY <1>7, <2>1, <2>3, <2>10 DEF Launches
  <2>13. queue[s] = 0 /\ begun[s] = 0
    <3>1. queue[s] \in Nat /\ begun[s] \in Nat
      BY <1>0, <1>7 DEF Types
    <3>2. queue[s] + begun[s] <= 1 /\ queue[s] + begun[s] # 1
      BY <1>7, <2>1, <2>12 DEF Once, Launched
    <3> QED
      BY <3>1, <3>2
  <2>14. Once'
    <3>1. ASSUME NEW q \in Passes
          PROVE  /\ queue'[q] + begun[q] <= 1 /\ ended[q] <= begun[q]
                 /\ ended[q] < begun[q] => \E v \in Workers : job'[v].pass = q
      <4>1. /\ queue[q] + begun[q] <= 1 /\ ended[q] <= begun[q]
            /\ ended[q] < begun[q] => \E v \in Workers : job[v].pass = q
        BY <2>1 DEF Once
      <4> QED
        BY <1>8, <2>4, <2>13, <4>1
    <3> QED
      BY <1>1, <1>5, <3>1 DEF Once
  <2>15. Launches'
    <3>1. ASSUME NEW q \in Passes
          PROVE  queue'[q] + begun[q] = 1
                   <=> IF Into(q) = {} THEN \E i \in DOMAIN compiled.sorted :
                                                 i < loop /\ compiled.sorted[i] = q
                                       ELSE deps'[q] = 0
      <4>1. CASE q = s
        BY <1>8, <2>10, <2>12, <2>13, <4>1
      <4>2. CASE q # s
        BY <1>8, <2>1, <4>2 DEF Launches, Launched
      <4> QED
        BY <4>1, <4>2
    <3> QED
      BY <1>1, <1>5, <3>1 DEF Launches, Launched
  <2>16. Ending'
    <3>2. Unfinished' = Unfinished
      BY <1>1, <1>5, <2>4 DEF Unfinished
    <3> QED
      BY <1>1, <2>1, <3>2 DEF Ending
  <2> QED
    BY <2>6, <2>11, <2>14, <2>15, <2>16
<1> QED
  BY <1>5, <1>9, <1>10 DEF ExecInv, Parallel

\* The job ends, the last one with the event.
LEMMA JobEndKeeps ==
    ASSUME ExecInv, NEW w \in Workers, JobEnd(w)
    PROVE  ExecInv'
<1> DEFINE p == job[w].pass
<1>0. Types /\ Parallel /\ Compiling
  BY DEF ExecInv
<1>1. /\ job[w].at = "succs" /\ job[w].todo = {}
      /\ remaining' = remaining - 1
      /\ event' = (event \/ remaining = 1)
      /\ job' = [job EXCEPT ![w] = Idle]
      /\ UNCHANGED <<building, phase, loop, deps, queue, begun, ended, overtaken>>
  BY DEF JobEnd, history
<1>2. job'[w] = Idle
  BY <1>0, <1>1 DEF Types
<1>4. WorkerStep(w)
  <2>1. Executing
    BY <1>1, WorkersExecute DEF Idle
  <2> QED
    BY <1>1, <1>2, <2>1 DEF WorkerStep, Executing
<1>5. /\ Executing /\ Executing' /\ phase \notin {"build", "compiled"}
      /\ graph' = graph /\ compiled' = compiled /\ Passes' = Passes /\ Edges' = Edges
      /\ \A q : Into(q)' = Into(q) /\ Successors(q)' = Successors(q)
      /\ Compiling' /\ Serial'
      /\ \A v \in Workers : v # w => job'[v] = job[v]
  BY <1>4, WorkerKeeps
<1>6. /\ NoPass \notin Passes
      /\ \A e \in Edges : compiled.edges[e].src \in Passes
  BY <1>0, <1>5, GraphFacts
<1>7. Types'
  <2>1. job' \in [Workers -> [pass : Passes \cup {NoPass}, at : {"idle", "body", "succs"},
                              todo : SUBSET Edges]]
    BY <1>0, <1>1 DEF Types, Idle
  <2>2. event' \in BOOLEAN
    BY <1>0, <1>1 DEF Types
  <2>3. remaining' \in Int
    BY <1>0, <1>1 DEF Types
  <2> QED
    BY <1>0, <1>1, <1>5, <2>1, <2>2, <2>3 DEF Types
<1>8. ASSUME ~overtaken'
      PROVE  Jobs' /\ Once' /\ Counted' /\ Launches' /\ Ending'
  <2>1. Jobs /\ Once /\ Counted /\ Launches /\ Ending
    BY <1>0, <1>1, <1>5, <1>8 DEF Parallel
  <2>2. /\ p \in Passes /\ begun[p] = 1 /\ ended[p] = 1 /\ \A v \in Workers : job[v].pass = p => v = w
    <3>1. job[w] # Idle
      BY <1>1 DEF Idle
    <3> QED
      BY <1>1, <2>1, <3>1 DEF Jobs
  <2>3. \A v \in Workers, q \in Passes : job'[v].pass = q <=> job[v].pass = q /\ q # p
    BY <1>2, <1>5, <1>6, <2>2 DEF Idle
  <2>4. \A v \in Workers : job'[v] # Idle => v # w /\ job'[v] = job[v]
    BY <1>2, <1>5
  <2>5. job[w].pass = p
    OBVIOUS
  <2> HIDE DEF p
  <2>6. Jobs'
    <3>1. ASSUME NEW v \in Workers, job'[v] # Idle
          PROVE  /\ job'[v].pass \in Passes /\ job'[v].at \in {"body", "succs"}
                 /\ begun[job'[v].pass] = 1
                 /\ ended[job'[v].pass] = IF job'[v].at = "body" THEN 0 ELSE 1
                 /\ job'[v].todo \subseteq Successors(job'[v].pass)
                 /\ \A u \in Workers : job'[u].pass = job'[v].pass => u = v
      <4>1. job[v] # Idle /\ job'[v] = job[v]
        BY <2>4, <3>1
      <4>3. /\ job[v].pass \in Passes /\ job[v].at \in {"body", "succs"}
            /\ begun[job[v].pass] = 1
            /\ ended[job[v].pass] = IF job[v].at = "body" THEN 0 ELSE 1
            /\ job[v].todo \subseteq Successors(job[v].pass)
            /\ \A u \in Workers : job[u].pass = job[v].pass => u = v
        BY <2>1, <4>1 DEF Jobs
      <4> QED
        BY <2>3, <4>1, <4>3
    <3> QED
      BY <1>1, <1>5, <3>1 DEF Jobs, Idle
  <2>7. Once'
    <3>1. ASSUME NEW q \in Passes
          PROVE  /\ queue[q] + begun[q] <= 1 /\ ended[q] <= begun[q]
                 /\ ended[q] < begun[q] => \E v \in Workers : job'[v].pass = q
      <4>1. /\ queue[q] + begun[q] <= 1 /\ ended[q] <= begun[q]
            /\ ended[q] < begun[q] => \E v \in Workers : job[v].pass = q
        BY <2>1 DEF Once
      <4> QED
        BY <2>2, <2>3, <4>1
    <3> QED
      BY <1>1, <1>5, <3>1 DEF Once
  <2>8. ASSUME NEW e \in Edges
        PROVE  Held(e)' <=> Held(e)
    <3> DEFINE q == compiled.edges[e].src
    <3>0. q \in Passes
      BY <1>6
    <3>1. CASE q = p
      <4>1. ~Held(e)
        BY <1>1, <2>2, <3>1 DEF Held
      <4>2. ~Held(e)'
        BY <1>1, <1>5, <2>2, <2>3, <3>1 DEF Held
      <4> QED
        BY <4>1, <4>2
    <3>2. CASE q # p
      <4>1. \A v \in Workers : job'[v].pass = q <=> job[v].pass = q
        BY <2>3, <3>0, <3>2
      <4>2. \A v \in Workers : job[v].pass = q => job'[v] = job[v]
        BY <1>5, <2>5, <3>2
      <4> QED
        BY <1>1, <1>5, <4>1, <4>2 DEF Held
    <3> QED
      BY <3>1, <3>2
  <2>9. Counted'
    <3>1. \A q \in Passes : {e \in Into(q) : Held(e)'} = {e \in Into(q) : Held(e)}
      BY <2>8 DEF Into
    <3> QED
      BY <1>1, <1>5, <2>1, <3>1 DEF Counted
  <2>10. Launches'
    BY <1>1, <1>5, <2>1 DEF Launches, Launched
  <2>11. Ending'
    <3>1. p \in Unfinished /\ Unfinished' = Unfinished \ {p}
      BY <1>1, <1>5, <2>2, <2>3, <2>5 DEF Unfinished
    <3>2. /\ IsFiniteSet(Unfinished) /\ Cardinality(Unfinished) \in Nat
          /\ (Cardinality(Unfinished) = 0 <=> Unfinished = {})
      BY <1>0, <1>5, UnfinishedFinite
    <3>3. Cardinality(Unfinished') = Cardinality(Unfinished) - 1
      BY <3>1, <3>2, FS_RemoveElement
    <3>4. Cardinality(Unfinished) # 0
      BY <3>1, <3>2
    <3>5. remaining = Cardinality(Unfinished) /\ (event <=> remaining = 0)
      BY <2>1 DEF Ending
    <3>6. ~event
      BY <3>4, <3>5
    <3>7. remaining' = Cardinality(Unfinished') /\ (remaining = 1 <=> remaining' = 0)
      BY <1>1, <3>2, <3>3, <3>5
    <3>8. event' <=> remaining' = 0
      BY <1>1, <3>6, <3>7
    <3> QED
      BY <3>7, <3>8 DEF Ending
  <2> QED
    BY <2>6, <2>7, <2>9, <2>10, <2>11
<1> QED
  BY <1>5, <1>7, <1>8 DEF ExecInv, Parallel

\* A sequence that is given as a function on 1..n.
LEMMA AppendTo ==
    ASSUME NEW n \in Nat, NEW T, NEW f \in [1..n -> T], NEW x \in T
    PROVE  /\ Append(f, x) \in [1..(n + 1) -> T] /\ Len(f) = n
           /\ \A i \in 1..n : Append(f, x)[i] = f[i]
           /\ Append(f, x)[n + 1] = x
<1>1. f \in Seq(T) /\ Len(f) \in Nat /\ DOMAIN f = 1..Len(f)
  BY LenProperties, IsASeq
<1>2. Len(f) = n
  BY <1>1
<1>3. Append(f, x) \in Seq(T) /\ Len(Append(f, x)) = n + 1
      /\ (\A i \in 1..n : Append(f, x)[i] = f[i])
      /\ Append(f, x)[n + 1] = x
  BY <1>1, <1>2, AppendProperties
<1>4. Append(f, x) \in [1..(n + 1) -> T]
  BY <1>3, LenProperties
<1> QED
  BY <1>2, <1>3, <1>4

\* Importing a resource keeps the declared accesses valid.
LEMMA ImportKeeps ==
    ASSUME ExecInv, importResource
    PROVE  ExecInv'
<1>1. /\ phase = "build" /\ graph' = [graph EXCEPT !.resources = @ + 1]
      /\ UNCHANGED <<compiled, phase, loop, deps, remaining, queue, job, event, begun, ended, overtaken>>
  BY DEF importResource, counters, history
<1>2. Types /\ Compiling /\ Serial /\ Built(graph) /\ compiled = NoGraph
  BY <1>1 DEF ExecInv, Compiling
<1>3. graph \in [resources : Nat, passes : Seq(Pass)]
  BY <1>2 DEF Built
<1>4. graph'.passes = graph.passes /\ graph'.resources = graph.resources + 1
  BY <1>1, <1>3
<1>5. Passes' = Passes /\ Edges' = Edges
  BY <1>1, <1>4 DEF Passes, Edges
<1>6. Built(graph)'
  <2>1. ASSUME NEW p \in DOMAIN graph.passes, NEW i \in DOMAIN graph.passes[p].accesses
        PROVE  graph.passes[p].accesses[i].resource \in Nat
    <3>1. graph.passes[p] \in Pass
      BY <1>3, ElementOfSeq
    <3>2. graph.passes[p].accesses \in Seq(Access)
      BY <3>1 DEF Pass
    <3>3. graph.passes[p].accesses[i] \in Access
      BY <3>2, ElementOfSeq
    <3> QED
      BY <3>3 DEF Access
  <2>2. \A p \in DOMAIN graph.passes : \A i \in DOMAIN graph.passes[p].accesses :
           graph.passes[p].accesses[i].resource <= graph.resources + 1
    BY <1>2, <1>3, <2>1 DEF Built
  <2>3. graph' \in [resources : Nat, passes : Seq(Pass)]
    BY <1>1, <1>3
  <2> QED
    BY <1>4, <2>2, <2>3 DEF Built
<1>7. Types'
  BY <1>1, <1>2, <1>5 DEF Types
<1>8. Compiling'
  BY <1>1, <1>2, <1>4, <1>6 DEF Compiling
<1>9. Serial' /\ Parallel'
  BY <1>1, <1>2, <1>5 DEF Serial, Parallel, Executing
<1> QED
  BY <1>7, <1>8, <1>9 DEF ExecInv

\* A declared pass names resources that were imported.
LEMMA AddKeeps ==
    ASSUME ExecInv, addPass
    PROVE  ExecInv'
<1>1. /\ phase = "build" /\ Len(graph.passes) < MaxPasses
      /\ deps' = Append(deps, 0) /\ queue' = Append(queue, 0)
      /\ begun' = Append(begun, 0) /\ ended' = Append(ended, 0)
      /\ UNCHANGED <<compiled, phase, loop, remaining, job, event, overtaken>>
  BY DEF addPass
<1>2. PICK d \in Decls : /\ \A a \in ToSet(d.accesses) : a.resource <= graph.resources
                         /\ graph' = [graph EXCEPT !.passes = Append(@, d)]
  BY DEF addPass
<1>3. Types /\ Compiling /\ Serial /\ Built(graph) /\ compiled = NoGraph
  BY <1>1 DEF ExecInv, Compiling
<1>4. graph \in [resources : Nat, passes : Seq(Pass)] /\ d \in Pass
  BY <1>3, GraphAssumption DEF Built
<1> DEFINE n == Len(graph.passes)
<1>5. n \in Nat /\ Passes = 1..n
  BY <1>4, LenProperties DEF Passes
<1>6. /\ graph'.passes = Append(graph.passes, d) /\ graph'.resources = graph.resources
      /\ graph' \in [resources : Nat, passes : Seq(Pass)]
  BY <1>2, <1>4
<1>7. /\ Len(graph'.passes) = n + 1 /\ Passes' = 1..(n + 1)
      /\ \A p \in 1..n : graph'.passes[p] = graph.passes[p]
      /\ graph'.passes[n + 1] = d
  BY <1>4, <1>6, AppendProperties, LenProperties DEF Passes
<1>8. Built(graph)'
  <2>1. ASSUME NEW p \in 1..(n + 1), NEW i \in DOMAIN graph'.passes[p].accesses
        PROVE  graph'.passes[p].accesses[i].resource <= graph.resources
    <3>1. CASE p = n + 1
      BY <1>2, <1>7, <2>1, <3>1 DEF ToSet
    <3>2. CASE p # n + 1
      <4>1. p \in 1..n
        BY <1>5, <3>2
      <4> QED
        BY <1>3, <1>5, <1>7, <2>1, <4>1 DEF Built, Passes
    <3> QED
      BY <3>1, <3>2
  <2> QED
    BY <1>6, <1>7, <2>1 DEF Built, Passes
<1>9. Compiling'
  BY <1>1, <1>3, <1>5, <1>7, <1>8, GraphAssumption DEF Compiling
<1>10. /\ deps' \in [Passes' -> Int] /\ queue' \in [Passes' -> Nat]
       /\ begun' \in [Passes' -> Nat] /\ ended' \in [Passes' -> Nat]
       /\ \A p \in Passes' : queue'[p] = 0 /\ begun'[p] = 0 /\ ended'[p] = 0
  <2>1. /\ deps \in [1..n -> Int] /\ queue \in [1..n -> Nat]
        /\ begun \in [1..n -> Nat] /\ ended \in [1..n -> Nat]
    BY <1>3, <1>5 DEF Types
  <2>2. \A p \in 1..n : queue[p] = 0 /\ begun[p] = 0 /\ ended[p] = 0
    BY <1>1, <1>3, <1>5 DEF Serial, Executing
  <2>3. \A p \in 1..(n + 1) : p \in 1..n \/ p = n + 1
    BY <1>5
  <2>4. 0 \in Nat /\ 0 \in Int
    OBVIOUS
  <2> HIDE DEF n
  <2>5. n \in Nat
    BY <1>5
  <2>6. ASSUME NEW T, NEW f \in [1..n -> T], 0 \in T
         PROVE  Append(f, 0) \in [1..(n + 1) -> T] /\ ((\A i \in 1..n : f[i] = 0) => \A i \in 1..(n + 1) : Append(f, 0)[i] = 0)
    BY <2>5, <2>3, <2>6, AppendTo
  <2>7. deps' \in [1..(n + 1) -> Int]
    BY <1>1, <2>1, <2>2, <2>4, <2>6
  <2>8. queue' \in [1..(n + 1) -> Nat] /\ \A p \in 1..(n + 1) : queue'[p] = 0
    BY <1>1, <2>1, <2>2, <2>4, <2>6
  <2>9. begun' \in [1..(n + 1) -> Nat] /\ \A p \in 1..(n + 1) : begun'[p] = 0
    BY <1>1, <2>1, <2>2, <2>4, <2>6
  <2>10. ended' \in [1..(n + 1) -> Nat] /\ \A p \in 1..(n + 1) : ended'[p] = 0
    BY <1>1, <2>1, <2>2, <2>4, <2>6
  <2> QED
    BY <1>7, <2>7, <2>8, <2>9, <2>10
<1>11. Types'
  <2>1. Passes \subseteq Passes' /\ Edges' = Edges
    BY <1>1, <1>5, <1>7 DEF Edges
  <2>2. job' \in [Workers -> [pass : Passes' \cup {NoPass}, at : {"idle", "body", "succs"},
                              todo : SUBSET Edges']]
    BY <1>1, <1>3, <2>1 DEF Types
  <2> QED
    BY <1>1, <1>3, <1>10, <2>2 DEF Types
<1>12. Serial' /\ Parallel'
  BY <1>1, <1>3, <1>10 DEF Serial, Parallel, Executing
<1> QED
  BY <1>9, <1>11, <1>12 DEF ExecInv

\* Compiling starts nothing.
LEMMA CompileKeeps ==
    ASSUME ExecInv, Compile
    PROVE  ExecInv'
<1>1. /\ phase = "build" /\ phase' = "compiled" /\ compiled' = compile(graph)
      /\ UNCHANGED <<graph, loop, deps, remaining, queue, job, event, begun, ended, overtaken>>
  BY DEF Compile, counters, history
<1>2. Types /\ Compiling /\ Serial /\ Passes' = Passes
  BY <1>1 DEF ExecInv, Passes
<1>3. \A w \in Workers : job[w] = Idle
  BY <1>1, <1>2 DEF Serial, Executing
<1>4. job' \in [Workers -> [pass : Passes' \cup {NoPass}, at : {"idle", "body", "succs"},
                            todo : SUBSET Edges']]
  <2>1. Idle \in [pass : Passes' \cup {NoPass}, at : {"idle", "body", "succs"}, todo : SUBSET Edges']
    BY DEF Idle
  <2> QED
    BY <1>1, <1>2, <1>3, <2>1 DEF Types
<1>5. Types'
  BY <1>1, <1>2, <1>4 DEF Types
<1>6. Compiling'
  BY <1>1, <1>2 DEF Compiling
<1>7. Serial' /\ Parallel'
  BY <1>1, <1>2 DEF Serial, Parallel, Executing
<1> QED
  BY <1>5, <1>6, <1>7 DEF ExecInv

\* executeInline() starts with the first pass.
LEMMA InlineStartKeeps ==
    ASSUME ExecInv, executeInline
    PROVE  ExecInv'
<1>1. /\ phase = "compiled" /\ phase' = "inline" /\ valid(compiled)
      /\ UNCHANGED <<graph, compiled, loop, deps, remaining, queue, job, event, begun, ended, overtaken>>
  BY DEF executeInline, building, counters, history
<1>2. Types /\ Compiling /\ Serial /\ Passes' = Passes /\ Edges' = Edges
  BY <1>1 DEF ExecInv, Passes, Edges
<1>3. Compiling' /\ Types'
  BY <1>1, <1>2 DEF Compiling, Types
<1>4. \A i \in DOMAIN compiled.sorted : compiled.sorted[i] \in Passes /\ ~(i < 1)
  BY <1>1, <1>2, ReadyFacts
<1>5. Serial'
  BY <1>1, <1>2, <1>4 DEF Serial, Executing
<1> QED
  BY <1>1, <1>3, <1>5 DEF ExecInv, Parallel, Executing

\* The passes on the caller's thread, one after the other.
LEMMA InlineBeginKeeps ==
    ASSUME ExecInv, InlineBegin
    PROVE  ExecInv'
<1>1. /\ phase = "inline"
      /\ UNCHANGED <<building, loop, deps, remaining, queue, job, event, ended, overtaken>>
  BY DEF InlineBegin, counters
<1>2. Types /\ Compiling /\ Serial /\ phase \notin {"build", "compiled"} /\ ~Executing
  BY <1>1 DEF ExecInv, Executing
<1>3. graph' = graph /\ compiled' = compiled /\ Passes' = Passes /\ Edges' = Edges
  BY <1>1, SameGraph
<1>4. /\ \A i \in DOMAIN compiled.sorted : compiled.sorted[i] \in Passes
      /\ \A i, j \in DOMAIN compiled.sorted : compiled.sorted[i] = compiled.sorted[j] => i = j
      /\ DOMAIN compiled.sorted \subseteq Nat
  BY <1>2, GraphFacts DEF Ordered
<1>5. CASE loop \notin DOMAIN compiled.sorted
  <2>1. phase' = "ran" /\ begun' = begun
    BY <1>5 DEF InlineBegin
  <2>2. Types' /\ Compiling'
    BY <1>1, <1>2, <1>3, <2>1 DEF Types, Compiling
  <2>3. Serial'
    BY <1>1, <1>2, <1>3, <2>1 DEF Serial, Executing
  <2> QED
    BY <2>1, <2>2, <2>3 DEF ExecInv, Parallel, Executing
<1>6. CASE loop \in DOMAIN compiled.sorted
  <2> DEFINE p == compiled.sorted[loop]
  <2>1. phase' = "body" /\ begun' = [begun EXCEPT ![p] = @ + 1]
    BY <1>6 DEF InlineBegin
  <2>2. p \in Passes
    BY <1>4, <1>6
  <2>3. \A i \in DOMAIN compiled.sorted :
           /\ begun[compiled.sorted[i]] = IF i < loop THEN 1 ELSE 0
           /\ ended[compiled.sorted[i]] = IF i < loop THEN 1 ELSE 0
    BY <1>1, <1>2 DEF Serial
  <2>4. begun[p] = 0
    BY <1>4, <1>6, <2>3
  <2>5. begun' \in [Passes -> Nat] /\ begun'[p] = 1
        /\ \A q \in Passes : q # p => begun'[q] = begun[q]
    BY <1>2, <2>1, <2>2, <2>4 DEF Types
  <2>6. Types' /\ Compiling'
    BY <1>1, <1>2, <1>3, <2>1, <2>5 DEF Types, Compiling
  <2>7. \A i \in DOMAIN compiled.sorted :
           /\ begun'[compiled.sorted[i]] = IF i < loop \/ i = loop THEN 1 ELSE 0
    BY <1>4, <1>6, <2>3, <2>5
  <2>8. Serial'
    BY <1>1, <1>2, <1>3, <1>6, <2>1, <2>3, <2>7 DEF Serial, Executing
  <2> QED
    BY <2>1, <2>6, <2>8 DEF ExecInv, Parallel, Executing
<1> QED
  BY <1>5, <1>6

\* The callback of the pass at the loop's position returns.
LEMMA InlineEndKeeps ==
    ASSUME ExecInv, InlineEnd
    PROVE  ExecInv'
<1> DEFINE p == compiled.sorted[loop]
<1>1. /\ phase = "body" /\ phase' = "inline" /\ loop' = loop + 1
      /\ ended' = [ended EXCEPT ![p] = @ + 1]
      /\ UNCHANGED <<building, deps, remaining, queue, job, event, begun, overtaken>>
  BY DEF InlineEnd, counters
<1>2. Types /\ Compiling /\ Serial /\ phase \notin {"build", "compiled"} /\ ~Executing
  BY <1>1 DEF ExecInv, Executing
<1>3. graph' = graph /\ compiled' = compiled /\ Passes' = Passes /\ Edges' = Edges
  BY <1>1, SameGraph
<1>4. /\ \A i \in DOMAIN compiled.sorted : compiled.sorted[i] \in Passes
      /\ \A i, j \in DOMAIN compiled.sorted : compiled.sorted[i] = compiled.sorted[j] => i = j
      /\ DOMAIN compiled.sorted \subseteq Nat
  BY <1>2, GraphFacts DEF Ordered
<1>5. loop \in DOMAIN compiled.sorted /\ p \in Passes /\ loop \in Nat
  BY <1>1, <1>2, <1>4 DEF Serial
<1>6. \A i \in DOMAIN compiled.sorted :
         /\ begun[compiled.sorted[i]] = IF i < loop \/ i = loop THEN 1 ELSE 0
         /\ ended[compiled.sorted[i]] = IF i < loop THEN 1 ELSE 0
  BY <1>1, <1>2 DEF Serial
<1>7. ended[p] = 0
  BY <1>5, <1>6
<1>8. ended' \in [Passes -> Nat] /\ ended'[p] = 1
      /\ \A q \in Passes : q # p => ended'[q] = ended[q]
  BY <1>1, <1>2, <1>5, <1>7 DEF Types
<1>9. Types' /\ Compiling'
  BY <1>1, <1>2, <1>3, <1>5, <1>8 DEF Types, Compiling
<1>10. \A i \in DOMAIN compiled.sorted :
         /\ begun[compiled.sorted[i]] = IF i < loop + 1 THEN 1 ELSE 0
         /\ ended'[compiled.sorted[i]] = IF i < loop + 1 THEN 1 ELSE 0
  <2>1. ASSUME NEW i \in DOMAIN compiled.sorted
        PROVE  i < loop + 1 <=> i < loop \/ i = loop
    BY <1>4, <1>5
  <2> QED
    BY <1>4, <1>5, <1>6, <1>8, <2>1
<1>11. Serial'
  BY <1>1, <1>2, <1>3, <1>10 DEF Serial, Executing
<1> QED
  BY <1>1, <1>9, <1>11 DEF ExecInv, Parallel, Executing

\* execute() counts the predecessors; no pass is launched yet.
LEMMA ExecuteKeeps ==
    ASSUME ExecInv, execute
    PROVE  ExecInv'
<1>1. /\ phase = "compiled" /\ phase' = "roots" /\ valid(compiled)
      /\ deps' = Dependencies /\ remaining' = Len(compiled.sorted)
      /\ UNCHANGED <<building, loop, queue, job, event, begun, ended, overtaken>>
  BY DEF execute, history
<1>2. Types /\ Compiling /\ Serial /\ ~Executing
  BY <1>1 DEF ExecInv, Executing
<1>3. /\ graph' = graph /\ compiled' = compiled /\ Passes' = Passes /\ Edges' = Edges
      /\ \A p : Into(p)' = Into(p)
  BY <1>1, SameGraph
<1>4. /\ Passes = 1..Len(graph.passes) /\ Len(graph.passes) \in Nat
      /\ DOMAIN compiled.sorted = 1..Len(graph.passes)
      /\ \A e \in Edges : compiled.edges[e].src \in Passes
      /\ \A p : IsFiniteSet(Into(p)) /\ Into(p) \subseteq Edges
      /\ compiled.sorted \in [1..Len(graph.passes) -> Passes]
  BY <1>1, <1>2, ReadyFacts DEF Ordered, Passes
<1>5. \A p \in Passes : Dependencies[p] = Cardinality(Into(p)) /\ Dependencies[p] \in Nat
                        /\ (Dependencies[p] = 0 <=> Into(p) = {})
  BY <1>4, DependenciesCount
<1>6. Len(compiled.sorted) = Len(graph.passes) /\ Len(graph.passes) # 0
  <2>1. compiled.sorted \in Seq(Passes)
    BY <1>4, IsASeq
  <2>2. Len(compiled.sorted) \in Nat /\ DOMAIN compiled.sorted = 1..Len(compiled.sorted)
    BY <2>1, LenProperties
  <2>3. Len(compiled.sorted) = Len(graph.passes)
    BY <1>4, <2>2
  <2>4. Len(compiled.sorted) # 0
    BY <1>1, <2>1, EmptySeq DEF valid
  <2> QED
    BY <2>3, <2>4
<1>7. /\ \A p \in Passes : queue[p] = 0 /\ begun[p] = 0 /\ ended[p] = 0
      /\ \A w \in Workers : job[w] = Idle
      /\ ~event /\ loop = 1
  BY <1>1, <1>2 DEF Serial
<1>8. Types'
  <2>1. Dependencies \in [Passes -> Int]
    <3>1. Dependencies = [p \in Passes |-> Dependencies[p]]
      BY DEF Dependencies
    <3> QED
      BY <1>5, <3>1
  <2> QED
    BY <1>1, <1>2, <1>3, <1>4, <1>6, <2>1 DEF Types
<1>9. Compiling' /\ Serial' /\ Executing'
  BY <1>1, <1>2, <1>3 DEF Compiling, Serial, Executing
<1>10. Jobs' /\ Once'
  BY <1>1, <1>3, <1>7 DEF Jobs, Once
<1>11. \A e \in Edges : Held(e)'
  BY <1>1, <1>3, <1>4, <1>7 DEF Held
<1>12. Counted'
  <2>1. \A p \in Passes : {e \in Into(p) : Held(e)'} = Into(p)
    BY <1>4, <1>11
  <2> QED
    BY <1>1, <1>3, <1>5, <2>1 DEF Counted
<1>13. Launches'
  <2>1. \A i \in DOMAIN compiled.sorted : ~(i < 1)
    BY <1>4
  <2>2. \A p \in Passes : ~Launched(p)'
    BY <1>1, <1>3, <1>7 DEF Launched
  <2> QED
    BY <1>1, <1>3, <1>5, <1>7, <2>1, <2>2 DEF Launches
<1>14. Ending'
  <2>1. Unfinished' = Passes
    BY <1>1, <1>3, <1>7 DEF Unfinished
  <2>2. Cardinality(Passes) = Len(graph.passes)
    BY <1>4, FS_Interval
  <2> QED
    BY <1>1, <1>4, <1>6, <1>7, <2>1, <2>2 DEF Ending
<1> QED
  BY <1>8, <1>9, <1>10, <1>12, <1>13, <1>14 DEF ExecInv, Parallel

\* Nothing is declared and nothing runs.
LEMMA InitExec ==
    ASSUME Init
    PROVE  ExecInv
<1>1. /\ graph = [resources |-> 0, passes |-> <<>>] /\ compiled = NoGraph
      /\ phase = "build" /\ loop = 1 /\ deps = <<>> /\ remaining = 0 /\ queue = <<>>
      /\ job = [w \in Workers |-> Idle] /\ event = FALSE
      /\ begun = <<>> /\ ended = <<>> /\ overtaken = FALSE
  BY DEF Init
<1>2. Passes = {} /\ graph.passes = <<>>
  BY <1>1 DEF Passes
<1>3. Types
  <2>1. /\ deps \in [Passes -> Int] /\ queue \in [Passes -> Nat]
        /\ begun \in [Passes -> Nat] /\ ended \in [Passes -> Nat]
    BY <1>1, <1>2
  <2>2. job \in [Workers -> [pass : Passes \cup {NoPass}, at : {"idle", "body", "succs"},
                             todo : SUBSET Edges]]
    BY <1>1 DEF Idle
  <2>3. event \in BOOLEAN /\ overtaken \in BOOLEAN
    BY <1>1
  <2> QED
    BY <1>1, <2>1, <2>2, <2>3 DEF Types
<1>4. Compiling
  <2>1. Built(graph)
    BY <1>1, <1>2 DEF Built
  <2>2. Len(graph.passes) <= MaxPasses
    BY <1>2, GraphAssumption
  <2> QED
    BY <1>1, <2>1, <2>2 DEF Compiling
<1>5. Serial /\ Parallel
  BY <1>1, <1>2 DEF Serial, Parallel, Executing
<1> QED
  BY <1>3, <1>4, <1>5 DEF ExecInv

\* Every step keeps the invariant.
LEMMA NextExec ==
    ASSUME ExecInv, [Next]_vars
    PROVE  ExecInv'
<1>1. CASE importResource
  BY <1>1, ImportKeeps
<1>2. CASE addPass
  BY <1>2, AddKeeps
<1>3. CASE Compile
  BY <1>3, CompileKeeps
<1>4. CASE executeInline
  BY <1>4, InlineStartKeeps
<1>5. CASE execute
  BY <1>5, ExecuteKeeps
<1>6. CASE InlineBegin
  BY <1>6, InlineBeginKeeps
<1>7. CASE InlineEnd
  BY <1>7, InlineEndKeeps
<1>8. CASE RootLoop
  BY <1>8, RootLoopKeeps
<1>9. ASSUME NEW w \in Workers, Worker(w)
      PROVE  ExecInv'
  BY <1>9, JobBeginKeeps, JobReturnsKeeps, JobReleasesKeeps, JobEndKeeps DEF Worker
<1>10. CASE UNCHANGED vars
  <2>1. /\ graph' = graph /\ compiled' = compiled /\ Passes' = Passes /\ Edges' = Edges
        /\ \A p : Into(p)' = Into(p) /\ Successors(p)' = Successors(p)
    BY <1>10, SameGraph DEF vars, building
  <2>2. /\ UNCHANGED <<phase, loop, deps, remaining, queue, job, event, begun, ended, overtaken>>
    BY <1>10 DEF vars
  <2>3. Types' /\ Compiling' /\ Serial'
    BY <2>1, <2>2 DEF ExecInv, Types, Compiling, Serial, Executing
  <2>4. Parallel'
    BY <2>1, <2>2 DEF ExecInv, Parallel, Executing, Jobs, Once, Counted, Held, Launches, Launched,
                      Ending, Unfinished
  <2> QED
    BY <2>3, <2>4 DEF ExecInv
<1> QED
  BY <1>1, <1>2, <1>3, <1>4, <1>5, <1>6, <1>7, <1>8, <1>9, <1>10 DEF Next, Client

\* The invariant holds throughout.
LEMMA ExecAlways == Spec => []ExecInv
<1>1. Init => ExecInv
  BY InitExec
<1>2. ExecInv /\ [Next]_vars => ExecInv'
  BY NextExec
<1> QED
  BY <1>1, <1>2, PTL DEF Spec

-----------------------------------------------------------------------------
(* What the executors promise.                                               *)

\* The end of the last job completes the event: when it is completed each pass
\* has been entered and has returned once, none is queued and no worker has a
\* job, unless the root loop of execute() launched a pass twice.
THEOREM EventLast == Spec => []EventIsLast
<1>1. ExecInv => EventIsLast
  <2> SUFFICES ASSUME ExecInv, event, ~overtaken
               PROVE  /\ \A p \in Passes : begun[p] = 1 /\ ended[p] = 1 /\ queue[p] = 0
                      /\ \A w \in Workers : job[w] = Idle
    BY DEF EventIsLast
  <2>1. Types /\ Compiling /\ Executing /\ Jobs /\ Once /\ Ending
    BY DEF ExecInv, Serial, Parallel
  <2>2. Unfinished = {}
    <3>1. phase \notin {"build", "compiled"}
      BY <2>1 DEF Executing
    <3> QED
      BY <2>1, <3>1, UnfinishedFinite DEF Ending
  <2>3. ASSUME NEW p \in Passes
        PROVE  begun[p] = 1 /\ ended[p] = 1 /\ queue[p] = 0
    <3>1. ended[p] # 0
      BY <2>2 DEF Unfinished
    <3>2. queue[p] + begun[p] <= 1 /\ ended[p] <= begun[p]
      BY <2>1 DEF Once
    <3>3. queue[p] \in Nat /\ begun[p] \in Nat /\ ended[p] \in Nat
      BY <2>1 DEF Types
    <3> QED
      BY <3>1, <3>2, <3>3
  <2>4. ASSUME NEW w \in Workers, job[w] # Idle
        PROVE  FALSE
    <3>1. job[w].pass \in Passes
      BY <2>1, <2>4 DEF Jobs
    <3>2. job[w].pass \in Unfinished
      BY <3>1 DEF Unfinished
    <3> QED
      BY <2>2, <3>2
  <2> QED
    BY <2>3, <2>4
<1> QED
  BY <1>1, ExecAlways, PTL

\* Of two passes that conflict the one declared later is entered only after the
\* other has returned, by executeInline() as by CpuGraphExecutor, unless the root
\* loop launched a pass twice: an edge joins them, and the jobs' counters honour
\* every edge.
THEOREM ConflictsOrdered == Spec => []ConflictsInOrder
<1>1. ExecInv => ConflictsInOrder
  <2> SUFFICES ASSUME ExecInv, ~overtaken, NEW p \in Passes, NEW q \in Passes,
                      p < q, Conflict(graph, p, q), begun[q] > 0
               PROVE  begun[p] = 1 /\ ended[p] = 1
    BY DEF ConflictsInOrder
  <2>1. Types /\ Compiling /\ Serial /\ Parallel
    BY DEF ExecInv
  <2>2. phase \notin {"build", "compiled"}
    BY <2>1 DEF Serial, Executing
  <2>3. /\ Ordered(graph, compiled)
        /\ DOMAIN compiled.sorted \subseteq Nat
    BY <2>1, <2>2, GraphFacts
  <2>4. PICK e \in Edges : compiled.edges[e].src = p /\ compiled.edges[e].dst = q
    BY <2>3 DEF Ordered, Passes, Edges
  <2>5. CASE Executing
    <3>1. Jobs /\ Once /\ Counted /\ Launches
      BY <2>1, <2>5 DEF Parallel
    <3>2. e \in Into(q)
      BY <2>4 DEF Into
    <3>3. queue[q] \in Nat /\ begun[q] \in Nat /\ begun[p] \in Nat /\ ended[p] \in Nat /\ queue[p] \in Nat
      BY <2>1 DEF Types
    <3>4. Launched(q)
      <4>1. queue[q] + begun[q] <= 1
        BY <3>1 DEF Once
      <4> QED
        BY <3>3, <4>1 DEF Launched
    <3>5. deps[q] = 0
      BY <3>1, <3>2, <3>4 DEF Launches
    <3>6. {d \in Into(q) : Held(d)} = {}
      BY <2>1, <2>2, <3>1, <3>5, Counts DEF Counted
    <3>7. ended[p] # 0
      BY <2>4, <3>2, <3>6 DEF Held
    <3>8. queue[p] + begun[p] <= 1 /\ ended[p] <= begun[p]
      BY <3>1 DEF Once
    <3> QED
      BY <3>3, <3>7, <3>8
  <2>6. CASE ~Executing
    <3>1. PICK i, j \in DOMAIN compiled.sorted :
             i < j /\ compiled.sorted[i] = p /\ compiled.sorted[j] = q
      BY <2>3, <2>4 DEF Ordered, Edges
    <3>2. \A k \in DOMAIN compiled.sorted :
              /\ begun[compiled.sorted[k]] = IF k < loop \/ (k = loop /\ phase = "body") THEN 1 ELSE 0
              /\ ended[compiled.sorted[k]] = IF k < loop THEN 1 ELSE 0
      BY <2>1, <2>2, <2>6 DEF Serial, Types, Executing
    <3>3. j < loop \/ j = loop
      BY <3>1, <3>2
    <3>4. i < loop
      BY <2>1, <2>3, <3>1, <3>3 DEF Types
    <3> QED
      BY <3>1, <3>2, <3>4
  <2> QED
    BY <2>5, <2>6
<1> QED
  BY <1>1, ExecAlways, PTL

\* compile() refuses a graph exactly when it is empty or one of its passes declares
\* two accesses that conflict with each other: rawEdges() joins a pass to those it
\* conflicts with that are declared no earlier, so that Kahn's algorithm can only
\* get stuck on a self-edge.
THEOREM CompileRefuses == Spec => []CompileAnswers
<1>1. ExecInv => CompileAnswers
  <2> SUFFICES ASSUME ExecInv, phase # "build"
               PROVE  valid(compiled) <=> Passes # {} /\ \A p \in Passes : ~Conflict(graph, p, p)
    BY DEF CompileAnswers
  <2>1. Built(graph) /\ compiled = compile(graph)
    BY DEF ExecInv, Compiling
  <2>2. valid(compile(graph)) <=>
           DOMAIN graph.passes # {} /\ \A p \in DOMAIN graph.passes : ~Conflict(graph, p, p)
    BY <2>1, CompileValid
  <2> QED
    BY <2>1, <2>2 DEF Passes
<1> QED
  BY <1>1, ExecAlways, PTL

\* A compiled graph is the answer of compile() to a graph that a client built.
LEMMA CompiledBy ==
    ASSUME ExecInv, valid(compiled)
    PROVE  Built(graph) /\ compiled = compile(graph) /\ valid(compile(graph))
<1>1. Built(graph) /\ (compiled = IF phase = "build" THEN NoGraph ELSE compile(graph))
  BY DEF ExecInv, Compiling
<1>2. compiled # NoGraph
  BY DEF valid, NoGraph
<1> QED
  BY <1>1, <1>2

\* The sort takes the ready pass of the highest priority: one of lower priority
\* comes earlier only if the other still waited for a pass in between.
THEOREM PrioritiesHold == Spec => []PriorityFirst
<1>1. ExecInv => PriorityFirst
  <2> SUFFICES ASSUME ExecInv, valid(compiled)
               PROVE  PriorityFirst
    BY DEF PriorityFirst
  <2>1. Built(graph) /\ compiled = compile(graph) /\ valid(compile(graph))
    BY CompiledBy
  <2>2. \A i, j \in DOMAIN compiled.sorted :
           i < j /\ graph.passes[compiled.sorted[j]].priority > graph.passes[compiled.sorted[i]].priority =>
           \E k \in i..(j - 1) : compiled.sorted[k] \in preds(compiled.edges, compiled.sorted[j])
    BY <2>1, CompilePriorities
  <2> QED
    BY <2>2 DEF PriorityFirst
<1> QED
  BY <1>1, ExecAlways, PTL

\* The timelines of the lanes and the cross-lane edges are enough to honour every
\* conflict, and they follow one order of the passes: assignLanes() puts each pass
\* on one lane of its queue class, and a timeline keeps the order of the sort.
THEOREM LanesAreEnough == Spec => []LanesSuffice
<1>1. ExecInv => LanesSuffice
  <2> SUFFICES ASSUME ExecInv, valid(compiled)
               PROVE  LanesSuffice
    BY DEF LanesSuffice
  <2>1. Built(graph) /\ compiled = compile(graph) /\ valid(compile(graph))
    BY CompiledBy
  <2>2. LanesHonour(graph, compiled)
    BY <2>1, CompileLanes
  <2> QED
    BY <2>2 DEF LanesHonour, LanesSuffice, Position, Passes
<1> QED
  BY <1>1, ExecAlways, PTL

-----------------------------------------------------------------------------
(* Types.                                                                    *)

\* The client's position stays in the passes, which are declared ones.
Declared ==
    /\ graph.resources <= MaxResources /\ graph.passes \in Seq(Decls)
    /\ loop \in 1..(Len(graph.passes) + 1)

\* They stay declared ones, with room for one more position after the last.
LEMMA DeclaredAlways == Spec => []Declared
<1>1. Init => Declared
  <2> SUFFICES ASSUME Init
               PROVE  Declared
    OBVIOUS
  <2>1. graph.resources = 0 /\ graph.passes = <<>> /\ loop = 1
    BY DEF Init
  <2>2. <<>> \in Seq(Decls) /\ Len(<<>>) = 0
    OBVIOUS
  <2> QED
    BY <2>1, <2>2, GraphAssumption DEF Declared
<1>2. ExecInv /\ Declared /\ [Next]_vars => Declared'
  <2> SUFFICES ASSUME ExecInv, Declared, [Next]_vars
               PROVE  Declared'
    OBVIOUS
  <2>1. PICK n \in Nat : n = Len(graph.passes)
    BY LenProperties DEF Declared
  <2>2. graph.passes \in Seq(Decls) /\ graph.resources <= MaxResources /\ loop \in 1..(n + 1)
    BY <2>1 DEF Declared
  <2>3. graph \in [resources : Nat, passes : Seq(Pass)]
    BY DEF ExecInv, Compiling, Built
  <2>4. CASE UNCHANGED <<graph, loop>>
    BY <2>2, <2>4 DEF Declared
  <2>5. CASE importResource
    <3>1. graph' = [graph EXCEPT !.resources = @ + 1] /\ graph.resources < MaxResources /\ loop' = loop
      BY <2>5 DEF importResource
    <3>2. graph'.passes = graph.passes /\ graph'.resources = graph.resources + 1
      BY <2>3, <3>1
    <3>3. graph'.resources <= MaxResources
      BY <2>3, <3>1, <3>2, GraphAssumption
    <3> QED
      BY <2>1, <2>2, <3>1, <3>2, <3>3 DEF Declared
  <2>6. CASE addPass
    <3>1. PICK d \in Decls : graph' = [graph EXCEPT !.passes = Append(@, d)]
      BY <2>6 DEF addPass
    <3>2. loop' = loop
      BY <2>6 DEF addPass
    <3>3. graph'.passes = Append(graph.passes, d) /\ graph'.resources = graph.resources
      BY <2>3, <3>1
    <3>4. graph'.passes \in Seq(Decls) /\ Len(graph'.passes) = n + 1
      BY <2>1, <2>2, <3>3, AppendProperties
    <3>5. loop' \in 1..((n + 1) + 1)
      BY <2>2, <3>2
    <3> QED
      BY <2>2, <3>3, <3>4, <3>5 DEF Declared
  <2>7. ASSUME loop \in DOMAIN compiled.sorted, loop' = loop + 1, graph' = graph,
               phase \notin {"build", "compiled"}
        PROVE  Declared'
    <3>1. DOMAIN compiled.sorted = 1..n
      BY <2>1, <2>7, GraphFacts DEF ExecInv
    <3>2. loop' \in 1..(n + 1)
      BY <2>7, <3>1
    <3> QED
      BY <2>1, <2>2, <2>7, <3>2 DEF Declared
  <2>8. CASE InlineEnd
    <3>1. loop \in DOMAIN compiled.sorted
      BY <2>8 DEF InlineEnd, ExecInv, Serial, Executing
    <3> QED
      BY <2>7, <2>8, <3>1 DEF InlineEnd, building
  <2>9. CASE RootLoop
    <3>1. CASE loop \in DOMAIN compiled.sorted
      BY <2>7, <2>9, <3>1 DEF RootLoop, building
    <3>2. CASE loop \notin DOMAIN compiled.sorted
      BY <2>4, <2>9, <3>2 DEF RootLoop, building
    <3> QED
      BY <3>1, <3>2
  <2>10. ASSUME NEW w \in Workers, Worker(w)
         PROVE  UNCHANGED <<graph, loop>>
    BY <2>10 DEF Worker, JobBegin, JobReturns, JobReleases, JobEnd, building
  <2>11. Compile \/ executeInline \/ execute \/ InlineBegin \/ UNCHANGED vars => UNCHANGED <<graph, loop>>
    BY DEF Compile, executeInline, execute, InlineBegin, vars, building
  <2> QED
    BY <2>4, <2>5, <2>6, <2>8, <2>9, <2>10, <2>11 DEF Next, Client
<1> QED
  BY <1>1, <1>2, ExecAlways, PTL DEF Spec

\* The state of a graph and its execution has its types: of the compiled order,
\* too, which names passes of the graph.
THEOREM GraphTypes == Spec => []TypeOK
<1>1. ExecInv /\ Declared => TypeOK
  <2> SUFFICES ASSUME ExecInv, Declared
               PROVE  TypeOK
    OBVIOUS
  <2>1. Types /\ Compiling
    BY DEF ExecInv
  <2>2. graph \in [resources : 0..MaxResources, passes : Seq(Decls)]
    <3>1. graph \in [resources : Nat, passes : Seq(Pass)]
      BY <2>1 DEF Compiling, Built
    <3>2. graph.resources \in 0..MaxResources /\ graph.passes \in Seq(Decls)
      BY <3>1, GraphAssumption DEF Declared
    <3>3. graph = [resources |-> graph.resources, passes |-> graph.passes]
      BY <3>1
    <3> QED
      BY <3>2, <3>3
  <2>3. ToSet(compiled.sorted) \subseteq Passes
    <3>1. CASE valid(compiled)
      <4>1. phase # "build"
        BY <2>1, <3>1 DEF Compiling, NoGraph, valid
      <4>2. \A i \in DOMAIN compiled.sorted : compiled.sorted[i] \in Passes
        BY <2>1, <3>1, <4>1, ReadyFacts
      <4> QED
        BY <4>2 DEF ToSet
    <3>2. CASE ~valid(compiled)
      <4>1. compiled.sorted = <<>>
        BY <3>2 DEF valid
      <4> QED
        BY <4>1 DEF ToSet
    <3> QED
      BY <3>1, <3>2
  <2>4. loop \in 1..(MaxPasses + 1)
    <3>1. Len(graph.passes) \in Nat /\ Len(graph.passes) <= MaxPasses
      BY <2>1, LenProperties DEF Compiling, Declared
    <3> QED
      BY <3>1, GraphAssumption DEF Declared
  <2> QED
    BY <2>1, <2>2, <2>3, <2>4 DEF TypeOK, Types, Edges
<1> QED
  BY <1>1, ExecAlways, DeclaredAlways, PTL

=============================================================================
