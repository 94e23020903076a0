----------------------------- MODULE LSM_proofs -----------------------------
(* Nothing that is still wanted is lost in flushes and compactions, and who *)
(* reads the newest place first reads the last value written, for any keys, *)
(* any number of tables and any memtable size.                              *)
EXTENDS LSM, SequenceTheorems, DataLemmas

Elems(s) == {s[i] : i \in 1..Len(s)}
----------------------------------------------------------------------------
(* Sequences *)

\* The fold behind FlattenSeq puts one sequence after the other.
LEMMA FlattenUnfolds ==
  ASSUME NEW X, NEW q \in Seq(Seq(X)), q # <<>>
  PROVE  \E g \in [1..Len(q) -> Seq(X)] :
           /\ FlattenSeq(q) = g[Len(q)]
           /\ g[1] = q[1]
           /\ \A i \in 2..Len(q) : g[i] = g[i - 1] \o q[i]
<1> DEFINE n == Len(q)
           Iter(g) == [i \in 1..n |-> IF i = 1 THEN q[i] ELSE g[i - 1] \o q[i]]
           it == CHOOSE g : g = Iter(g)
           next(m, s) == IF m + 1 \in 1..n
                         THEN IF m = 0 THEN q[1] ELSE s \o q[m + 1]
                         ELSE s
           step == [m \in Nat |-> [s \in Seq(X) |-> next(m, s)]]
<1>1. n \in Nat /\ n # 0 /\ \A i \in 1..n : q[i] \in Seq(X)
  BY LenProperties, ElementOfSeq, EmptySeq
<1> HIDE DEF n
<1>2. step \in [Nat -> [Seq(X) -> Seq(X)]]
  <2>1. ASSUME NEW m \in Nat, NEW s \in Seq(X)
        PROVE  next(m, s) \in Seq(X)
    <3>1. m + 1 \in 1..n => q[m + 1] \in Seq(X) /\ s \o q[m + 1] \in Seq(X)
      BY <1>1, ConcatProperties
    <3>2. q[1] \in Seq(X)
      BY <1>1
    <3> QED
      BY <3>1, <3>2
  <2> HIDE DEF next
  <2> QED
    BY <2>1
<1>3. <<>> \in Seq(X)
  BY EmptySeq
<1>4. PICK l : Loops(Seq(X), <<>>, step, l)
  <2> HIDE DEF step
  <2> QED
    BY <1>2, <1>3, SomeLoop
<1>5. l \in [Nat -> Seq(X)] /\ \A m \in Nat : l[m + 1] = next(m, l[m])
  <2> HIDE DEF next
  <2> QED
    BY <1>4 DEF Loops
<1> HIDE DEF step
<1> DEFINE g == [i \in 1..n |-> l[i]]
<1>6. g \in [1..n -> Seq(X)]
  <2>1. \A i \in 1..n : l[i] \in Seq(X)
    BY <1>1, <1>5
  <2> QED
    BY <2>1
<1>7. ASSUME NEW i \in 1..n
      PROVE  g[i] = IF i = 1 THEN q[i] ELSE g[i - 1] \o q[i]
  <2>1. i - 1 \in Nat /\ (i - 1) + 1 = i
    BY <1>1
  <2>2. l[i] = IF i - 1 = 0 THEN q[1] ELSE l[i - 1] \o q[i]
    BY <1>5, <2>1
  <2>3. (i # 1 => i - 1 \in 1..n) /\ (i - 1 = 0 <=> i = 1)
    BY <1>1
  <2> QED
    BY <2>2, <2>3
<1>8. g = Iter(g)
  BY <1>6, <1>7
<1>9. it = Iter(it)
  <2> HIDE DEF Iter
  <2> QED
    BY <1>8
<1>10. FlattenSeq(q) = it[n]
  BY <1>1, Zenon DEF FlattenSeq, n
<1> HIDE DEF it, g
<1>11. \A i \in 1..n : it[i] = IF i = 1 THEN q[i] ELSE it[i - 1] \o q[i]
  BY <1>9
<1>12. \A m \in Nat : m + 1 \in 1..n => it[m + 1] = g[m + 1]
  <2> DEFINE G == {m \in Nat : m + 1 \in 1..n => it[m + 1] = g[m + 1]}
  <2>1. 0 \in G
    BY <1>1, <1>7, <1>11
  <2>2. ASSUME NEW m \in Nat, m \in G
        PROVE  m + 1 \in G
    <3>1. (m + 1) + 1 \in 1..n => m + 1 \in 1..n /\ (m + 1) + 1 # 1 /\ ((m + 1) + 1) - 1 = m + 1
      BY <1>1
    <3> QED
      BY <1>7, <1>11, <2>2, <3>1
  <2>3. \A m \in Nat : m \in G
    <3> HIDE DEF G
    <3> QED
      BY <2>1, <2>2, FromZeroUp
  <2> QED
    BY <2>3
<1>13. n - 1 \in Nat /\ (n - 1) + 1 = n /\ n \in 1..n /\ 1 \in 1..n
  BY <1>1
<1>14. it[n] = g[n]
  BY <1>12, <1>13
<1>15. g[1] = q[1] /\ \A i \in 2..n : g[i] = g[i - 1] \o q[i]
  <2>1. \A i \in 2..n : i \in 1..n /\ i # 1
    BY <1>1
  <2> QED
    BY <1>7, <1>13, <2>1
<1> QED
  BY <1>6, <1>10, <1>14, <1>15 DEF n

LEMMA ConcatHolds ==
  ASSUME NEW X, NEW s \in Seq(X), NEW t \in Seq(X)
  PROVE  Elems(s \o t) = Elems(s) \cup Elems(t)
<1>1. /\ Len(s) \in Nat /\ Len(t) \in Nat /\ Len(s \o t) = Len(s) + Len(t)
      /\ \A i \in 1..(Len(s) + Len(t)) :
           (s \o t)[i] = IF i <= Len(s) THEN s[i] ELSE t[i - Len(s)]
  BY LenProperties, ConcatProperties
<1>2. ASSUME NEW x \in Elems(s \o t)
      PROVE  x \in Elems(s) \cup Elems(t)
  <2>1. PICK i \in 1..(Len(s) + Len(t)) : x = (s \o t)[i]
    BY <1>1 DEF Elems
  <2>2. CASE i <= Len(s)
    BY <1>1, <2>1, <2>2 DEF Elems
  <2>3. CASE ~(i <= Len(s))
    <3>1. i - Len(s) \in 1..Len(t) /\ x = t[i - Len(s)]
      BY <1>1, <2>1, <2>3
    <3> QED
      BY <3>1 DEF Elems
  <2> QED
    BY <2>2, <2>3
<1>3. ASSUME NEW i \in 1..Len(s)
      PROVE  s[i] \in Elems(s \o t)
  <2>1. i \in 1..(Len(s) + Len(t)) /\ i <= Len(s)
    BY <1>1
  <2> QED
    BY <1>1, <2>1 DEF Elems
<1>4. ASSUME NEW i \in 1..Len(t)
      PROVE  t[i] \in Elems(s \o t)
  <2>1. Len(s) + i \in 1..(Len(s) + Len(t)) /\ ~(Len(s) + i <= Len(s)) /\ (Len(s) + i) - Len(s) = i
    BY <1>1
  <2> QED
    BY <1>1, <2>1 DEF Elems
<1> QED
  BY <1>2, <1>3, <1>4 DEF Elems

\* Every two elements of s, the earlier one first, are in the relation R.
Chain(s, R) == \A i, j \in 1..Len(s) : i < j => <<s[i], s[j]>> \in R

\* Each element of s with each of t is in the relation R.
Between(s, t, R) == \A x \in Elems(s), y \in Elems(t) : <<x, y>> \in R

\* Two chains with R between them are a chain.
LEMMA ChainOfConcat ==
  ASSUME NEW X, NEW s \in Seq(X), NEW t \in Seq(X), NEW R,
         Chain(s, R), Chain(t, R), Between(s, t, R)
  PROVE  Chain(s \o t, R)
<1> DEFINE m == Len(s)
           n == Len(t)
           z == s \o t
<1>1. m \in Nat /\ n \in Nat /\ Len(z) = m + n
  BY LenProperties, ConcatProperties
<1>2. \A i \in 1..(m + n) : z[i] = IF i <= m THEN s[i] ELSE t[i - m]
  BY ConcatProperties
<1> HIDE DEF z
<1>3. ASSUME NEW i \in 1..(m + n), NEW j \in 1..(m + n), i < j
      PROVE  <<z[i], z[j]>> \in R
  <2>1. CASE j <= m
    <3>1. i \in 1..m /\ j \in 1..m /\ i <= m
      BY <1>1, <1>3, <2>1
    <3>2. z[i] = s[i] /\ z[j] = s[j]
      BY <1>2, <2>1, <3>1
    <3> QED
      BY <1>3, <3>1, <3>2 DEF Chain
  <2>2. CASE m < i
    <3>1. i - m \in 1..n /\ j - m \in 1..n /\ i - m < j - m /\ ~(i <= m) /\ ~(j <= m)
      BY <1>1, <1>3, <2>2
    <3>2. z[i] = t[i - m] /\ z[j] = t[j - m]
      BY <1>2, <3>1
    <3> QED
      BY <3>1, <3>2 DEF Chain
  <2>3. CASE i <= m /\ ~(j <= m)
    <3>1. i \in 1..m /\ j - m \in 1..n
      BY <1>1, <1>3, <2>3
    <3>2. z[i] = s[i] /\ z[j] = t[j - m]
      BY <1>2, <2>3
    <3>3. s[i] \in Elems(s) /\ t[j - m] \in Elems(t)
      BY <3>1 DEF Elems
    <3> QED
      BY <3>2, <3>3 DEF Between
  <2> QED
    BY <1>1, <2>1, <2>2, <2>3
<1> QED
  BY <1>1, <1>3 DEF Chain, z

\* The sequence z is the part of s from m to n.
PartOf(z, s, m, n) ==
  /\ Len(z) = IF m <= n THEN n - m + 1 ELSE 0
  /\ \A i \in 1..Len(z) : m + i - 1 \in m..n /\ z[i] = s[m + i - 1]
  /\ \A x \in Elems(z) : \E i \in m..n : x = s[i]
  /\ \A i \in m..n : s[i] \in Elems(z)

LEMMA SubSeqHolds ==
  ASSUME NEW X, NEW s \in Seq(X), NEW m \in Nat, NEW n \in Nat, 1 <= m, n <= Len(s)
  PROVE  SubSeq(s, m, n) \in Seq(X) /\ PartOf(SubSeq(s, m, n), s, m, n)
<1> DEFINE z == SubSeq(s, m, n)
<1>1. Len(s) \in Nat
  BY LenProperties
<1>2. \A i \in m..n : s[i] \in X
  <2>1. \A i \in m..n : i \in 1..Len(s)
    BY <1>1
  <2> QED
    BY <2>1, ElementOfSeq
<1>3. m \in Int /\ n \in Int
  OBVIOUS
<1>4. /\ z \in Seq(X)
      /\ Len(z) = IF m <= n THEN n - m + 1 ELSE 0
      /\ \A i \in 1..(n - m + 1) : z[i] = s[m + i - 1]
  BY <1>2, <1>3, SubSeqProperties
<1> HIDE DEF z
<1>5. \A i \in 1..Len(z) : m + i - 1 \in m..n /\ i \in 1..(n - m + 1)
  BY <1>4
<1>6. ASSUME NEW i \in m..n
      PROVE  s[i] \in Elems(z)
  <2> DEFINE j == i - m + 1
  <2>1. m <= n /\ j \in 1..(n - m + 1) /\ m + j - 1 = i
    OBVIOUS
  <2>2. Len(z) = n - m + 1
    BY <1>4, <2>1
  <2> HIDE DEF j
  <2>3. z[j] = s[i] /\ j \in 1..Len(z)
    BY <1>4, <2>1, <2>2
  <2> QED
    BY <2>3 DEF Elems
<1>7. \A x \in Elems(z) : \E i \in m..n : x = s[i]
  BY <1>4, <1>5 DEF Elems
<1> QED
  BY <1>4, <1>5, <1>6, <1>7 DEF z, PartOf

LEMMA ChainOfPart ==
  ASSUME NEW s, NEW z, NEW R, NEW m \in Nat, NEW n \in Nat, Len(s) \in Nat,
         PartOf(z, s, m, n), 1 <= m, n <= Len(s), Chain(s, R)
  PROVE  Chain(z, R)
<1> SUFFICES ASSUME NEW i \in 1..Len(z), NEW j \in 1..Len(z), i < j
             PROVE  <<z[i], z[j]>> \in R
  BY DEF Chain
<1> DEFINE p == m + i - 1
           q == m + j - 1
<1>1. p \in m..n /\ q \in m..n /\ z[i] = s[p] /\ z[j] = s[q]
  BY DEF PartOf
<1>2. p < q
  OBVIOUS
<1> HIDE DEF p, q
<1>3. p \in 1..Len(s) /\ q \in 1..Len(s)
  BY <1>1
<1> QED
  BY <1>1, <1>2, <1>3 DEF Chain

LEMMA BetweenParts ==
  ASSUME NEW s, NEW u, NEW z, NEW R, NEW m \in Nat, NEW n \in Nat,
         NEW p \in Nat, NEW q \in Nat, Len(s) \in Nat,
         PartOf(u, s, m, n), PartOf(z, s, p, q), 1 <= m, n < p, q <= Len(s), Chain(s, R)
  PROVE  Between(u, z, R)
<1>1. ASSUME NEW a \in Elems(u), NEW b \in Elems(z)
      PROVE  <<a, b>> \in R
  <2>1. PICK i \in m..n : a = s[i]
    BY DEF PartOf
  <2>2. PICK j \in p..q : b = s[j]
    BY DEF PartOf
  <2>3. i \in 1..Len(s) /\ j \in 1..Len(s) /\ i < j
    BY <2>1, <2>2
  <2> QED
    BY <2>1, <2>2, <2>3 DEF Chain
<1> QED
  BY <1>1, Zenon DEF Between

\* The sequence s is A, then W from m to n, then B.
CutAt(s, m, n, A, W, B) ==
  /\ A = SubSeq(s, 1, m - 1) /\ W = SubSeq(s, m, n) /\ B = SubSeq(s, n + 1, Len(s))

LEMMA CutHolds ==
  ASSUME NEW X, NEW s \in Seq(X), NEW m \in 1..Len(s), NEW n \in 1..Len(s), m < n,
         NEW A, NEW W, NEW B, CutAt(s, m, n, A, W, B)
  PROVE  /\ A \in Seq(X) /\ W \in Seq(X) /\ B \in Seq(X) /\ Len(W) >= 1
         /\ Elems(s) = Elems(A) \cup Elems(W) \cup Elems(B)
         /\ \A x \in Elems(A) : \E i \in 1..(m - 1) : x = s[i]
         /\ \A R : Chain(s, R) =>
              /\ Chain(A, R) /\ Chain(W, R) /\ Chain(B, R)
              /\ Between(A, W, R) /\ Between(A, B, R) /\ Between(W, B, R)
<1> DEFINE l == Len(s)
           p == m - 1
           q == n + 1
<1>1. l \in Nat /\ m \in Nat /\ n \in Nat /\ p \in Nat /\ q \in Nat
  BY LenProperties
<1>2. p = m - 1 /\ q = n + 1 /\ 1 <= m /\ 1 <= q /\ p <= l /\ n <= l /\ l <= l /\ 1 <= 1
  BY <1>1
<1>3. p < m /\ p < q /\ n < q
  BY <1>1, <1>2
<1>4. A = SubSeq(s, 1, p) /\ W = SubSeq(s, m, n) /\ B = SubSeq(s, q, l)
  BY DEF CutAt
<1> HIDE DEF l, p, q
<1>5. /\ A \in Seq(X) /\ PartOf(A, s, 1, p)
      /\ W \in Seq(X) /\ PartOf(W, s, m, n)
      /\ B \in Seq(X) /\ PartOf(B, s, q, l)
  <2>1. 1 \in Nat
    OBVIOUS
  <2> QED
    BY <1>1, <1>2, <1>4, <2>1, SubSeqHolds DEF l
<1>6. /\ \A x \in Elems(A) : \E i \in 1..p : x = s[i]
      /\ \A i \in 1..p : s[i] \in Elems(A)
      /\ \A x \in Elems(W) : \E i \in m..n : x = s[i]
      /\ \A i \in m..n : s[i] \in Elems(W)
      /\ \A x \in Elems(B) : \E i \in q..l : x = s[i]
      /\ \A i \in q..l : s[i] \in Elems(B)
  BY <1>5 DEF PartOf
<1>7. /\ \A i \in 1..l : i \in 1..p \/ i \in m..n \/ i \in q..l
      /\ \A i \in 1..p : i \in 1..l
      /\ \A i \in m..n : i \in 1..l
      /\ \A i \in q..l : i \in 1..l
  BY <1>1, <1>2
<1>8. Elems(s) = Elems(A) \cup Elems(W) \cup Elems(B)
  <2>1. ASSUME NEW i \in 1..l
        PROVE  s[i] \in Elems(A) \cup Elems(W) \cup Elems(B)
    BY <1>6, <1>7
  <2>2. ASSUME NEW x \in Elems(A) \cup Elems(W) \cup Elems(B)
        PROVE  \E i \in 1..l : x = s[i]
    BY <1>6, <1>7
  <2>3. Elems(s) = {s[i] : i \in 1..l}
    BY DEF Elems, l
  <2> QED
    BY <2>1, <2>2, <2>3
<1>9. ASSUME NEW R, Chain(s, R)
      PROVE  /\ Chain(A, R) /\ Chain(W, R) /\ Chain(B, R)
             /\ Between(A, W, R) /\ Between(A, B, R) /\ Between(W, B, R)
  <2>1. 1 \in Nat /\ Len(s) \in Nat /\ Len(s) = l
    BY <1>1 DEF l
  <2>2. Chain(A, R) /\ Chain(W, R) /\ Chain(B, R)
    BY <1>1, <1>2, <1>5, <1>9, <2>1, ChainOfPart
  <2>3. Between(A, W, R) /\ Between(A, B, R) /\ Between(W, B, R)
    BY <1>1, <1>2, <1>3, <1>5, <1>9, <2>1, BetweenParts
  <2> QED
    BY <2>2, <2>3
<1>10. Len(W) >= 1
  <2>1. Len(W) = n - m + 1
    BY <1>1, <1>5 DEF PartOf
  <2> QED
    BY <1>1, <2>1
<1> QED
  BY <1>2, <1>5, <1>6, <1>8, <1>9, <1>10

\* The elements of s are those of the sequences q[1] to q[n].
Gathers(s, q, n) ==
  /\ \A x \in Elems(s) : \E i \in 1..n : x \in Elems(q[i])
  /\ \A i \in 1..n : \A x \in Elems(q[i]) : x \in Elems(s)

\* FlattenSeq keeps all elements and adds none.
LEMMA FlattenHolds ==
  ASSUME NEW X, NEW q \in Seq(Seq(X))
  PROVE  FlattenSeq(q) \in Seq(X) /\ Gathers(FlattenSeq(q), q, Len(q))
<1>1. CASE q = <<>>
  <2>1. Len(q) = 0 /\ FlattenSeq(q) = q
    BY <1>1 DEF FlattenSeq
  <2>2. q \in Seq(X)
    BY <1>1, EmptySeq
  <2> QED
    BY <2>1, <2>2 DEF Elems, Gathers
<1>2. CASE q # <<>>
  <2> DEFINE n == Len(q)
  <2>1. n \in Nat /\ n # 0 /\ \A i \in 1..n : q[i] \in Seq(X)
    BY <1>2, LenProperties, ElementOfSeq, EmptySeq
  <2>2. PICK g \in [1..n -> Seq(X)] :
          /\ FlattenSeq(q) = g[n]
          /\ g[1] = q[1]
          /\ \A i \in 2..n : g[i] = g[i - 1] \o q[i]
    BY <1>2, FlattenUnfolds
  <2> HIDE DEF n
  <2> DEFINE G == {m \in Nat : m + 1 \in 1..n => Gathers(g[m + 1], q, m + 1)}
  <2>3. 0 \in G
    <3>1. \A i : i \in 1..1 <=> i = 1
      OBVIOUS
    <3> QED
      BY <2>2, <3>1 DEF Gathers
  <2>4. ASSUME NEW m \in Nat, m \in G
        PROVE  m + 1 \in G
    <3> DEFINE k == m + 1
    <3> SUFFICES ASSUME k + 1 \in 1..n
                 PROVE  Gathers(g[k + 1], q, k + 1)
      OBVIOUS
    <3>1. k \in 1..n /\ k + 1 \in 2..n /\ (k + 1) - 1 = k /\ k \in Nat
      BY <2>1
    <3>2. g[k] \in Seq(X) /\ q[k + 1] \in Seq(X) /\ g[k + 1] = g[k] \o q[k + 1]
      BY <2>1, <2>2, <3>1
    <3>3. Gathers(g[k], q, k)
      BY <2>4, <3>1
    <3> HIDE DEF k
    <3>4. Elems(g[k + 1]) = Elems(g[k]) \cup Elems(q[k + 1])
      BY <3>2, ConcatHolds
    <3>5. \A i : i \in 1..(k + 1) <=> i \in 1..k \/ i = k + 1
      BY <3>1
    <3> QED
      BY <3>3, <3>4, <3>5 DEF Gathers
  <2>5. \A m \in Nat : m \in G
    <3> HIDE DEF G
    <3> QED
      BY <2>3, <2>4, FromZeroUp
  <2>6. n - 1 \in Nat /\ (n - 1) + 1 = n /\ n \in 1..n
    BY <2>1
  <2>7. Gathers(g[n], q, n)
    BY <2>5, <2>6
  <2> QED
    BY <2>2, <2>6, <2>7 DEF n
<1> QED
  BY <1>1, <1>2
----------------------------------------------------------------------------
(* Sorting *)

\* Ascending lists the elements of a set, each once.
LEMMA AscendingLists ==
  ASSUME NEW S, IsFiniteSet(S), NEW R, Orders(R, S)
  PROVE  /\ Lists(Ascending(S, R), S, R)
         /\ Ascending(S, R) \in Seq(S)
         /\ Len(Ascending(S, R)) = Cardinality(S)
         /\ Cardinality(S) \in Nat
         /\ Elems(Ascending(S, R)) = S
<1> DEFINE a == Ascending(S, R)
<1>1. PICK s : Lists(s, S, R)
  BY SomeListing
<1>2. Lists(a, S, R)
  BY <1>1 DEF Lists, Ascending
<1>3. Cardinality(S) \in Nat
  BY FS_CardinalityType
<1> HIDE DEF a
<1>4. a \in [1..Cardinality(S) -> S]
  BY <1>2 DEF Lists
<1>5. a \in Seq(S) /\ Len(a) = Cardinality(S)
  BY <1>3, <1>4
<1>6. \A x \in S : \E i \in 1..Cardinality(S) : a[i] = x
  BY <1>2, ListingIsOnto
<1>7. Elems(a) = S
  BY <1>4, <1>5, <1>6 DEF Elems
<1> QED
  BY <1>2, <1>3, <1>5, <1>7 DEF a

\* Some elements of a sequence, as they come.
LEMMA TakenHolds ==
  ASSUME NEW X, NEW s \in Seq(X), NEW at \in SUBSET (1..Len(s))
  PROVE  /\ Taken(s, at) \in Seq(X)
         /\ Len(Taken(s, at)) = Cardinality(at) /\ Cardinality(at) \in Nat
         /\ \A i \in 1..Cardinality(at) : \E m \in at : Taken(s, at)[i] = s[m]
         /\ \A m \in at : \E i \in 1..Cardinality(at) : Taken(s, at)[i] = s[m]
         /\ \A i, j \in 1..Cardinality(at) : i < j =>
              \E m, n \in at : m < n /\ Taken(s, at)[i] = s[m] /\ Taken(s, at)[j] = s[n]
<1> DEFINE R == {p \in at \X at : p[1] < p[2]}
           a == Ascending(at, R)
           c == Cardinality(at)
<1>1. Len(s) \in Nat /\ \A m \in 1..Len(s) : s[m] \in X
  BY LenProperties, ElementOfSeq
<1>2. IsFiniteSet(at)
  <2>1. IsFiniteSet(1..Len(s))
    BY <1>1, FS_Interval
  <2> QED
    BY <2>1, FS_Subset
<1>3. Orders(R, at)
  <2>0. \A m \in at : m \in Nat
    BY <1>1
  <2>1. \A x \in at : <<x, x>> \notin R
    BY <2>0
  <2>2. \A x, y \in at : x = y \/ <<x, y>> \in R \/ <<y, x>> \in R
    BY <2>0
  <2>3. \A x, y, z \in at : <<x, y>> \in R /\ <<y, z>> \in R => <<x, z>> \in R
    BY <2>0
  <2> HIDE DEF R
  <2> QED
    BY <2>1, <2>2, <2>3 DEF Orders
<1>4. /\ Lists(a, at, R) /\ c \in Nat /\ Elems(a) = at /\ Len(a) = c
  <2> HIDE DEF R
  <2> QED
    BY <1>2, <1>3, AscendingLists
<1>5. Taken(s, at) = [i \in 1..c |-> s[a[i]]]
  BY DEF Taken
<1> HIDE DEF a
<1>6. a \in [1..c -> at] /\ \A i, j \in 1..c : i < j => <<a[i], a[j]>> \in R
  BY <1>4 DEF Lists
<1>7. \A m \in at : \E i \in 1..c : a[i] = m
  BY <1>4 DEF Elems
<1> HIDE DEF c
<1>8. /\ Taken(s, at) \in [1..c -> X]
      /\ \A i \in 1..c : Taken(s, at)[i] = s[a[i]] /\ a[i] \in at
  BY <1>1, <1>5, <1>6
<1>9. Taken(s, at) \in Seq(X) /\ Len(Taken(s, at)) = c
  BY <1>4, <1>8
<1>10. \A i, j \in 1..c : i < j =>
         \E m, n \in at : m < n /\ Taken(s, at)[i] = s[m] /\ Taken(s, at)[j] = s[n]
  <2>1. \A i, j \in 1..c : i < j => a[i] < a[j]
    BY <1>6
  <2> QED
    BY <1>8, <2>1
<1>11. /\ \A i \in 1..c : \E m \in at : Taken(s, at)[i] = s[m]
       /\ \A m \in at : \E i \in 1..c : Taken(s, at)[i] = s[m]
  BY <1>7, <1>8
<1> HIDE DEF R
<1> QED
  BY <1>4, <1>9, <1>10, <1>11 DEF c

\* The owner's order is by age, but no table is left out or added.
LEMMA ByAgeHolds ==
  ASSUME NEW ts \in Seq(Table)
  PROVE  /\ byAge(ts) \in Seq(Table)
         /\ Len(byAge(ts)) = Len(ts)
         /\ Elems(byAge(ts)) = Elems(ts)
<1> DEFINE n == Len(ts)
           R == {p \in (1..n) \X (1..n) :
                   \/ ts[p[1]].createdAt < ts[p[2]].createdAt
                   \/ ts[p[1]].createdAt = ts[p[2]].createdAt /\ p[1] < p[2]}
           a == Ascending(1..n, R)
<1>1. n \in Nat /\ \A m \in 1..n : ts[m] \in Table
  BY LenProperties, ElementOfSeq
<1>2. \A m \in 1..n : ts[m].createdAt \in Int /\ m \in Int
  BY <1>1, LSMAssumption DEF Table
<1> HIDE DEF n
<1>3. IsFiniteSet(1..n) /\ Cardinality(1..n) = n
  BY <1>1, FS_Interval
<1>4. Orders(R, 1..n)
  <2>1. \A x \in 1..n : <<x, x>> \notin R
    BY <1>2
  <2>2. \A x, y \in 1..n : x = y \/ <<x, y>> \in R \/ <<y, x>> \in R
    BY <1>2
  <2>3. \A x, y, z \in 1..n : <<x, y>> \in R /\ <<y, z>> \in R => <<x, z>> \in R
    BY <1>2
  <2> HIDE DEF R
  <2> QED
    BY <2>1, <2>2, <2>3 DEF Orders
<1>5. Lists(a, 1..n, R) /\ Elems(a) = 1..n /\ Len(a) = n
  <2> HIDE DEF R
  <2> QED
    BY <1>3, <1>4, AscendingLists
<1>6. byAge(ts) = [i \in 1..n |-> ts[a[i]]]
  BY DEF byAge, n
<1> HIDE DEF a, R
<1>7. a \in [1..n -> 1..n]
  BY <1>3, <1>5 DEF Lists
<1>8. \A m \in 1..n : \E i \in 1..n : a[i] = m
  BY <1>5 DEF Elems
<1>9. byAge(ts) \in [1..n -> Table]
  BY <1>1, <1>6, <1>7
<1>10. byAge(ts) \in Seq(Table) /\ Len(byAge(ts)) = n
  BY <1>1, <1>9
<1>11. Elems(byAge(ts)) = Elems(ts)
  <2> DEFINE z == byAge(ts)
  <2>1. \A i \in 1..n : z[i] = ts[a[i]] /\ a[i] \in 1..n
    BY <1>6, <1>7
  <2>2. Len(z) = n
    BY <1>10
  <2> HIDE DEF z
  <2>3. \A x \in Elems(z) : x \in Elems(ts)
    BY <2>1, <2>2 DEF Elems, n
  <2>4. ASSUME NEW x \in Elems(ts)
        PROVE  x \in Elems(z)
    <3>1. PICK m \in 1..n : x = ts[m]
      BY DEF Elems, n
    <3>2. PICK i \in 1..n : a[i] = m
      BY <1>8
    <3> QED
      BY <2>1, <2>2, <3>1, <3>2 DEF Elems
  <2> QED
    BY <2>3, <2>4 DEF z
<1> QED
  BY <1>10, <1>11 DEF n

\* Entries with a key each are sorted without loss.
LEMMA SortedHolds ==
  ASSUME NEW E \in SUBSET Entry, IsFiniteSet(E),
         \A x, y \in E : x.key = y.key => x = y
  PROVE  Sorted(E) \in Seq(Entry) /\ Elems(Sorted(E)) = E
<1> DEFINE R == {p \in E \X E : Rank[p[1].key] < Rank[p[2].key]}
<1>1. \A x \in E : Rank[x.key] \in Nat /\ x.key \in Keys
  BY LSMAssumption DEF Entry
<1>2. Orders(R, E)
  <2>1. \A x \in E : <<x, x>> \notin R
    BY <1>1
  <2>2. ASSUME NEW x \in E, NEW y \in E
        PROVE  x = y \/ <<x, y>> \in R \/ <<y, x>> \in R
    <3>1. Rank[x.key] = Rank[y.key] => x = y
      BY <1>1, LSMAssumption
    <3> QED
      BY <1>1, <3>1
  <2>3. \A x, y, z \in E : <<x, y>> \in R /\ <<y, z>> \in R => <<x, z>> \in R
    BY <1>1
  <2> HIDE DEF R
  <2> QED
    BY <2>1, <2>2, <2>3 DEF Orders
<1>3. Sorted(E) = Ascending(E, R)
  BY DEF Sorted
<1> HIDE DEF R
<1>4. Ascending(E, R) \in Seq(E) /\ Elems(Ascending(E, R)) = E
  BY <1>2, AscendingLists
<1>5. Ascending(E, R) \in Seq(Entry)
  <2>1. Len(Ascending(E, R)) \in Nat
    BY <1>4, LenProperties
  <2>2. Ascending(E, R) \in [1..Len(Ascending(E, R)) -> Entry]
    BY <1>4, LenProperties
  <2> QED
    BY <2>1, <2>2
<1> QED
  BY <1>3, <1>4, <1>5

\* What a flush writes out is what the memtable holds and has not lapsed.
LEMMA FlushedHolds ==
  ASSUME TypeOK, \A k \in Keys : data[k] # Missing => data[k].key = k
  PROVE  /\ getAllEntries \in Seq(Entry)
         /\ \A e \in Elems(getAllEntries) : \E k \in Keys : data[k] # Missing /\ e = data[k]
         /\ \A k \in Keys : data[k] # Missing /\ ~Expired(data[k])
                              => data[k] \in Elems(getAllEntries)
<1> DEFINE L == {l \in Keys : data[l] # Missing /\ ~Expired(data[l])}
           E == {data[k] : k \in L}
<1>1. IsFiniteSet(L)
  BY LSMAssumption, FS_Subset
<1>2. IsFiniteSet(E)
  <2> HIDE DEF L
  <2> QED
    BY <1>1, ImageIsFinite
<1>3. E \in SUBSET Entry
  BY DEF TypeOK
<1>4. \A x, y \in E : x.key = y.key => x = y
  OBVIOUS
<1>5. getAllEntries = Sorted(E)
  BY DEF getAllEntries
<1>6. Sorted(E) \in Seq(Entry) /\ Elems(Sorted(E)) = E
  <2> HIDE DEF E
  <2> QED
    BY <1>2, <1>3, <1>4, SortedHolds
<1>7. Elems(getAllEntries) = E
  BY <1>5, <1>6
<1>8. /\ \A e \in E : \E k \in Keys : data[k] # Missing /\ e = data[k]
      /\ \A k \in Keys : data[k] # Missing /\ ~Expired(data[k]) => data[k] \in E
  OBVIOUS
<1> HIDE DEF E
<1> QED
  BY <1>5, <1>6, <1>7, <1>8
----------------------------------------------------------------------------
(* The merge of overlapping tables *)

\* The entry e of some table in T that is neither a deletion nor lapsed, and
\* older than it is every other version of its key.
Tops(e, T) ==
  /\ ~Dropped(e)
  /\ \A t \in T : \A f \in Held(t) : f.key = e.key => f = e \/ f.timestamp < e.timestamp

\* s is a merge of the tables in T: it makes no entry up and keeps the last
\* version of each key.
Merges(s, T) ==
  /\ s \in Seq(Entry)
  /\ \A e \in Elems(s) : \E t \in T : e \in Held(t)
  /\ \A t \in T : \A e \in Held(t) : Tops(e, T) => e \in Elems(s)

LEMMA HeldIsElems ==
  ASSUME NEW t \in Table
  PROVE  /\ Held(t) = Elems(t.entries) /\ Held(t) \subseteq Entry
         /\ t.entries \in Seq(Entry)
BY LenProperties DEF Held, Elems, Table

\* The loop over all entries ends with a version that none is later than.
LEMMA LatestHolds ==
  ASSUME NEW all \in Seq(Entry), NEW k \in {all[i].key : i \in 1..Len(all)}
  PROVE  /\ Latest(all, k) \in Elems(all)
         /\ Latest(all, k).key = k
         /\ \A e \in Elems(all) : e.key = k => e.timestamp <= Latest(all, k).timestamp
<1> DEFINE n == Len(all)
           B == {i \in 1..n : all[i].key = k}
           ages == {MaxTime - all[i].timestamp : i \in B}
           G == {i \in 1..n :
                   /\ all[i].key = k
                   /\ \A j \in 1..n : all[j].key = k => all[j].timestamp <= all[i].timestamp}
<1>0. n \in Nat /\ \A i \in 1..n : all[i] \in Entry
  BY LenProperties, ElementOfSeq
<1>1. n \in Nat /\ \A i \in 1..n : all[i].timestamp \in 0..MaxTime
  <2> HIDE DEF n
  <2> QED
    BY <1>0 DEF Entry
<1>2. MaxTime \in Nat
  BY LSMAssumption
<1>3. B # {} /\ B \subseteq 1..n
  OBVIOUS
<1> HIDE DEF n
<1>4. PICK y \in ages : \A z \in ages : y <= z
  <2>1. \A i \in B : MaxTime - all[i].timestamp \in Nat
    BY <1>1, <1>2
  <2>2. ages \subseteq Nat /\ ages # {}
    BY <1>3, <2>1
  <2> HIDE DEF ages
  <2> QED
    BY <2>2, Least
<1>5. PICK i \in B : y = MaxTime - all[i].timestamp
  OBVIOUS
<1>6. \A j \in B : all[j].timestamp <= all[i].timestamp
  <2> SUFFICES ASSUME NEW j \in B
               PROVE  all[j].timestamp <= all[i].timestamp
    OBVIOUS
  <2>1. MaxTime - all[i].timestamp <= MaxTime - all[j].timestamp
    BY <1>4, <1>5
  <2>2. all[j].timestamp \in Nat /\ all[i].timestamp \in Nat
    BY <1>1
  <2> QED
    BY <1>2, <2>1, <2>2
<1>7. i \in G
  BY <1>6
<1>8. G \subseteq Nat
  BY <1>1
<1>9. \E m \in G : \A j \in G : m <= j
  <2> HIDE DEF G
  <2> QED
    BY <1>7, <1>8, Least
<1> DEFINE m == CHOOSE g \in G : \A j \in G : g <= j
<1>10. m \in G
  <2> HIDE DEF G
  <2> QED
    BY <1>9
<1>11. Latest(all, k) = all[m]
  BY DEF Latest, n
<1> HIDE DEF m
<1>12. /\ m \in 1..n /\ all[m].key = k
       /\ \A j \in 1..n : all[j].key = k => all[j].timestamp <= all[m].timestamp
  BY <1>10
<1> HIDE DEF G, B, ages
<1> QED
  BY <1>11, <1>12 DEF Elems, n

LEMMA OverlapMerges ==
  ASSUME NEW ts \in Seq(Table)
  PROVE  Merges(mergeSSTablesWithOverlap(ts), Elems(ts))
<1> DEFINE runs == [i \in 1..Len(ts) |-> ts[i].entries]
           all == FlattenSeq(runs)
           ks == {all[i].key : i \in 1..Len(all)}
           kept == {Latest(all, k) : k \in ks}
           E == {e \in kept : ~Dropped(e)}
<1>1. Len(ts) \in Nat /\ \A i \in 1..Len(ts) : ts[i] \in Table
  BY LenProperties, ElementOfSeq
<1>2. \A i \in 1..Len(ts) : ts[i].entries \in Seq(Entry)
  BY <1>1 DEF Table
<1>3. runs \in Seq(Seq(Entry)) /\ Len(runs) = Len(ts)
  BY <1>1, <1>2
<1>4. all \in Seq(Entry) /\ Gathers(all, runs, Len(ts))
  <2> HIDE DEF runs
  <2> QED
    BY <1>3, FlattenHolds
<1>5. \A i \in 1..Len(ts) : Elems(runs[i]) = Held(ts[i])
  BY <1>1, HeldIsElems
<1>6. mergeSSTablesWithOverlap(ts) = Sorted(E)
  BY DEF mergeSSTablesWithOverlap
<1> HIDE DEF runs, all
<1>7. /\ \A e \in Elems(all) : \E t \in Elems(ts) : e \in Held(t)
      /\ \A t \in Elems(ts) : \A e \in Held(t) : e \in Elems(all)
  BY <1>4, <1>5 DEF Gathers, Elems
<1>8. \A k \in ks : /\ Latest(all, k) \in Elems(all) /\ Latest(all, k).key = k
                    /\ \A e \in Elems(all) : e.key = k =>
                         e.timestamp <= Latest(all, k).timestamp
  BY <1>4, LatestHolds
<1>9. \A e \in Elems(all) : e \in Entry /\ e.key \in ks
  BY <1>4, LenProperties, ElementOfSeq DEF Elems
<1>10. E \in SUBSET Entry
  BY <1>8, <1>9
<1>11. IsFiniteSet(E)
  <2>0. \A i \in 1..Len(all) : all[i] \in Entry
    BY <1>4, LenProperties, ElementOfSeq
  <2>1. ks \subseteq Keys
    BY <2>0 DEF Entry
  <2>2. IsFiniteSet(ks)
    BY <2>1, LSMAssumption, FS_Subset
  <2> DEFINE f == [k \in ks |-> Latest(all, k)]
  <2>3. kept = {f[k] : k \in ks}
    OBVIOUS
  <2> HIDE DEF ks, f, kept
  <2>4. IsFiniteSet(kept)
    BY <2>2, <2>3, ImageIsFinite
  <2> QED
    BY <2>4, FS_Subset
<1>12. \A x, y \in E : x.key = y.key => x = y
  BY <1>8
<1>13. Sorted(E) \in Seq(Entry) /\ Elems(Sorted(E)) = E
  <2> HIDE DEF E
  <2> QED
    BY <1>10, <1>11, <1>12, SortedHolds
<1>14. ASSUME NEW t \in Elems(ts), NEW e \in Held(t), Tops(e, Elems(ts))
       PROVE  e \in E
  <2>1. e \in Elems(all) /\ e.key \in ks /\ e \in Entry
    BY <1>7, <1>9
  <2> DEFINE l == Latest(all, e.key)
  <2>2. l \in Elems(all) /\ l.key = e.key /\ e.timestamp <= l.timestamp /\ l \in Entry
    BY <1>8, <1>9, <2>1
  <2>3. PICK u \in Elems(ts) : l \in Held(u)
    BY <1>7, <2>2
  <2> HIDE DEF l
  <2>4. l = e \/ l.timestamp < e.timestamp
    BY <1>14, <2>2, <2>3 DEF Tops
  <2>5. e.timestamp \in Int /\ l.timestamp \in Int
    BY <2>1, <2>2, LSMAssumption DEF Entry
  <2>6. l = e
    BY <2>2, <2>4, <2>5
  <2> QED
    BY <1>14, <2>1, <2>6 DEF l, Tops
<1>15. \A e \in E : e \in Elems(all)
  BY <1>8
<1> HIDE DEF E
<1> QED
  BY <1>6, <1>7, <1>13, <1>14, <1>15 DEF Merges
----------------------------------------------------------------------------
(* The k-way merge *)

\* Of some places one has the smallest key, of equal ones the first.
LEMMA SmallestHead ==
  ASSUME NEW live, live \subseteq Nat, live # {}, NEW h \in [live -> Nat]
  PROVE  \E i \in live : \A j \in live : h[i] < h[j] \/ (h[i] = h[j] /\ i <= j)
<1> DEFINE K == {h[i] : i \in live}
<1>1. K \subseteq Nat /\ K # {}
  OBVIOUS
<1>2. PICK k \in K : \A l \in K : k <= l
  <2> HIDE DEF K
  <2> QED
    BY <1>1, Least
<1> DEFINE M == {i \in live : h[i] = k}
<1>3. M \subseteq Nat /\ M # {}
  BY <1>2
<1>4. PICK i \in M : \A j \in M : i <= j
  <2> HIDE DEF M
  <2> QED
    BY <1>3, Least
<1>5. ASSUME NEW j \in live
      PROVE  h[i] < h[j] \/ (h[i] = h[j] /\ i <= j)
  <2>1. h[i] = k /\ k <= h[j] /\ h[j] \in Nat /\ k \in Nat
    BY <1>1, <1>2, <1>4
  <2>2. h[j] = k => i <= j
    <3>1. h[j] = k => j \in M
      OBVIOUS
    <3> HIDE DEF M
    <3> QED
      BY <1>4, <3>1
  <2>3. h[j] # k => h[i] < h[j]
    BY <2>1
  <2>4. h[j] = k => h[i] = h[j]
    BY <2>1
  <2> QED
    BY <2>2, <2>3, <2>4
<1>6. i \in live
  OBVIOUS
<1> HIDE DEF M, K
<1> QED
  BY <1>5, <1>6

MergeStates(n) == [indices : [1..n -> Nat], merged : Seq(Entry)]

\* The runs of which entries are left.
Live(runs, s) == {i \in 1..Len(runs) : s.indices[i] < Len(runs[i])}

\* The turn takes the head of the run m.
TakesHead(runs, s, m, t) ==
  LET e == runs[m][s.indices[m] + 1]
  IN  /\ t.indices = [s.indices EXCEPT ![m] = @ + 1]
      /\ t.merged = IF Dropped(e) THEN s.merged ELSE Append(s.merged, e)

LEMMA TurnTakesHead ==
  ASSUME NEW n \in Nat, NEW runs \in [1..n -> Seq(Entry)], Len(runs) = n,
         NEW s \in MergeStates(n)
  PROVE  /\ Live(runs, s) = {} => MergeTurn(runs, s) = s
         /\ Live(runs, s) # {} =>
              \E m \in Live(runs, s) : TakesHead(runs, s, m, MergeTurn(runs, s))
         /\ \A i \in Live(runs, s) :
              /\ s.indices[i] + 1 \in 1..Len(runs[i])
              /\ runs[i][s.indices[i] + 1] \in Entry
         /\ MergeTurn(runs, s) \in MergeStates(n)
<1> DEFINE live == {i \in 1..Len(runs) : s.indices[i] < Len(runs[i])}
           head(i) == runs[i][s.indices[i] + 1]
           first(i) == \A j \in live : \/ head(i).key < head(j).key
                                       \/ head(i).key = head(j).key /\ i <= j
           m == CHOOSE i \in live : first(i)
           t == MergeTurn(runs, s)
<1>1. s.indices \in [1..n -> Nat] /\ s.merged \in Seq(Entry)
  BY DEF MergeStates
<1>2. ASSUME NEW i \in live
      PROVE  s.indices[i] + 1 \in 1..Len(runs[i]) /\ head(i) \in Entry /\ i \in 1..n
  <2>1. i \in 1..n /\ runs[i] \in Seq(Entry) /\ s.indices[i] \in Nat
    BY <1>1
  <2>2. Len(runs[i]) \in Nat /\ s.indices[i] < Len(runs[i])
    BY <2>1, LenProperties
  <2>3. s.indices[i] + 1 \in 1..Len(runs[i])
    BY <2>1, <2>2
  <2> QED
    BY <2>1, <2>3, ElementOfSeq
<1>3. /\ live = {} => t = s
      /\ live # {} => t = [indices |-> [s.indices EXCEPT ![m] = @ + 1],
                           merged  |-> IF Dropped(head(m)) THEN s.merged
                                                           ELSE Append(s.merged, head(m))]
  BY DEF MergeTurn
<1>4. live # {} => m \in live
  <2> SUFFICES ASSUME live # {}
               PROVE  \E i \in live : first(i)
    <3> HIDE DEF live, first
    <3> QED
      OBVIOUS
  <2> DEFINE h == [i \in live |-> head(i).key]
  <2>1. \A i \in live : head(i).key \in Nat
    BY <1>2, LSMAssumption DEF Entry
  <2>2. live \subseteq Nat
    OBVIOUS
  <2> HIDE DEF live, head
  <2>3. h \in [live -> Nat]
    BY <2>1
  <2>4. \A i \in live : h[i] = head(i).key
    OBVIOUS
  <2> HIDE DEF h
  <2>5. PICK i \in live : \A j \in live : h[i] < h[j] \/ (h[i] = h[j] /\ i <= j)
    BY <2>2, <2>3, SmallestHead
  <2> QED
    BY <2>4, <2>5
<1>5. live = Live(runs, s)
  BY DEF Live
<1> HIDE DEF live, m, t
<1> DEFINE ahead == [s.indices EXCEPT ![m] = @ + 1]
           longer == IF Dropped(head(m)) THEN s.merged ELSE Append(s.merged, head(m))
<1>6. live # {} => t = [indices |-> ahead, merged |-> longer]
  BY <1>3
<1>7. live # {} => t.indices = ahead /\ t.merged = longer
  <2> HIDE DEF ahead, longer
  <2> QED
    BY <1>6
<1>8. live # {} => TakesHead(runs, s, m, t)
  BY <1>7 DEF TakesHead
<1>9. t \in MergeStates(n)
  <2>1. CASE live = {}
    BY <1>3, <2>1
  <2>2. CASE live # {}
    <3>1. head(m) \in Entry /\ m \in 1..n
      BY <1>2, <1>4, <2>2
    <3>2. [s.indices EXCEPT ![m] = @ + 1] \in [1..n -> Nat]
      BY <1>1, <3>1
    <3> HIDE DEF head
    <3>3. Append(s.merged, head(m)) \in Seq(Entry)
      BY <1>1, <3>1, AppendProperties
    <3>4. ahead \in [1..n -> Nat] /\ longer \in Seq(Entry)
      BY <1>1, <3>2, <3>3
    <3> HIDE DEF ahead, longer
    <3> QED
      BY <1>6, <2>2, <3>4 DEF MergeStates
  <2> QED
    BY <2>1, <2>2
<1> QED
  BY <1>2, <1>3, <1>4, <1>5, <1>8, <1>9 DEF t

LEMMA AppendHolds ==
  ASSUME NEW X, NEW s \in Seq(X), NEW x \in X
  PROVE  Append(s, x) \in Seq(X) /\ Elems(Append(s, x)) = Elems(s) \cup {x}
<1> DEFINE t == Append(s, x)
<1>1. /\ Len(s) \in Nat /\ Len(t) = Len(s) + 1 /\ t \in Seq(X)
      /\ \A i \in 1..Len(s) : t[i] = s[i]
      /\ t[Len(s) + 1] = x
  BY LenProperties, AppendProperties
<1> HIDE DEF t
<1>2. \A i : i \in 1..Len(t) <=> i \in 1..Len(s) \/ i = Len(s) + 1
  BY <1>1
<1>3. Elems(t) = Elems(s) \cup {x}
  BY <1>1, <1>2 DEF Elems
<1> QED
  BY <1>1, <1>3 DEF t

\* What the merge has done to the entries before the heads.
MergedSoFar(n, runs, s) ==
  /\ s \in MergeStates(n)
  /\ \A i \in 1..n : s.indices[i] <= Len(runs[i])
  /\ \A e \in Elems(s.merged) : \E i \in 1..n : e \in Elems(runs[i])
  /\ \A i \in 1..n : \A j \in 1..s.indices[i] :
       ~Dropped(runs[i][j]) => runs[i][j] \in Elems(s.merged)

LEMMA TurnMerges ==
  ASSUME NEW n \in Nat, NEW runs \in [1..n -> Seq(Entry)], Len(runs) = n,
         NEW s, MergedSoFar(n, runs, s)
  PROVE  /\ MergedSoFar(n, runs, MergeTurn(runs, s))
         /\ Live(runs, s) = {} => MergeTurn(runs, s) = s
         /\ Live(runs, s) # {} =>
              SumFunction(MergeTurn(runs, s).indices) = SumFunction(s.indices) + 1
<1> DEFINE t == MergeTurn(runs, s)
<1>1. s \in MergeStates(n)
  BY DEF MergedSoFar
<1>2. /\ Live(runs, s) = {} => t = s
      /\ Live(runs, s) # {} => \E m \in Live(runs, s) : TakesHead(runs, s, m, t)
      /\ \A i \in Live(runs, s) :
           /\ s.indices[i] + 1 \in 1..Len(runs[i])
           /\ runs[i][s.indices[i] + 1] \in Entry
      /\ t \in MergeStates(n)
  BY <1>1, TurnTakesHead
<1> HIDE DEF t
<1>3. ASSUME NEW m \in Live(runs, s), TakesHead(runs, s, m, t)
      PROVE  /\ MergedSoFar(n, runs, t)
             /\ SumFunction(t.indices) = SumFunction(s.indices) + 1
  <2> DEFINE at == s.indices[m] + 1
             e == runs[m][at]
  <2>1. s.indices \in [1..n -> Nat] /\ s.merged \in Seq(Entry) /\ t.indices \in [1..n -> Nat]
    BY <1>1, <1>2 DEF MergeStates
  <2>2. m \in 1..n /\ at \in 1..Len(runs[m]) /\ e \in Entry
    BY <1>2 DEF Live
  <2>3. /\ t.indices[m] = at
        /\ \A i \in 1..n : i # m => t.indices[i] = s.indices[i]
    BY <1>3, <2>1, <2>2 DEF TakesHead
  <2>4. t.merged = IF Dropped(e) THEN s.merged ELSE Append(s.merged, e)
    BY <1>3 DEF TakesHead
  <2>5. at \in Nat /\ at = s.indices[m] + 1 /\ s.indices[m] \in Nat /\ Len(runs[m]) \in Nat
    BY <2>1, <2>2, LenProperties
  <2>6. Elems(t.merged) = IF Dropped(e) THEN Elems(s.merged) ELSE Elems(s.merged) \cup {e}
    <3> HIDE DEF e
    <3>1. Elems(Append(s.merged, e)) = Elems(s.merged) \cup {e}
      BY <2>1, <2>2, AppendHolds
    <3> QED
      BY <2>4, <3>1
  <2>7. e \in Elems(runs[m])
    BY <2>2 DEF Elems
  <2> HIDE DEF at
  <2>8. ASSUME NEW i \in 1..n
        PROVE  t.indices[i] <= Len(runs[i])
    <3>1. s.indices[i] <= Len(runs[i])
      BY DEF MergedSoFar
    <3>2. at <= Len(runs[m])
      BY <2>2, <2>5
    <3> QED
      BY <2>3, <3>1, <3>2
  <2>9. \A f \in Elems(t.merged) : \E i \in 1..n : f \in Elems(runs[i])
    <3> HIDE DEF e
    <3> QED
      BY <2>2, <2>6, <2>7 DEF MergedSoFar
  <2>10. ASSUME NEW i \in 1..n, NEW j \in 1..t.indices[i], ~Dropped(runs[i][j])
         PROVE  runs[i][j] \in Elems(t.merged)
    <3>1. CASE j \in 1..s.indices[i]
      <4>1. runs[i][j] \in Elems(s.merged)
        BY <2>10, <3>1 DEF MergedSoFar
      <4> HIDE DEF e
      <4> QED
        BY <2>6, <4>1
    <3>2. CASE j \notin 1..s.indices[i]
      <4>1. i = m /\ j = at
        BY <2>3, <2>5, <3>2
      <4> QED
        BY <2>6, <2>10, <4>1
    <3> QED
      BY <3>1, <3>2
  <2>11. MergedSoFar(n, runs, t)
    BY <1>2, <2>8, <2>9, <2>10 DEF MergedSoFar
  <2>12. SumFunction(t.indices) = SumFunction(s.indices) + 1
    <3> DEFINE D == 1..n
               f == s.indices
               h == t.indices
    <3>1. IsFiniteSet(D)
      BY FS_Interval
    <3>2. f \in [D -> Int] /\ h \in [D -> Int] /\ m \in D
      BY <2>1, <2>2
    <3>3. \A i \in D : i # m => h[i] = f[i]
      BY <2>3
    <3>4. h[m] = f[m] + 1 /\ f[m] \in Int
      BY <2>3, <2>5
    <3> HIDE DEF D, f, h
    <3>5. SumFunction(h) = SumFunction(f) - f[m] + h[m]
      <4>1. /\ IsFiniteSet(D) /\ f \in [D -> Int] /\ h \in [D -> Int] /\ m \in D
            /\ \A i \in D : i # m => h[i] = f[i]
        BY <3>1, <3>2, <3>3
      <4> QED
        BY <4>1, SumOfChange
    <3>7. SumFunction(f) \in Int
      BY <3>1, <3>2, SumIsInt
    <3>6. SumFunction(h) = SumFunction(f) + 1
      BY <3>4, <3>5, <3>7
    <3> QED
      BY <3>6 DEF f, h
  <2> QED
    BY <2>11, <2>12
<1> QED
  BY <1>2, <1>3 DEF t

\* The turns of mergeSSTables.
LEMMA MergeUnfolds ==
  ASSUME NEW ts \in Seq(Table), NEW n \in Nat, n = Len(ts),
         NEW runs \in [1..n -> Seq(Entry)], runs = [i \in 1..n |-> ts[i].entries]
  PROVE  \E turn :
           /\ turn[0] = [indices |-> [i \in 1..n |-> 0], merged |-> <<>>]
           /\ \A m \in Nat : turn[m + 1] = MergeTurn(runs, turn[m])
           /\ mergeSSTables(ts) =
                turn[SumFunction([i \in 1..n |-> Len(ts[i].entries)])].merged
<1> DEFINE a == [indices |-> [i \in 1..n |-> 0], merged |-> <<>>]
           Iter(g) == [m \in Nat |-> IF m = 0 THEN a ELSE MergeTurn(runs, g[m - 1])]
           it == CHOOSE g : g = Iter(g)
           X == MergeStates(n)
           step == [m \in Nat |-> [s \in X |-> MergeTurn(runs, s)]]
<1>1. Len(runs) = n
  OBVIOUS
<1>2. a \in X
  BY EmptySeq DEF MergeStates
<1>3. step \in [Nat -> [X -> X]]
  <2> HIDE DEF X
  <2>1. ASSUME NEW s \in X
        PROVE  MergeTurn(runs, s) \in X
    BY <1>1, TurnTakesHead DEF X
  <2> QED
    BY <2>1
<1>4. PICK l : Loops(X, a, step, l)
  <2> HIDE DEF step, X, a
  <2> QED
    BY <1>2, <1>3, SomeLoop
<1> HIDE DEF X, a
<1>5. /\ l \in [Nat -> X] /\ l[0] = a
      /\ \A m \in Nat : l[m + 1] = MergeTurn(runs, l[m])
  BY <1>4 DEF Loops
<1> HIDE DEF step
<1>6. ASSUME NEW m \in Nat
      PROVE  l[m] = IF m = 0 THEN a ELSE MergeTurn(runs, l[m - 1])
  <2>1. m # 0 => m - 1 \in Nat /\ (m - 1) + 1 = m
    OBVIOUS
  <2> QED
    BY <1>5, <2>1
<1>7. l = Iter(l)
  BY <1>5, <1>6
<1>8. it = Iter(it)
  <2> HIDE DEF Iter
  <2> QED
    BY <1>7
<1>9. mergeSSTables(ts) = it[SumFunction([i \in 1..n |-> Len(ts[i].entries)])].merged
  BY Zenon DEF mergeSSTables, a
<1> HIDE DEF it
<1>10. it[0] = a /\ \A m \in Nat : it[m + 1] = MergeTurn(runs, it[m])
  <2>1. \A m \in Nat : m + 1 \in Nat /\ m + 1 # 0 /\ (m + 1) - 1 = m
    OBVIOUS
  <2> QED
    BY <1>8, <2>1
<1> QED
  BY <1>9, <1>10 DEF a

\* The k-way merge takes a turn for each entry, and so leaves none.
LEMMA KWayMerges ==
  ASSUME NEW ts \in Seq(Table)
  PROVE  Merges(mergeSSTables(ts), Elems(ts))
<1> DEFINE n == Len(ts)
           runs == [i \in 1..n |-> ts[i].entries]
           lens == [i \in 1..n |-> Len(ts[i].entries)]
           N == SumFunction(lens)
           start == [indices |-> [i \in 1..n |-> 0], merged |-> <<>>]
<1>1. n \in Nat /\ \A i \in 1..n : ts[i] \in Table
  BY LenProperties, ElementOfSeq
<1>2. \A i \in 1..n : ts[i].entries \in Seq(Entry) /\ Held(ts[i]) = Elems(ts[i].entries)
  BY <1>1, HeldIsElems
<1>3. \A i \in 1..n : Len(ts[i].entries) \in Nat
  BY <1>2, LenProperties
<1>4. n = Len(ts)
  OBVIOUS
<1> HIDE DEF n
<1>5. runs \in [1..n -> Seq(Entry)] /\ Len(runs) = n
  BY <1>1, <1>2
<1>6. lens \in [1..n -> Nat]
  BY <1>3
<1>7. IsFiniteSet(1..n)
  BY <1>1, FS_Interval
<1>8. N \in Nat
  <2> HIDE DEF lens
  <2> QED
    BY <1>6, <1>7, SumOfNaturals
<1>9. PICK turn :
        /\ turn[0] = start
        /\ \A m \in Nat : turn[m + 1] = MergeTurn(runs, turn[m])
        /\ mergeSSTables(ts) = turn[N].merged
  BY <1>1, <1>4, <1>5, MergeUnfolds
<1>10. \A i \in 1..n : runs[i] = ts[i].entries /\ lens[i] = Len(runs[i])
  OBVIOUS
<1> HIDE DEF runs, lens, N
<1>11. MergedSoFar(n, runs, start)
  <2>1. start \in MergeStates(n)
    BY EmptySeq DEF MergeStates
  <2>2. \A i \in 1..n : start.indices[i] = 0 /\ 0 <= Len(runs[i])
    BY <1>3, <1>10
  <2>3. start.merged = <<>>
    OBVIOUS
  <2>4. Elems(<<>>) = {}
    BY DEF Elems
  <2> HIDE DEF start
  <2> QED
    BY <2>1, <2>2, <2>3, <2>4 DEF MergedSoFar
<1> DEFINE G == {m \in Nat : /\ MergedSoFar(n, runs, turn[m])
                             /\ \/ Live(runs, turn[m]) = {}
                                \/ m <= SumFunction(turn[m].indices)}
<1>12. 0 \in G
  <2>1. start.indices \in [1..n -> Nat]
    OBVIOUS
  <2> HIDE DEF start
  <2>2. SumFunction(start.indices) \in Nat
    BY <1>7, <2>1, SumOfNaturals
  <2> QED
    BY <1>9, <1>11, <2>2
<1>13. ASSUME NEW m \in Nat, m \in G
       PROVE  m + 1 \in G
  <2> DEFINE s == turn[m]
             t == turn[m + 1]
  <2>1. t = MergeTurn(runs, s)
    BY <1>9
  <2>2. MergedSoFar(n, runs, s) /\ (Live(runs, s) = {} \/ m <= SumFunction(s.indices))
    BY <1>13
  <2> HIDE DEF s, t
  <2>3. /\ MergedSoFar(n, runs, t)
        /\ Live(runs, s) = {} => t = s
        /\ Live(runs, s) # {} => SumFunction(t.indices) = SumFunction(s.indices) + 1
    BY <1>1, <1>5, <2>1, <2>2, TurnMerges
  <2>4. SumFunction(s.indices) \in Nat
    <3>1. s.indices \in [1..n -> Nat]
      BY <2>2 DEF MergedSoFar, MergeStates
    <3> QED
      BY <1>7, <3>1, SumOfNaturals
  <2>5. Live(runs, t) = {} \/ m + 1 <= SumFunction(t.indices)
    <3>1. CASE Live(runs, s) = {}
      BY <2>3, <3>1
    <3>2. CASE Live(runs, s) # {}
      BY <2>2, <2>3, <2>4, <3>2
    <3> QED
      BY <3>1, <3>2
  <2> QED
    BY <2>3, <2>5 DEF t
<1>14. N \in G
  <2>1. \A m \in Nat : m \in G
    <3> HIDE DEF G
    <3> QED
      BY <1>12, <1>13, FromZeroUp
  <2> QED
    BY <1>8, <2>1
<1> DEFINE s == turn[N]
<1>15. MergedSoFar(n, runs, s) /\ (Live(runs, s) = {} \/ N <= SumFunction(s.indices))
  BY <1>14
<1> HIDE DEF s, G, start
<1>16. s.indices \in [1..n -> Nat] /\ s.merged \in Seq(Entry)
  BY <1>15 DEF MergedSoFar, MergeStates
<1>17. Live(runs, s) = {}
  <2> SUFFICES ASSUME NEW m \in Live(runs, s)
               PROVE  ~(N <= SumFunction(s.indices))
    BY <1>15
  <2>1. m \in 1..n /\ s.indices[m] < lens[m]
    BY <1>5, <1>10 DEF Live
  <2>2. \A i \in 1..n : s.indices[i] <= lens[i]
    BY <1>10, <1>15 DEF MergedSoFar
  <2>3. SumFunction(s.indices) < SumFunction(lens)
    <3> DEFINE D == 1..n
               f == s.indices
    <3>1. /\ IsFiniteSet(D) /\ f \in [D -> Nat] /\ lens \in [D -> Nat]
          /\ \A i \in D : f[i] <= lens[i]
          /\ m \in D /\ f[m] < lens[m]
      BY <1>6, <1>7, <1>16, <2>1, <2>2
    <3> HIDE DEF D, f
    <3>2. SumFunction(f) < SumFunction(lens)
      BY <3>1, SumOfGreater
    <3> QED
      BY <3>2 DEF f
  <2>4. SumFunction(s.indices) \in Nat
    BY <1>7, <1>16, SumOfNaturals
  <2> QED
    BY <1>8, <2>3, <2>4 DEF N
<1>18. mergeSSTables(ts) = s.merged
  BY <1>9 DEF s
<1>19. ASSUME NEW e \in Elems(s.merged)
       PROVE  \E t \in Elems(ts) : e \in Held(t)
  <2>1. PICK i \in 1..n : e \in Elems(runs[i])
    BY <1>15 DEF MergedSoFar
  <2>2. e \in Held(ts[i]) /\ ts[i] \in Elems(ts)
    BY <1>2, <1>4, <1>10, <2>1 DEF Elems
  <2> QED
    BY <2>2
<1>20. ASSUME NEW t \in Elems(ts), NEW e \in Held(t), ~Dropped(e)
       PROVE  e \in Elems(s.merged)
  <2>1. PICK i \in 1..n : t = ts[i]
    BY <1>4 DEF Elems
  <2>2. PICK j \in 1..Len(runs[i]) : e = runs[i][j]
    <3>1. e \in Elems(runs[i])
      BY <1>2, <1>10, <1>20, <2>1
    <3> QED
      BY <3>1 DEF Elems
  <2>3. ~(s.indices[i] < Len(runs[i]))
    BY <1>5, <1>17 DEF Live
  <2>4. s.indices[i] <= Len(runs[i]) /\ s.indices[i] \in Nat /\ Len(runs[i]) \in Nat
    BY <1>3, <1>10, <1>15, <1>16 DEF MergedSoFar
  <2>5. j \in 1..s.indices[i]
    BY <2>3, <2>4
  <2> QED
    BY <1>15, <1>20, <2>2, <2>5 DEF MergedSoFar
<1> QED
  BY <1>16, <1>18, <1>19, <1>20 DEF Merges, Tops
----------------------------------------------------------------------------
(* The invariant *)

\* The memtable's entry of a key is the last one written for it, and later than
\* each version of the key in a table, unless the two were written within the
\* same millisecond.
InMemory == \A k \in Keys : data[k] # Missing =>
  /\ data[k] = newest[k]
  /\ k \notin tied => \A t \in Elems(tables) : \A e \in Held(t) :
       e.key = k => e.timestamp < data[k].timestamp

\* No table holds another version of a key that is as late as the last one
\* written, with the same exception.
NoneNewer == \A k \in Keys : newest[k] # Missing =>
  /\ newest[k].key = k /\ newest[k].timestamp <= now
  /\ k \notin tied => \A t \in Elems(tables) : \A e \in Held(t) :
       e.key = k => e = newest[k] \/ e.timestamp < newest[k].timestamp

\* The table's filter knows its keys.
Sound(t) == t.level \in {0, 1} /\ t.bits = BloomBits(t.entries)

Descends == {p \in Table \X Table : p[2].level <= p[1].level}

\* The tables of level 1 come before those of level 0, and hold nothing of the
\* future.
Layered ==
  /\ \A t \in Elems(tables) : Sound(t) /\ \A e \in Held(t) : e.timestamp <= now
  /\ Chain(tables, Descends)

\* Of two tables, if the first holds e then the second holds no version of its key.
Clears(e) == {p \in Table \X Table :
  e \in Held(p[1]) => \A f \in Held(p[2]) : f.key # e.key}

\* No table after one that holds the last entry written for a key holds a version
\* of the key.
NewestLast == ~shuffled => \A k \in Keys :
  newest[k] # Missing /\ k \notin tied => Chain(tables, Clears(newest[k]))

IInv ==
  /\ TypeOK /\ SizeAccounted /\ NewestSurvives
  /\ InMemory /\ NoneNewer /\ Layered /\ NewestLast
----------------------------------------------------------------------------
(* Compaction *)

LEMMA NewTableHolds ==
  ASSUME NEW level \in Nat, NEW entries \in Seq(Entry), now \in 0..MaxTime
  PROVE  /\ NewTable(level, entries) \in Table
         /\ NewTable(level, entries).level = level
         /\ NewTable(level, entries).entries = entries
         /\ NewTable(level, entries).bits = BloomBits(entries)
<1>1. \A i \in 1..Len(entries) : entries[i] \in Entry /\ Len(entries) \in Nat
  BY LenProperties, ElementOfSeq
<1>2. \A i \in 1..Len(entries) : entries[i].key \in Keys /\ 10 * Len(entries) \in Nat \ {0}
  BY <1>1 DEF Entry
<1>3. ASSUME NEW k \in Keys, NEW size \in Nat \ {0}
      PROVE  BitsOf(k, size) \subseteq Nat
  <2>1. \A h \in HashesOf[k] : h \in Nat
    BY LSMAssumption
  <2>2. \A h \in Nat : h % size \in Nat
    OBVIOUS
  <2> QED
    BY <2>1, <2>2 DEF BitsOf
<1>4. BloomBits(entries) \in SUBSET Nat
  BY <1>2, <1>3 DEF BloomBits
<1> DEFINE b == BloomBits(entries)
<1> HIDE DEF b
<1>5. NewTable(level, entries) =
        [level |-> level, createdAt |-> now, entries |-> entries, bits |-> b]
  BY DEF NewTable, b
<1> QED
  BY <1>4, <1>5 DEF Table, b

\* The tables R stand for those of T, which are of level L: they make no entry up
\* and keep the last version of each key.  If there were but a few, or they were
\* of level 0, they are one.
StandFor(R, L, T, few) ==
  /\ R \in Seq(Table)
  /\ \A t \in Elems(R) : Sound(t) /\ (L = 1 => t.level = 1)
  /\ \A t \in Elems(R) : \A e \in Held(t) : \E u \in T : e \in Held(u)
  /\ \A u \in T : \A e \in Held(u) : Tops(e, T) => \E t \in Elems(R) : e \in Held(t)
  /\ L = 0 \/ few => Len(R) = 1

LEMMA OneTable ==
  ASSUME NEW t \in Table
  PROVE  <<t>> \in Seq(Table) /\ Len(<<t>>) = 1 /\ Elems(<<t>>) = {t}
<1>1. <<t>> \in Seq(Table) /\ Len(<<t>>) = 1 /\ <<t>>[1] = t
  OBVIOUS
<1> DEFINE s == <<t>>
<1>2. Elems(s) = {t}
  <2>1. Len(s) = 1 /\ s[1] = t
    BY <1>1
  <2> HIDE DEF s
  <2> QED
    BY <2>1 DEF Elems
<1> QED
  BY <1>1, <1>2

\* A new table with a merge of T stands for T, whatever comes with it.
LEMMA MergedStandsFor ==
  ASSUME now \in 0..MaxTime, NEW es \in Seq(Entry), NEW T, Merges(es, T)
  PROVE  LET t == NewTable(1, es)
         IN  /\ t \in Table /\ Sound(t) /\ t.level = 1
             /\ \A e \in Held(t) : \E u \in T : e \in Held(u)
             /\ \A u \in T : \A e \in Held(u) : Tops(e, T) => e \in Held(t)
<1> DEFINE t == NewTable(1, es)
<1>1. 1 \in Nat /\ 1 \in {0, 1}
  OBVIOUS
<1>2. t \in Table /\ t.level = 1 /\ t.entries = es /\ t.bits = BloomBits(es)
  BY <1>1, NewTableHolds
<1> HIDE DEF t
<1>3. Held(t) = Elems(es)
  BY <1>2, HeldIsElems
<1>4. Sound(t)
  BY <1>1, <1>2 DEF Sound
<1> QED
  BY <1>2, <1>3, <1>4 DEF Merges, t

\* What becomes of the tables of level 1, oldest first: those after the fourth
\* come before the first four, which are merged.
LEMMA HigherMerges ==
  ASSUME NEW us \in Seq(Table), now \in 0..MaxTime, Len(us) >= 2,
         \A t \in Elems(us) : Sound(t) /\ t.level = 1
  PROVE  StandFor(compactHigherLevel(1, us), 1, Elems(us), Len(us) <= 4)
<1> DEFINE n == Len(us)
           c == IF n < 4 THEN n ELSE 4
           G == SubSeq(us, 5, Len(us))
           H == SubSeq(us, 1, c)
           es == mergeSSTables(H)
           t == NewTable(1, es)
           R == G \o <<t>>
<1>1. n \in Nat /\ n >= 2 /\ n = Len(us)
  BY LenProperties
<1>3. compactHigherLevel(1, us) = R
  BY Zenon DEF compactHigherLevel
<1> HIDE DEF n
<1>2. c \in Nat /\ c <= n /\ (n <= 4 => c = n) /\ (~(n <= 4) => c = 4)
  BY <1>1
<1> HIDE DEF c
<1>4. H \in Seq(Table) /\ PartOf(H, us, 1, c) /\ G \in Seq(Table) /\ PartOf(G, us, 5, n)
  <2>1. 1 \in Nat /\ 5 \in Nat /\ 1 <= 1 /\ 1 <= 5 /\ c <= Len(us) /\ n <= Len(us)
    BY <1>1, <1>2
  <2>2. G = SubSeq(us, 5, n)
    BY DEF n
  <2> HIDE DEF G, H
  <2>3. H = SubSeq(us, 1, c)
    BY DEF H
  <2> QED
    BY <1>1, <1>2, <2>1, <2>2, <2>3, SubSeqHolds
<1> HIDE DEF G, H
<1>5. /\ \A x \in Elems(H) : \E i \in 1..c : x = us[i]
      /\ \A i \in 1..c : us[i] \in Elems(H)
      /\ \A x \in Elems(G) : \E i \in 5..n : x = us[i]
      /\ \A i \in 5..n : us[i] \in Elems(G)
      /\ Len(G) = IF 5 <= n THEN n - 5 + 1 ELSE 0
  BY <1>4 DEF PartOf
<1>6. \A x \in Elems(G) : x \in Elems(us)
  <2>1. \A i \in 5..n : i \in 1..Len(us)
    BY <1>1
  <2> QED
    BY <1>5, <2>1 DEF Elems
<1>7. \A x \in Elems(H) : x \in Elems(us)
  <2>1. \A i \in 1..c : i \in 1..Len(us)
    BY <1>1, <1>2
  <2> QED
    BY <1>5, <2>1 DEF Elems
<1>8. \A x \in Elems(us) : x \in Elems(H) \/ x \in Elems(G)
  <2> SUFFICES ASSUME NEW i \in 1..Len(us)
               PROVE  us[i] \in Elems(H) \/ us[i] \in Elems(G)
    BY DEF Elems
  <2>1. i \in 1..c \/ i \in 5..n
    BY <1>1, <1>2
  <2> QED
    BY <1>5, <2>1
<1>9. Merges(es, Elems(H)) /\ es \in Seq(Entry)
  BY <1>4, KWayMerges DEF Merges
<1> HIDE DEF es
<1>10. /\ t \in Table /\ Sound(t) /\ t.level = 1
       /\ \A e \in Held(t) : \E u \in Elems(H) : e \in Held(u)
       /\ \A u \in Elems(H) : \A e \in Held(u) : Tops(e, Elems(H)) => e \in Held(t)
  BY <1>9, MergedStandsFor
<1> HIDE DEF t
<1>11. <<t>> \in Seq(Table) /\ Len(<<t>>) = 1 /\ Elems(<<t>>) = {t}
  BY <1>10, OneTable
<1> DEFINE S == <<t>>
<1>12. S \in Seq(Table) /\ Len(S) = 1 /\ Elems(S) = {t} /\ R = G \o S
  BY <1>11
<1> HIDE DEF S, R
<1>13. R \in Seq(Table) /\ Len(R) = Len(G) + 1 /\ Elems(R) = Elems(G) \cup {t}
  <2>1. G \o S \in Seq(Table) /\ Len(G \o S) = Len(G) + Len(S)
    <3>1. G \in Seq(Table) /\ S \in Seq(Table)
      BY <1>4, <1>12
    <3> QED
      BY <3>1, ConcatProperties
  <2>2. Elems(G \o S) = Elems(G) \cup Elems(S)
    BY <1>4, <1>12, ConcatHolds
  <2> QED
    BY <1>12, <2>1, <2>2
<1>14. n <= 4 => Len(R) = 1
  BY <1>1, <1>5, <1>13
<1>15. \A x \in Elems(R) : Sound(x) /\ x.level = 1
  BY <1>6, <1>10, <1>13
<1>16. \A x \in Elems(R) : \A e \in Held(x) : \E u \in Elems(us) : e \in Held(u)
  BY <1>6, <1>7, <1>10, <1>13
<1>17. ASSUME NEW u \in Elems(us), NEW e \in Held(u), Tops(e, Elems(us))
       PROVE  \E x \in Elems(R) : e \in Held(x)
  <2>1. CASE u \in Elems(G)
    BY <1>13, <2>1
  <2>2. CASE u \in Elems(H)
    <3>1. Tops(e, Elems(H))
      BY <1>7, <1>17 DEF Tops
    <3> QED
      BY <1>10, <1>13, <2>2, <3>1
  <2> QED
    BY <1>8, <2>1, <2>2
<1>18. (1 = 0 \/ Len(us) <= 4) => Len(R) = 1
  BY <1>1, <1>14
<1> QED
  BY <1>3, <1>13, <1>15, <1>16, <1>17, <1>18 DEF StandFor

\* What becomes of the tables of one level.
LEMMA GroupMerges ==
  ASSUME NEW ts \in Seq(Table), NEW L \in {0, 1}, now \in 0..MaxTime, Len(ts) >= 1,
         \A t \in Elems(ts) : Sound(t) /\ t.level = L
  PROVE  StandFor(compactGroup(L, ts), L, Elems(ts), Len(ts) <= 4)
<1>1. Len(ts) \in Nat
  BY LenProperties
<1>2. CASE Len(ts) <= 1
  <2> DEFINE n == Len(ts)
  <2>1. compactGroup(L, ts) = ts /\ n \in Nat /\ n >= 1 /\ n <= 1
    BY <1>1, <1>2 DEF compactGroup
  <2> HIDE DEF n
  <2>2. n = 1
    BY <2>1
  <2>3. Len(ts) = 1
    BY <2>2 DEF n
  <2> QED
    BY <2>1, <2>3 DEF StandFor
<1>3. CASE ~(Len(ts) <= 1)
  <2> DEFINE us == byAge(ts)
  <2>1. us \in Seq(Table) /\ Len(us) = Len(ts) /\ Elems(us) = Elems(ts)
    BY ByAgeHolds
  <2>2. compactGroup(L, ts) =
          IF L = 0 THEN compactLevel0(us) ELSE compactHigherLevel(L, us)
    BY <1>3 DEF compactGroup, compactLevel
  <2> HIDE DEF us
  <2>3. CASE L = 0
    <3> DEFINE es == mergeSSTablesWithOverlap(us)
               t == NewTable(1, es)
    <3>1. Merges(es, Elems(ts)) /\ es \in Seq(Entry)
      BY <2>1, OverlapMerges DEF Merges
    <3>2. compactGroup(L, ts) = <<t>>
      BY <2>2, <2>3 DEF compactLevel0
    <3> HIDE DEF es
    <3>3. /\ t \in Table /\ Sound(t) /\ t.level = 1
          /\ \A e \in Held(t) : \E u \in Elems(ts) : e \in Held(u)
          /\ \A u \in Elems(ts) : \A e \in Held(u) : Tops(e, Elems(ts)) => e \in Held(t)
      BY <3>1, MergedStandsFor
    <3> HIDE DEF t
    <3>4. <<t>> \in Seq(Table) /\ Len(<<t>>) = 1 /\ Elems(<<t>>) = {t}
      BY <3>3, OneTable
    <3> QED
      BY <3>2, <3>3, <3>4 DEF StandFor
  <2>4. CASE L = 1
    <3>1. Len(us) >= 2 /\ \A t \in Elems(us) : Sound(t) /\ t.level = 1
      BY <1>1, <1>3, <2>1, <2>4
    <3>2. StandFor(compactHigherLevel(1, us), 1, Elems(us), Len(us) <= 4)
      BY <2>1, <3>1, HigherMerges
    <3> QED
      BY <2>1, <2>2, <2>4, <3>2
  <2> QED
    BY <2>3, <2>4
<1> QED
  BY <1>2, <1>3
\* Where the tables of a level are, and which they are.
Places(W, L) == {i \in 1..Len(W) : W[i].level = L}
At(W, L) == {t \in Elems(W) : t.level = L}

\* Tables that can be compacted.
Ordered(W) ==
  W \in Seq(Table) /\ Chain(W, Descends) /\ \A t \in Elems(W) : Sound(t)

LEMMA PlaceHolds ==
  ASSUME NEW W, Ordered(W)
  PROVE  /\ Len(W) \in Nat
         /\ \A i \in 1..Len(W) : W[i] \in Table /\ W[i] \in Elems(W) /\ W[i].level \in {0, 1}
         /\ \A i, j \in 1..Len(W) : i < j => W[j].level <= W[i].level
<1>1. Len(W) \in Nat /\ \A i \in 1..Len(W) : W[i] \in Table
  BY LenProperties, ElementOfSeq DEF Ordered
<1>2. \A i \in 1..Len(W) : W[i] \in Elems(W) /\ W[i].level \in {0, 1}
  BY DEF Elems, Ordered, Sound
<1>3. \A i, j \in 1..Len(W) : i < j => W[j].level <= W[i].level
  BY DEF Ordered, Chain, Descends
<1> QED
  BY <1>1, <1>2, <1>3

\* The levels are met from the highest to the lowest.
LEMMA GroupsHold ==
  ASSUME NEW W, Ordered(W), W # <<>>
  PROVE  LET L == groupByLevel(W)
         IN  /\ L \in Seq({0, 1})
             /\ (Len(L) = 1 \/ (Len(L) = 2 /\ L[1] = 1 /\ L[2] = 0))
             /\ \A t \in Elems(W) : \E i \in 1..Len(L) : t.level = L[i]
             /\ \A i \in 1..Len(L) : \E m \in 1..Len(W) : W[m].level = L[i]
<1> DEFINE n == Len(W)
           firsts == {i \in 1..n : \A j \in 1..(i - 1) : W[j].level # W[i].level}
           first == Taken(W, firsts)
           c == Cardinality(firsts)
           L == groupByLevel(W)
<1>0. /\ \A m \in 1..n : W[m] \in Table /\ W[m] \in Elems(W) /\ W[m].level \in {0, 1}
      /\ \A i, j \in 1..n : i < j => W[j].level <= W[i].level
  BY PlaceHolds
<1>1. n \in Nat /\ n # 0 /\ W \in Seq(Table)
  BY LenProperties, EmptySeq DEF Ordered
<1>2. firsts \in SUBSET (1..n)
  OBVIOUS
<1>3. /\ first \in Seq(Table) /\ Len(first) = c /\ c \in Nat
      /\ \A i \in 1..c : \E m \in firsts : first[i] = W[m]
      /\ \A m \in firsts : \E i \in 1..c : first[i] = W[m]
      /\ \A i, j \in 1..c : i < j =>
           \E m, l \in firsts : m < l /\ first[i] = W[m] /\ first[j] = W[l]
  <2> HIDE DEF firsts
  <2> QED
    BY <1>1, <1>2, TakenHolds DEF n
<1>4. L = [i \in 1..Len(first) |-> first[i].level]
  BY DEF groupByLevel
<1> HIDE DEF first, c
<1>5. ASSUME NEW i \in 1..c
      PROVE  /\ L[i] = first[i].level /\ L[i] \in {0, 1}
             /\ \E m \in 1..n : W[m].level = L[i]
  <2>1. PICK m \in firsts : first[i] = W[m]
    BY <1>3
  <2>2. m \in 1..n /\ L[i] = W[m].level
    BY <1>3, <1>4, <2>1
  <2>3. W[m].level \in {0, 1}
    BY <1>0, <2>2
  <2> QED
    BY <2>1, <2>2, <2>3
<1>6. ASSUME NEW i \in 1..c, NEW j \in 1..c, i < j
      PROVE  L[i] = 1 /\ L[j] = 0
  <2>1. PICK m \in firsts, l \in firsts :
          m < l /\ first[i] = W[m] /\ first[j] = W[l]
    BY <1>3, <1>6
  <2>2. m \in 1..n /\ l \in 1..n /\ m \in 1..(l - 1)
    BY <1>1, <2>1
  <2>3. W[m].level # W[l].level
    BY <2>2
  <2>4. W[l].level <= W[m].level
    BY <1>0, <2>1, <2>2
  <2>5. L[i] = W[m].level /\ L[j] = W[l].level
    BY <1>5, <2>1
  <2>6. L[i] \in {0, 1} /\ L[j] \in {0, 1} /\ L[i] # L[j] /\ L[j] <= L[i]
    BY <1>5, <2>3, <2>4, <2>5
  <2> HIDE DEF L
  <2> QED
    BY <2>6
<1>7. ASSUME NEW t \in Elems(W)
      PROVE  \E i \in 1..c : t.level = L[i]
  <2> DEFINE T == {m \in 1..n : W[m].level = t.level}
  <2>1. T # {} /\ T \subseteq Nat
    BY <1>1 DEF Elems
  <2>2. PICK m \in T : \A l \in T : m <= l
    <3> HIDE DEF T
    <3> QED
      BY <2>1, Least
  <2>3. m \in 1..n /\ W[m].level = t.level
    OBVIOUS
  <2>4. ASSUME NEW j \in 1..(m - 1)
        PROVE  W[j].level # W[m].level
    <3>1. j \in 1..n /\ ~(m <= j)
      BY <1>1, <2>3
    <3> QED
      BY <2>2, <2>3, <3>1
  <2> HIDE DEF T
  <2>5. m \in firsts
    BY <2>3, <2>4
  <2>6. PICK i \in 1..c : first[i] = W[m]
    BY <1>3, <2>5
  <2> QED
    BY <1>5, <2>3, <2>6
<1> HIDE DEF firsts
<1>8. L \in [1..c -> {0, 1}]
  BY <1>3, <1>4, <1>5
<1> HIDE DEF L
<1>9. L \in Seq({0, 1}) /\ Len(L) = c
  BY <1>3, <1>8
<1>10. c # 0
  <2>1. W[1] \in Elems(W)
    BY <1>1 DEF Elems, n
  <2>2. \E i \in 1..c : TRUE
    BY <1>7, <2>1
  <2> QED
    BY <2>2
<1>11. c <= 2
  <2> SUFFICES ASSUME ~(c <= 2)
               PROVE  FALSE
    OBVIOUS
  <2>1. 1 \in 1..c /\ 2 \in 1..c /\ 3 \in 1..c
    BY <1>3
  <2>2. L[2] = 0 /\ L[2] = 1
    BY <1>6, <2>1
  <2> QED
    BY <2>2
<1>12. c = 1 \/ c = 2
  BY <1>3, <1>10, <1>11
<1>13. c = 2 => L[1] = 1 /\ L[2] = 0
  BY <1>6
<1>14. /\ \A t \in Elems(W) : \E i \in 1..Len(L) : t.level = L[i]
       /\ \A i \in 1..Len(L) : \E m \in 1..Len(W) : W[m].level = L[i]
  BY <1>5, <1>7, <1>9 DEF n
<1> QED
  BY <1>9, <1>12, <1>13, <1>14 DEF L

LEMMA LevelMerges ==
  ASSUME NEW W, Ordered(W), now \in 0..MaxTime, NEW L \in {0, 1},
         \E m \in 1..Len(W) : W[m].level = L
  PROVE  StandFor(compactGroup(L, Taken(W, Places(W, L))), L, At(W, L),
                  Cardinality(Places(W, L)) <= 4)
<1> DEFINE n == Len(W)
           at == Places(W, L)
           ts == Taken(W, at)
           c == Cardinality(at)
<1>1. n \in Nat /\ W \in Seq(Table)
  BY LenProperties DEF Ordered
<1>2. /\ at \in SUBSET (1..n) /\ at # {}
      /\ \A m \in at : m \in 1..n /\ W[m].level = L
      /\ \A m \in 1..n : W[m].level = L => m \in at
  BY DEF Places
<1> HIDE DEF at
<1>3. /\ ts \in Seq(Table) /\ Len(ts) = c /\ c \in Nat
      /\ \A i \in 1..c : \E m \in at : ts[i] = W[m]
      /\ \A m \in at : \E i \in 1..c : ts[i] = W[m]
  BY <1>1, <1>2, TakenHolds DEF n
<1>4. c # 0
  <2>1. \E i \in 1..c : TRUE
    BY <1>2, <1>3
  <2> HIDE DEF c
  <2> QED
    BY <2>1
<1>6. Elems(ts) = At(W, L)
  <2>1. ASSUME NEW t \in Elems(ts)
        PROVE  t \in At(W, L)
    <3>1. PICK i \in 1..c : t = ts[i]
      BY <1>3 DEF Elems
    <3>2. PICK m \in at : t = W[m]
      BY <1>3, <3>1
    <3> QED
      BY <1>2, <3>2 DEF At, Elems
  <2>2. ASSUME NEW t \in At(W, L)
        PROVE  t \in Elems(ts)
    <3>1. PICK m \in at : t = W[m]
      BY <1>2 DEF At, Elems
    <3>2. PICK i \in 1..c : ts[i] = W[m]
      BY <1>3, <3>1
    <3> QED
      BY <1>3, <3>1, <3>2 DEF Elems
  <2> QED
    BY <2>1, <2>2
<1>7. \A t \in Elems(ts) : Sound(t) /\ t.level = L
  BY <1>6 DEF At, Elems, Ordered
<1> HIDE DEF ts, c
<1>8. Len(ts) >= 1
  BY <1>3, <1>4
<1>9. StandFor(compactGroup(L, ts), L, Elems(ts), Len(ts) <= 4)
  BY <1>3, <1>7, <1>8, GroupMerges
<1> QED
  BY <1>3, <1>6, <1>9 DEF ts, c, at

\* What stands for the tables of a level.
Made(R, W, L) == StandFor(R, L, At(W, L), Cardinality(Places(W, L)) <= 4)

\* The tables of W are all of one level, or there are some of each.
LEMMA CompactHolds ==
  ASSUME NEW W, Ordered(W), W # <<>>, now \in 0..MaxTime
  PROVE  \/ \E L \in {0, 1} : Made(compact(W), W, L) /\ \A t \in Elems(W) : t.level = L
         \/ /\ \E R, S : compact(W) = R \o S /\ Made(R, W, 1) /\ Made(S, W, 0)
            /\ At(W, 0) # {}
<1> DEFINE L == groupByLevel(W)
           group(l) == compactGroup(l, Taken(W, {i \in 1..Len(W) : W[i].level = l}))
           q == [i \in 1..Len(L) |-> group(L[i])]
           C == FlattenSeq(q)
<1>1. /\ L \in Seq({0, 1})
      /\ Len(L) = 1 \/ (Len(L) = 2 /\ L[1] = 1 /\ L[2] = 0)
      /\ \A t \in Elems(W) : \E i \in 1..Len(L) : t.level = L[i]
      /\ \A i \in 1..Len(L) : \E m \in 1..Len(W) : W[m].level = L[i]
  BY GroupsHold
<1>2. compact(W) = C
  BY DEF compact
<1> HIDE DEF L, group
<1>3. \A i \in 1..Len(L) : L[i] \in {0, 1} /\ Made(group(L[i]), W, L[i])
  <2> SUFFICES ASSUME NEW i \in 1..Len(L)
               PROVE  L[i] \in {0, 1} /\ Made(group(L[i]), W, L[i])
    OBVIOUS
  <2> DEFINE l == L[i]
  <2>1. l \in {0, 1} /\ \E m \in 1..Len(W) : W[m].level = l
    BY <1>1, ElementOfSeq
  <2> HIDE DEF l
  <2>2. Made(group(l), W, l)
    BY <2>1, LevelMerges DEF group, Places, Made
  <2> QED
    BY <2>1, <2>2 DEF l
<1>4. Len(L) \in Nat /\ \A i \in 1..Len(L) : q[i] = group(L[i]) /\ q[i] \in Seq(Table)
  BY <1>1, <1>3 DEF Made, StandFor
<1>5. q = [i \in 1..Len(L) |-> group(L[i])]
  OBVIOUS
<1> HIDE DEF q
<1>6. q \in Seq(Seq(Table)) /\ Len(q) = Len(L)
  BY <1>4, <1>5
<1>7. q # <<>>
  BY <1>1, <1>6
<1>8. PICK g \in [1..Len(q) -> Seq(Table)] :
        /\ C = g[Len(q)]
        /\ g[1] = q[1]
        /\ \A i \in 2..Len(q) : g[i] = g[i - 1] \o q[i]
  <2> DEFINE X == Table
  <2>1. q \in Seq(Seq(X)) /\ q # <<>>
    BY <1>6, <1>7
  <2> HIDE DEF X
  <2>2. \E g \in [1..Len(q) -> Seq(X)] :
          /\ C = g[Len(q)]
          /\ g[1] = q[1]
          /\ \A i \in 2..Len(q) : g[i] = g[i - 1] \o q[i]
    BY <2>1, FlattenUnfolds
  <2> QED
    BY <2>2 DEF X
<1> HIDE DEF C
<1>9. CASE Len(L) = 1
  <2>1. 1 \in 1..Len(L)
    BY <1>9
  <2>2. C = group(L[1])
    BY <1>4, <1>6, <1>8, <1>9, <2>1
  <2>3. \A t \in Elems(W) : t.level = L[1]
    BY <1>1, <1>9
  <2> QED
    BY <1>2, <1>3, <2>1, <2>2, <2>3
<1>10. CASE Len(L) = 2 /\ L[1] = 1 /\ L[2] = 0
  <2>1. 2 \in 2..Len(q) /\ 2 - 1 = 1 /\ 1 \in 1..Len(L) /\ 2 \in 1..Len(L)
    BY <1>6, <1>10
  <2>2. C = g[2] /\ g[2] = g[1] \o q[2]
    BY <1>6, <1>8, <1>10, <2>1
  <2>3. C = group(1) \o group(0)
    BY <1>4, <1>8, <1>10, <2>1, <2>2
  <2>4. Made(group(1), W, 1) /\ Made(group(0), W, 0)
    BY <1>3, <1>10, <2>1
  <2>5. At(W, 0) # {}
    BY <1>1, <1>10, <2>1 DEF At, Elems
  <2> QED
    BY <1>2, <2>3, <2>4, <2>5
<1> QED
  BY <1>1, <1>9, <1>10

\* The tables C make no entry of W up and keep the last version of each key, in
\* the order of the levels; unless more than four tables of level 1 were merged,
\* they come in the order of their entries, too.
Compacts(C, W) ==
  /\ C \in Seq(Table)
  /\ \A t \in Elems(C) : Sound(t)
  /\ \A t \in Elems(C) : \A e \in Held(t) : \E u \in Elems(W) : e \in Held(u)
  /\ \A u \in Elems(W) : \A e \in Held(u) :
       Tops(e, Elems(W)) => \E t \in Elems(C) : e \in Held(t)
  /\ Chain(C, Descends)
  /\ (\A u \in Elems(W) : u.level = 1) => \A t \in Elems(C) : t.level = 1
  /\ Cardinality(Places(W, 1)) <= 4 =>
       \A e : Chain(W, Clears(e)) => Chain(C, Clears(e))

LEMMA ShortChain ==
  ASSUME NEW s, Len(s) = 1, NEW R
  PROVE  Chain(s, R)
BY DEF Chain

\* What stands for the tables of a level is in the order of the levels.
LEMMA MadeDescends ==
  ASSUME NEW W, NEW L \in {0, 1}, NEW R, Made(R, W, L)
  PROVE  Chain(R, Descends)
<1>1. R \in Seq(Table) /\ \A t \in Elems(R) : (L = 1 => t.level = 1)
  BY DEF Made, StandFor
<1>2. CASE L = 0
  <2>1. Len(R) = 1
    BY <1>2 DEF Made, StandFor
  <2> QED
    BY <2>1, ShortChain
<1>3. CASE L = 1
  <2>1. \A i \in 1..Len(R) : R[i] \in Table /\ R[i].level = 1
    BY <1>1, <1>3, ElementOfSeq DEF Elems
  <2> QED
    BY <2>1 DEF Chain, Descends
<1> QED
  BY <1>2, <1>3

LEMMA CompactKeeps ==
  ASSUME NEW W, Ordered(W), W # <<>>, now \in 0..MaxTime
  PROVE  Compacts(compact(W), W)
<1> DEFINE C == compact(W)
           few == Cardinality(Places(W, 1)) <= 4
<1>1. \/ \E L \in {0, 1} : Made(C, W, L) /\ \A t \in Elems(W) : t.level = L
      \/ (\E R, S : C = R \o S /\ Made(R, W, 1) /\ Made(S, W, 0)) /\ At(W, 0) # {}
  BY CompactHolds
<1>2. /\ \A L \in {0, 1} : \A u \in At(W, L) : u \in Elems(W) /\ u.level = L
      /\ \A u \in Elems(W) : \A L \in {0, 1} : u.level = L => u \in At(W, L)
      /\ \A u \in Elems(W) : u.level \in {0, 1} /\ u \in Table
  BY ElementOfSeq DEF At, Ordered, Sound, Elems
<1> HIDE DEF C
<1>3. CASE \E L \in {0, 1} : Made(C, W, L) /\ \A t \in Elems(W) : t.level = L
  <2>1. PICK L \in {0, 1} : Made(C, W, L) /\ \A t \in Elems(W) : t.level = L
    BY <1>3
  <2>2. At(W, L) = Elems(W)
    BY <2>1 DEF At
  <2>3. /\ C \in Seq(Table)
        /\ \A t \in Elems(C) : Sound(t) /\ (L = 1 => t.level = 1)
        /\ \A t \in Elems(C) : \A e \in Held(t) : \E u \in Elems(W) : e \in Held(u)
        /\ \A u \in Elems(W) : \A e \in Held(u) :
             Tops(e, Elems(W)) => \E t \in Elems(C) : e \in Held(t)
        /\ L = 0 \/ Cardinality(Places(W, L)) <= 4 => Len(C) = 1
    BY <2>1, <2>2 DEF Made, StandFor
  <2>4. Chain(C, Descends)
    BY <2>1, MadeDescends
  <2>5. (\A u \in Elems(W) : u.level = 1) => \A t \in Elems(C) : t.level = 1
    <3>1. W[1] \in Elems(W)
      <4>1. Len(W) \in Nat /\ Len(W) # 0
        BY LenProperties, EmptySeq DEF Ordered
      <4>2. 1 \in 1..Len(W)
        BY <4>1
      <4> QED
        BY <4>2 DEF Elems
    <3> QED
      BY <2>1, <2>3, <3>1
  <2>6. few => Len(C) = 1
    BY <2>3
  <2>7. few => \A e : Chain(C, Clears(e))
    BY <2>6, ShortChain
  <2> QED
    BY <2>3, <2>4, <2>5, <2>7 DEF Compacts, C
<1>4. CASE (\E R, S : C = R \o S /\ Made(R, W, 1) /\ Made(S, W, 0)) /\ At(W, 0) # {}
  <2>1. PICK R, S : C = R \o S /\ Made(R, W, 1) /\ Made(S, W, 0)
    BY <1>4
  <2>2. /\ R \in Seq(Table)
        /\ \A t \in Elems(R) : Sound(t) /\ t.level = 1
        /\ \A t \in Elems(R) : \A e \in Held(t) : \E u \in At(W, 1) : e \in Held(u)
        /\ \A u \in At(W, 1) : \A e \in Held(u) :
             Tops(e, At(W, 1)) => \E t \in Elems(R) : e \in Held(t)
        /\ few => Len(R) = 1
    BY <2>1 DEF Made, StandFor
  <2>3. /\ S \in Seq(Table)
        /\ \A t \in Elems(S) : Sound(t)
        /\ \A t \in Elems(S) : \A e \in Held(t) : \E u \in At(W, 0) : e \in Held(u)
        /\ \A u \in At(W, 0) : \A e \in Held(u) :
             Tops(e, At(W, 0)) => \E t \in Elems(S) : e \in Held(t)
        /\ Len(S) = 1
    BY <2>1 DEF Made, StandFor
  <2>4. C \in Seq(Table) /\ Elems(C) = Elems(R) \cup Elems(S)
    BY <2>1, <2>2, <2>3, ConcatProperties, ConcatHolds
  <2>5. \A t \in Elems(C) : Sound(t) /\ t \in Table
    BY <2>2, <2>3, <2>4, ElementOfSeq DEF Elems
  <2>6. \A t \in Elems(C) : \A e \in Held(t) : \E u \in Elems(W) : e \in Held(u)
    BY <1>2, <2>2, <2>3, <2>4
  <2>7. ASSUME NEW u \in Elems(W), NEW e \in Held(u), Tops(e, Elems(W))
        PROVE  \E t \in Elems(C) : e \in Held(t)
    <3>1. Tops(e, At(W, 0)) /\ Tops(e, At(W, 1))
      BY <1>2, <2>7 DEF Tops
    <3>2. u \in At(W, 0) \/ u \in At(W, 1)
      BY <1>2
    <3> QED
      BY <2>2, <2>3, <2>4, <2>7, <3>1, <3>2
  <2>8. Between(R, S, Descends)
    <3>1. ASSUME NEW x \in Elems(R), NEW y \in Elems(S)
          PROVE  <<x, y>> \in Descends
      <4>1. x \in Table /\ y \in Table /\ x.level = 1 /\ y.level \in {0, 1}
        BY <2>2, <2>3, <2>4, <2>5 DEF Sound
      <4>2. y.level <= x.level
        BY <4>1
      <4> QED
        BY <4>1, <4>2 DEF Descends
    <3> QED
      BY <3>1, Zenon DEF Between
  <2>9. Chain(C, Descends)
    <3>1. Chain(R, Descends) /\ Chain(S, Descends)
      BY <2>1, MadeDescends
    <3> QED
      BY <2>1, <2>2, <2>3, <2>8, <3>1, ChainOfConcat
  <2>10. ASSUME \A u \in Elems(W) : u.level = 1
         PROVE  FALSE
    BY <1>2, <1>4, <2>10
  <2>11. ASSUME few, NEW e, Chain(W, Clears(e))
         PROVE  Chain(C, Clears(e))
    <3>1. Chain(R, Clears(e)) /\ Chain(S, Clears(e))
      BY <2>2, <2>3, <2>11, ShortChain
    <3>2. ASSUME NEW x \in Elems(R), NEW y \in Elems(S)
          PROVE  <<x, y>> \in Clears(e)
      <4>1. x \in Table /\ y \in Table
        BY <2>4, <2>5, <3>2
      <4>2. ASSUME e \in Held(x), NEW f \in Held(y)
            PROVE  f.key # e.key
        <5>1. PICK u \in At(W, 1) : e \in Held(u)
          BY <2>2, <3>2, <4>2
        <5>2. PICK w \in At(W, 0) : f \in Held(w)
          BY <2>3, <3>2, <4>2
        <5>3. PICK i \in 1..Len(W) : u = W[i] /\ W[i].level = 1
          BY <5>1 DEF At, Elems
        <5>4. PICK j \in 1..Len(W) : w = W[j] /\ W[j].level = 0
          BY <5>2 DEF At, Elems
        <5>5. ~(j < i) /\ i # j
          BY <5>3, <5>4, PlaceHolds
        <5>6. i < j
          BY <5>3, <5>4, <5>5
        <5>7. <<u, w>> \in Clears(e)
          BY <2>11, <5>3, <5>4, <5>6 DEF Chain
        <5> QED
          BY <5>1, <5>2, <5>7 DEF Clears
      <4> QED
        BY <4>1, <4>2 DEF Clears
    <3>3. Between(R, S, Clears(e))
      BY <3>2, Zenon DEF Between
    <3> QED
      BY <2>1, <2>2, <2>3, <3>1, <3>3, ChainOfConcat
  <2> QED
    BY <2>4, <2>5, <2>6, <2>7, <2>9, <2>10, <2>11 DEF Compacts, C
<1> QED
  BY <1>1, <1>3, <1>4
----------------------------------------------------------------------------
(* Size *)

LEMMA BytesHold ==
  /\ \A e \in Entry : Bytes(e) = calculateEntrySize(e)
  /\ \A e \in Entry \cup {Missing} : Bytes(e) \in Nat
<1>1. ASSUME NEW e \in Entry
      PROVE  Bytes(e) = calculateEntrySize(e) /\ calculateEntrySize(e) \in Nat
  <2>1. e # Missing
    BY LSMAssumption
  <2>2. SizeOf[e.value] \in Nat /\ KeySize \in Nat
    BY LSMAssumption DEF Entry
  <2>3. calculateEntrySize(e) \in Nat
    BY <2>2 DEF calculateEntrySize
  <2> QED
    BY <2>1, <2>3 DEF Bytes
<1>2. Bytes(Missing) = 0
  BY DEF Bytes
<1> QED
  BY <1>1, <1>2

\* Writing or removing the entry of one key changes the size by the difference.
LEMMA SizeFollows ==
  ASSUME TypeOK, SizeAccounted, NEW k \in Keys, NEW e \in Entry \cup {Missing},
         data' = [data EXCEPT ![k] = e],
         sizeBytes' = sizeBytes - Bytes(data[k]) + Bytes(e)
  PROVE  /\ data' \in [Keys -> Entry \cup {Missing}]
         /\ sizeBytes' \in Nat
         /\ SizeAccounted'
<1> DEFINE f == [l \in Keys |-> Bytes(data[l])]
           h == [l \in Keys |-> Bytes(data'[l])]
<1>1. IsFiniteSet(Keys)
  BY LSMAssumption
<1>2. data \in [Keys -> Entry \cup {Missing}]
  BY DEF TypeOK
<1>3. /\ data' \in [Keys -> Entry \cup {Missing}]
      /\ data'[k] = e /\ \A l \in Keys : l # k => data'[l] = data[l]
  BY <1>2
<1>4. f \in [Keys -> Nat] /\ h \in [Keys -> Nat]
  BY <1>2, <1>3, BytesHold
<1>5. f[k] = Bytes(data[k]) /\ h[k] = Bytes(e) /\ \A l \in Keys : l # k => h[l] = f[l]
  BY <1>3
<1>6. sizeBytes = SumFunction(f)
  BY DEF SizeAccounted
<1> HIDE DEF f, h
<1>7. SumFunction(h) = SumFunction(f) - f[k] + h[k]
  <2>1. f \in [Keys -> Int] /\ h \in [Keys -> Int]
    BY <1>4
  <2> QED
    BY <1>1, <1>5, <2>1, SumOfChange
<1>8. SumFunction(h) \in Nat
  BY <1>1, <1>4, SumOfNaturals
<1>9. sizeBytes' = SumFunction(h)
  BY <1>5, <1>6, <1>7
<1> QED
  BY <1>3, <1>8, <1>9 DEF h, SizeAccounted

LEMMA EmptySizes ==
  SumFunction([k \in Keys |-> Bytes(Missing)]) = 0
<1> DEFINE f == [k \in Keys |-> Bytes(Missing)]
<1>1. f \in [Keys -> Int] /\ \A k \in Keys : f[k] = 0
  BY DEF Bytes
<1>2. IsFiniteSet(Keys)
  BY LSMAssumption
<1> HIDE DEF f
<1>3. SumFunction(f) = 0
  BY <1>1, <1>2, SumOfZeros
<1> QED
  BY <1>3 DEF f
----------------------------------------------------------------------------(* Every step keeps the invariant *)

LEMMA InitKeeps == Init => IInv
<1> SUFFICES ASSUME Init
             PROVE  IInv
  OBVIOUS
<1>1. TypeOK
  <2>1. 0 \in 0..MaxTime /\ 0 \in 0..MaxFlushes
    BY LSMAssumption
  <2>2. <<>> \in Seq(Table)
    BY EmptySeq
  <2> QED
    BY <2>1, <2>2 DEF Init, TypeOK
<1>2. SizeAccounted
  <2>1. [k \in Keys |-> Bytes(data[k])] = [k \in Keys |-> Bytes(Missing)]
    BY DEF Init
  <2> QED
    BY <2>1, EmptySizes DEF Init, SizeAccounted
<1>3. Len(tables) = 0 /\ \A k \in Keys : data[k] = Missing /\ newest[k] = Missing
  BY DEF Init
<1>4. NewestSurvives /\ InMemory /\ NoneNewer /\ NewestLast
  BY <1>3 DEF NewestSurvives, InMemory, NoneNewer, Wanted, NewestLast
<1>5. Layered
  <2>1. Elems(tables) = {}
    BY <1>3 DEF Elems
  <2> QED
    BY <1>3, <2>1 DEF Layered, Chain
<1> QED
  BY <1>1, <1>2, <1>4, <1>5 DEF IInv

\* What the tables hold is well formed, and of the past or the present.
LEMMA HeldHolds ==
  ASSUME IInv
  PROVE  /\ now \in Nat
         /\ \A t \in Elems(tables) : t \in Table /\ t.level \in {0, 1}
         /\ \A t \in Elems(tables) : \A e \in Held(t) :
              e \in Entry /\ e.timestamp \in Nat /\ e.timestamp <= now
<1>1. now \in Nat
  BY LSMAssumption DEF IInv, TypeOK
<1>2. \A t \in Elems(tables) : t \in Table /\ t.level \in {0, 1}
  BY ElementOfSeq DEF IInv, TypeOK, Elems, Layered, Sound
<1>3. \A t \in Elems(tables) : \A e \in Held(t) : e \in Entry /\ e.timestamp <= now
  BY <1>2, HeldIsElems DEF IInv, Layered
<1>4. \A e \in Entry : e.timestamp \in Nat
  BY LSMAssumption DEF Entry
<1> QED
  BY <1>1, <1>2, <1>3, <1>4

LEMMA SetKeeps ==
  ASSUME IInv, NEW k \in Keys, NEW v \in Values \cup {Null}, NEW ttl \in TTLs \cup {0},
         Set(k, v, ttl)
  PROVE  IInv'
<1> USE DEF IInv
<1> DEFINE e == [key |-> k, value |-> v, timestamp |-> now,
                 ttl |-> IF ttl = 0 THEN 0 ELSE now + ttl]
<1>1. /\ sizeBytes' = sizeBytes - Bytes(data[k]) + calculateEntrySize(e)
      /\ data' = [data EXCEPT ![k] = e]
      /\ newest' = [newest EXCEPT ![k] = e]
      /\ tied' = IF FlushedNow(k) THEN tied \cup {k} ELSE tied \ {k}
      /\ now' = now /\ tables' = tables /\ flushes' = flushes /\ shuffled' = shuffled
  BY DEF Set
<1>2. e \in Entry
  <2>1. now \in 0..MaxTime /\ now \in Nat
    BY LSMAssumption DEF TypeOK
  <2>2. ttl \in Nat
    BY LSMAssumption
  <2> QED
    BY <2>1, <2>2 DEF Entry
<1>3. e.key = k /\ e.timestamp = now
  OBVIOUS
<1> HIDE DEF e
<1>4. sizeBytes' = sizeBytes - Bytes(data[k]) + Bytes(e)
  BY <1>1, <1>2, BytesHold
<1>5. /\ data' \in [Keys -> Entry \cup {Missing}] /\ sizeBytes' \in Nat /\ SizeAccounted'
  BY <1>1, <1>2, <1>4, SizeFollows
<1>6. /\ newest' \in [Keys -> Entry \cup {Missing}]
      /\ data'[k] = e /\ newest'[k] = e
      /\ \A l \in Keys : l # k => data'[l] = data[l] /\ newest'[l] = newest[l]
  BY <1>1, <1>2 DEF TypeOK
<1>7. \A l \in Keys : l # k /\ l \notin tied' => l \notin tied
  BY <1>1
<1>8. TypeOK'
  BY <1>1, <1>5, <1>6 DEF TypeOK
<1>9. NewestSurvives'
  BY <1>1, <1>6, <1>7 DEF NewestSurvives, Wanted, Dropped, Expired
<1>10. ASSUME k \notin tied', NEW t \in Elems(tables), NEW f \in Held(t), f.key = k
       PROVE  f.timestamp < e.timestamp
  <2>1. ~FlushedNow(k)
    BY <1>1, <1>10
  <2>2. f.timestamp # now
    BY <1>10, <2>1 DEF FlushedNow, Elems
  <2>3. f.timestamp \in Nat /\ f.timestamp <= now /\ now \in Nat
    BY HeldHolds
  <2> QED
    BY <1>3, <2>2, <2>3
<1>11. InMemory'
  BY <1>1, <1>6, <1>7, <1>10 DEF InMemory
<1>12. NoneNewer'
  <2>1. now <= now
    BY LSMAssumption DEF TypeOK
  <2> QED
    BY <1>1, <1>3, <1>6, <1>7, <1>10, <2>1 DEF NoneNewer
<1>13. Layered'
  BY <1>1 DEF Layered
<1>14. NewestLast'
  <2> SUFFICES ASSUME ~shuffled, NEW l \in Keys, newest'[l] # Missing, l \notin tied'
               PROVE  Chain(tables, Clears(newest'[l]))
    BY <1>1 DEF NewestLast
  <2>1. CASE l # k
    BY <1>6, <1>7, <2>1 DEF NewestLast
  <2>2. CASE l = k
    <3>1. \A t \in Elems(tables) : t \in Table /\ e \notin Held(t)
      <4>1. ~(e.timestamp < e.timestamp)
        BY <1>3, LSMAssumption DEF TypeOK
      <4> QED
        BY <1>3, <1>10, <2>2, <4>1, HeldHolds
    <3>2. \A x, y \in Elems(tables) : <<x, y>> \in Clears(e)
      BY <3>1 DEF Clears
    <3>3. Chain(tables, Clears(e))
      BY <3>2 DEF Chain, Elems
    <3> QED
      BY <1>6, <2>2, <3>3
  <2> QED
    BY <2>1, <2>2
<1> QED
  BY <1>5, <1>8, <1>9, <1>11, <1>12, <1>13, <1>14

\* The entry of a key leaves the memtable.
LEMMA DropKeeps ==
  ASSUME IInv, NEW k \in Keys, Get(k) \/ Delete(k)
  PROVE  IInv'
<1> USE DEF IInv
<1>1. /\ data[k] # Missing
      /\ data' = [data EXCEPT ![k] = Missing]
      /\ sizeBytes' = sizeBytes - calculateEntrySize(data[k])
      /\ now' = now /\ tables' = tables /\ flushes' = flushes
      /\ tied' = tied /\ shuffled' = shuffled
      /\ \/ newest' = newest /\ Expired(data[k])
         \/ newest' = [newest EXCEPT ![k] = Missing]
  BY DEF Get, Delete, history
<1>2. data[k] \in Entry
  BY <1>1 DEF TypeOK
<1>3. sizeBytes' = sizeBytes - Bytes(data[k]) + Bytes(Missing)
  <2>1. Bytes(data[k]) = calculateEntrySize(data[k]) /\ Bytes(Missing) = 0
    BY <1>2, BytesHold DEF Bytes
  <2>2. sizeBytes \in Nat /\ Bytes(data[k]) \in Nat
    BY <1>2, BytesHold DEF TypeOK
  <2> QED
    BY <1>1, <2>1, <2>2
<1>4. /\ data' \in [Keys -> Entry \cup {Missing}] /\ sizeBytes' \in Nat /\ SizeAccounted'
  BY <1>1, <1>3, SizeFollows
<1>5. /\ newest' \in [Keys -> Entry \cup {Missing}]
      /\ data'[k] = Missing
      /\ \A l \in Keys : l # k => data'[l] = data[l] /\ newest'[l] = newest[l]
      /\ \/ newest'[k] = newest[k] /\ Expired(data[k])
         \/ newest'[k] = Missing
  BY <1>1 DEF TypeOK
<1>6. TypeOK'
  BY <1>1, <1>4, <1>5 DEF TypeOK
<1>7. ASSUME NEW l \in Keys, Wanted(l)', l \notin tied
      PROVE  \/ data'[l] = newest'[l]
             \/ \E i \in 1..Len(tables') : newest'[l] \in Held(tables'[i])
  <2>1. l # k
    <3>1. newest[k] = data[k]
      BY <1>1 DEF InMemory
    <3> QED
      BY <1>1, <1>5, <1>7, <3>1 DEF Wanted, Dropped, Expired
  <2>2. Wanted(l)
    BY <1>1, <1>5, <1>7, <2>1 DEF Wanted, Dropped, Expired
  <2> QED
    BY <1>1, <1>5, <1>7, <2>1, <2>2 DEF NewestSurvives
<1>8. NewestSurvives'
  BY <1>1, <1>7 DEF NewestSurvives
<1>9. InMemory'
  BY <1>1, <1>5 DEF InMemory
<1>10. NoneNewer'
  BY <1>1, <1>5 DEF NoneNewer
<1>11. Layered'
  BY <1>1 DEF Layered
<1>12. NewestLast'
  BY <1>1, <1>5 DEF NewestLast
<1> QED
  BY <1>4, <1>6, <1>8, <1>9, <1>10, <1>11, <1>12

LEMMA LaterIsLess ==
  ASSUME now \in 0..MaxTime, now' = now + 1, NEW k \in Keys,
         newest' = newest, TypeOK, Wanted(k)'
  PROVE  Wanted(k)
<1>1. newest[k] # Missing /\ newest[k] \in Entry
  BY DEF Wanted, TypeOK
<1>2. newest[k].ttl \in Nat /\ now \in Nat
  BY <1>1, LSMAssumption DEF Entry
<1>3. newest[k].ttl < now => newest[k].ttl < now + 1
  BY <1>2
<1> QED
  BY <1>1, <1>3 DEF Wanted, Dropped, Expired

LEMMA TickKeeps ==
  ASSUME IInv, Tick
  PROVE  IInv'
<1> USE DEF IInv
<1>1. /\ now < MaxTime /\ now' = now + 1 /\ now \in 0..MaxTime /\ now \in Nat
      /\ data' = data /\ sizeBytes' = sizeBytes /\ tables' = tables /\ flushes' = flushes
      /\ newest' = newest /\ tied' = tied /\ shuffled' = shuffled
  BY LSMAssumption DEF Tick, TypeOK, memtable, history
<1>2. TypeOK'
  BY <1>1, LSMAssumption DEF TypeOK
<1>3. SizeAccounted'
  BY <1>1 DEF SizeAccounted
<1>4. NewestSurvives'
  <2>1. \A k \in Keys : Wanted(k)' => Wanted(k)
    BY <1>1, LaterIsLess
  <2> QED
    BY <1>1, <2>1 DEF NewestSurvives
<1>5. InMemory'
  BY <1>1 DEF InMemory
<1>6. NoneNewer'
  <2>1. \A k \in Keys : newest[k] # Missing => newest[k].timestamp <= now + 1
    <3> SUFFICES ASSUME NEW k \in Keys, newest[k] # Missing
                 PROVE  newest[k].timestamp <= now + 1
      OBVIOUS
    <3>1. newest[k] \in Entry /\ newest[k].timestamp <= now
      BY DEF NoneNewer, TypeOK
    <3>2. newest[k].timestamp \in Nat
      BY <3>1, LSMAssumption DEF Entry
    <3> QED
      BY <1>1, <3>1, <3>2
  <2> QED
    BY <1>1, <2>1 DEF NoneNewer
<1>7. Layered'
  <2>1. ASSUME NEW t \in Elems(tables), NEW e \in Held(t)
        PROVE  e.timestamp <= now + 1
    <3>1. e.timestamp \in Nat /\ e.timestamp <= now
      BY HeldHolds
    <3> QED
      BY <1>1, <3>1
  <2> QED
    BY <1>1, <2>1 DEF Layered
<1>8. NewestLast'
  BY <1>1 DEF NewestLast
<1> QED
  BY <1>2, <1>3, <1>4, <1>5, <1>6, <1>7, <1>8

LEMMA FlushKeeps ==
  ASSUME IInv, Flush
  PROVE  IInv'
<1> USE DEF IInv
<1> DEFINE es == getAllEntries
           T == NewTable(0, es)
           s == <<T>>
<1>1. /\ now' = now /\ now \in 0..MaxTime /\ flushes < MaxFlushes /\ flushes' = flushes + 1
      /\ data' = [k \in Keys |-> Missing] /\ sizeBytes' = 0
      /\ newest' = newest /\ tied' = tied /\ shuffled' = shuffled
      /\ tables' = Append(tables, T)
  BY DEF Flush, TypeOK, history
<1>2. /\ es \in Seq(Entry)
      /\ \A e \in Elems(es) : \E k \in Keys : data[k] # Missing /\ e = data[k]
      /\ \A k \in Keys : data[k] # Missing /\ ~Expired(data[k]) => data[k] \in Elems(es)
  <2>1. \A k \in Keys : data[k] # Missing => data[k].key = k
    BY DEF InMemory, NoneNewer
  <2> QED
    BY <2>1, FlushedHolds
<1> HIDE DEF es
<1>3. /\ T \in Table /\ T.level = 0 /\ T.entries = es /\ T.bits = BloomBits(T.entries)
  <2>1. 0 \in Nat
    OBVIOUS
  <2> QED
    BY <1>1, <1>2, <2>1, NewTableHolds
<1>4. Held(T) = Elems(es) /\ Sound(T)
  BY <1>3, HeldIsElems DEF Sound
<1> HIDE DEF T
<1>5. tables \in Seq(Table)
  BY DEF TypeOK
<1>6. s \in Seq(Table) /\ Len(s) = 1 /\ Elems(s) = {T} /\ tables' = tables \o s
  BY <1>1, <1>3, <1>5, OneTable, AppendIsConcat
<1> HIDE DEF s
<1>7. tables' \in Seq(Table) /\ Elems(tables') = Elems(tables) \cup {T}
  BY <1>5, <1>6, ConcatProperties, ConcatHolds
<1>8. ASSUME NEW e \in Held(T)
      PROVE  e.key \in Keys /\ data[e.key] = e /\ data[e.key] # Missing /\ newest[e.key] = e
  <2>1. PICK k \in Keys : data[k] # Missing /\ e = data[k]
    BY <1>2, <1>4, <1>8
  <2>2. newest[k] = e /\ e.key = k
    BY <2>1 DEF InMemory, NoneNewer
  <2> QED
    BY <2>1, <2>2
<1>9. TypeOK'
  <2>1. flushes + 1 \in 0..MaxFlushes
    BY <1>1, LSMAssumption DEF TypeOK
  <2> QED
    BY <1>1, <1>7, <2>1 DEF TypeOK
<1>10. SizeAccounted'
  <2>1. [k \in Keys |-> Bytes(data'[k])] = [k \in Keys |-> Bytes(Missing)]
    BY <1>1
  <2> QED
    BY <1>1, <2>1, EmptySizes DEF SizeAccounted
<1>11. ASSUME NEW k \in Keys, Wanted(k)', k \notin tied
       PROVE  \E t \in Elems(tables') : newest[k] \in Held(t)
  <2>1. Wanted(k)
    BY <1>1, <1>11 DEF Wanted, Dropped, Expired
  <2>2. CASE data[k] = newest[k]
    <3>1. newest[k] \in Elems(es)
      BY <1>2, <2>1, <2>2 DEF Wanted, Dropped
    <3> QED
      BY <1>4, <1>7, <3>1
  <2>3. CASE \E i \in 1..Len(tables) : newest[k] \in Held(tables[i])
    BY <1>7, <2>3 DEF Elems
  <2> QED
    BY <1>11, <2>1, <2>2, <2>3 DEF NewestSurvives
<1>12. NewestSurvives'
  BY <1>1, <1>11 DEF NewestSurvives, Elems
<1>13. InMemory'
  BY <1>1 DEF InMemory
<1>14. NoneNewer'
  BY <1>1, <1>7, <1>8 DEF NoneNewer
<1>15. Layered'
  <2>1. \A t \in Elems(tables') : Sound(t)
    BY <1>4, <1>7 DEF Layered
  <2>2. ASSUME NEW e \in Held(T)
        PROVE  e.timestamp <= now
    BY <1>8, <2>2 DEF NoneNewer
  <2>3. \A t \in Elems(tables') : \A e \in Held(t) : e.timestamp <= now
    BY <1>7, <2>2 DEF Layered
  <2>4. ASSUME NEW x \in Elems(tables), NEW y \in Elems(s)
        PROVE  <<x, y>> \in Descends
    <3>1. x \in Table /\ x.level \in {0, 1} /\ y = T
      BY <1>6, <2>4, HeldHolds
    <3>2. y.level <= x.level
      BY <1>3, <3>1
    <3> QED
      BY <1>3, <3>1, <3>2 DEF Descends
  <2>5. Between(tables, s, Descends)
    BY <2>4, Zenon DEF Between
  <2>6. Chain(tables', Descends)
    <3>1. Chain(tables, Descends) /\ Chain(s, Descends)
      BY <1>6, ShortChain DEF Layered
    <3> QED
      BY <1>5, <1>6, <2>5, <3>1, ChainOfConcat
  <2> QED
    BY <1>1, <2>1, <2>3, <2>6 DEF Layered
<1>16. ASSUME ~shuffled, NEW k \in Keys, newest[k] # Missing, k \notin tied
       PROVE  Chain(tables', Clears(newest[k]))
  <2> DEFINE e == newest[k]
  <2>1. e.key = k
    BY <1>16 DEF NoneNewer
  <2>2. e \in Entry /\ e.timestamp \in Nat
    BY <1>16, LSMAssumption DEF TypeOK, Entry
  <2>3. ASSUME NEW x \in Elems(tables), NEW y \in Elems(s)
        PROVE  <<x, y>> \in Clears(e)
    <3>1. x \in Table /\ y = T
      BY <1>6, <2>3, HeldHolds
    <3>2. ASSUME e \in Held(x), NEW f \in Held(T), f.key = k
          PROVE  FALSE
      <4>1. data[k] # Missing /\ data[k] = e
        BY <1>8, <3>2
      <4>2. e.timestamp < data[k].timestamp
        BY <1>16, <2>1, <3>2, <4>1 DEF InMemory
      <4> HIDE DEF e
      <4> QED
        BY <2>2, <4>1, <4>2
    <3> QED
      BY <1>3, <2>1, <3>1, <3>2 DEF Clears
  <2>4. Between(tables, s, Clears(e))
    BY <2>3, Zenon DEF Between
  <2>5. Chain(tables, Clears(e)) /\ Chain(s, Clears(e))
    BY <1>6, <1>16, ShortChain DEF NewestLast
  <2> QED
    BY <1>5, <1>6, <2>4, <2>5, ChainOfConcat
<1>17. NewestLast'
  BY <1>1, <1>16 DEF NewestLast
<1> QED
  BY <1>9, <1>10, <1>12, <1>13, <1>14, <1>15, <1>17

\* A table's level changes, but not what it holds.
LEMMA SetLevelKeeps ==
  ASSUME IInv, SetLevel
  PROVE  IInv'
<1> USE DEF IInv
<1> DEFINE n == Len(tables)
<1>1. PICK i \in 1..n :
        /\ tables[i].level = 0 /\ \A j \in 1..(i - 1) : tables[j].level = 1
        /\ tables' = [tables EXCEPT ![i].level = 1]
  BY DEF SetLevel
<1>2. /\ now' = now /\ data' = data /\ sizeBytes' = sizeBytes /\ flushes' = flushes
      /\ newest' = newest /\ tied' = tied /\ shuffled' = shuffled
  BY DEF SetLevel, memtable, history
<1> DEFINE u == [tables[i] EXCEPT !.level = 1]
<1>3. n \in Nat /\ tables \in Seq(Table) /\ \A j \in 1..n : tables[j] \in Table
  BY LenProperties, ElementOfSeq DEF TypeOK
<1>4. /\ u \in Table /\ u.level = 1
      /\ u.entries = tables[i].entries /\ u.bits = tables[i].bits
  BY <1>3 DEF Table
<1>5. tables' = [tables EXCEPT ![i] = u]
  BY <1>1
<1> HIDE DEF u
<1>6. /\ tables' \in Seq(Table) /\ Len(tables') = n
      /\ tables'[i] = u /\ \A j \in 1..n : j # i => tables'[j] = tables[j]
  <2>1. tables \in [1..n -> Table]
    BY <1>3, LenProperties
  <2>2. /\ tables' \in [1..n -> Table]
        /\ tables'[i] = u /\ \A j \in 1..n : j # i => tables'[j] = tables[j]
    BY <1>4, <1>5, <2>1
  <2> QED
    BY <1>3, <2>2
<1>7. \A j \in 1..n : Held(tables'[j]) = Held(tables[j])
  BY <1>4, <1>6 DEF Held
<1>8. /\ \A j \in 1..n : tables[j] \in Elems(tables) /\ tables'[j] \in Elems(tables')
      /\ \A t \in Elems(tables) : \E j \in 1..n : t = tables[j]
      /\ \A t \in Elems(tables') : \E j \in 1..n : t = tables'[j]
  BY <1>6 DEF Elems
<1> HIDE DEF n
<1>9. \A t \in Elems(tables') : \E w \in Elems(tables) : Held(t) = Held(w)
  BY <1>7, <1>8
<1>10. TypeOK'
  BY <1>2, <1>6 DEF TypeOK
<1>11. SizeAccounted'
  BY <1>2 DEF SizeAccounted
<1>12. NewestSurvives'
  <2>1. \A k \in Keys : Wanted(k)' <=> Wanted(k)
    BY <1>2 DEF Wanted, Dropped, Expired
  <2> QED
    BY <1>2, <1>6, <1>7, <2>1 DEF NewestSurvives, n
<1>13. InMemory'
  BY <1>2, <1>9 DEF InMemory
<1>14. NoneNewer'
  BY <1>2, <1>9 DEF NoneNewer
<1>15. Layered'
  <2>1. \A j \in 1..n : Sound(tables[j]) /\ tables[j].level \in {0, 1}
    BY <1>8 DEF Layered, Sound
  <2>2. Sound(u)
    BY <1>1, <1>4, <2>1 DEF Sound
  <2>3. \A t \in Elems(tables') : Sound(t) /\ \A e \in Held(t) : e.timestamp <= now
    BY <1>6, <1>8, <1>9, <2>1, <2>2 DEF Layered
  <2>4. ASSUME NEW j \in 1..n, NEW l \in 1..n, j < l
        PROVE  <<tables'[j], tables'[l]>> \in Descends
    <3>1. tables'[j] \in Table /\ tables'[l] \in Table
      BY <1>3, <1>4, <1>6
    <3>2. <<tables[j], tables[l]>> \in Descends
      BY <2>4 DEF Layered, Chain, n
    <3>3. tables'[l].level <= tables'[j].level
      <4>1. CASE l = i
        <5>1. j \in 1..(i - 1) /\ j # i
          BY <1>3, <2>4, <4>1
        <5> QED
          BY <1>1, <1>4, <1>6, <4>1, <5>1
      <4>2. CASE j = i
        BY <1>4, <1>6, <2>1, <2>4, <4>2
      <4>3. CASE l # i /\ j # i
        BY <1>6, <3>2, <4>3 DEF Descends
      <4> QED
        BY <4>1, <4>2, <4>3
    <3> QED
      BY <3>1, <3>3 DEF Descends
  <2>5. Chain(tables', Descends)
    BY <1>6, <2>4 DEF Chain
  <2> QED
    BY <1>2, <2>3, <2>5 DEF Layered
<1>16. ASSUME NEW e, Chain(tables, Clears(e))
       PROVE  Chain(tables', Clears(e))
  <2>1. ASSUME NEW j \in 1..n, NEW l \in 1..n, j < l
        PROVE  <<tables'[j], tables'[l]>> \in Clears(e)
    <3>1. tables'[j] \in Table /\ tables'[l] \in Table
      BY <1>3, <1>4, <1>6
    <3>2. <<tables[j], tables[l]>> \in Clears(e)
      BY <1>16, <2>1 DEF Chain, n
    <3> QED
      BY <1>7, <3>1, <3>2 DEF Clears
  <2> QED
    BY <1>6, <2>1 DEF Chain
<1>17. NewestLast'
  BY <1>2, <1>16 DEF NewestLast
<1> QED
  BY <1>10, <1>11, <1>12, <1>13, <1>14, <1>15, <1>17

\* Three chains with R between each two of them are a chain.
LEMMA ChainOfThree ==
  ASSUME NEW X, NEW A \in Seq(X), NEW C \in Seq(X), NEW B \in Seq(X), NEW R,
         Chain(A, R), Chain(C, R), Chain(B, R),
         Between(A, C, R), Between(A, B, R), Between(C, B, R)
  PROVE  Chain(A \o C \o B, R)
<1> DEFINE D == A \o C
<1>1. D \in Seq(X) /\ Elems(D) = Elems(A) \cup Elems(C) /\ Chain(D, R)
  BY ConcatProperties, ConcatHolds, ChainOfConcat
<1> HIDE DEF D
<1>2. Between(D, B, R)
  BY <1>1, Zenon DEF Between
<1>3. Chain(D \o B, R)
  BY <1>1, <1>2, ChainOfConcat
<1> QED
  BY <1>3 DEF D

LEMMA CompactStepKeeps ==
  ASSUME IInv, Compact
  PROVE  IInv'
<1> USE DEF IInv
<1>1. PICK m \in 1..Len(tables), n \in 1..Len(tables) :
        LET run == SubSeq(tables, m, n)
        IN  /\ m < n /\ \A i \in 1..(m - 1) : tables[i].level = 1
            /\ tables' = SubSeq(tables, 1, m - 1) \o compact(run)
                           \o SubSeq(tables, n + 1, Len(tables))
            /\ shuffled' = (shuffled \/ Cardinality({i \in 1..Len(run) : run[i].level = 1}) > 4)
            /\ UNCHANGED <<now, memtable, flushes, newest, tied>>
  BY DEF Compact
<1> DEFINE A == SubSeq(tables, 1, m - 1)
           W == SubSeq(tables, m, n)
           B == SubSeq(tables, n + 1, Len(tables))
           C == compact(W)
           P == Places(W, 1)
<1>2. /\ now' = now /\ data' = data /\ sizeBytes' = sizeBytes /\ flushes' = flushes
      /\ newest' = newest /\ tied' = tied
      /\ m < n /\ \A i \in 1..(m - 1) : tables[i].level = 1
      /\ tables' = A \o C \o B
      /\ shuffled' = (shuffled \/ Cardinality(P) > 4)
  BY <1>1 DEF memtable, Places
<1>3. tables \in Seq(Table) /\ now \in 0..MaxTime
  BY DEF TypeOK
<1>4. CutAt(tables, m, n, A, W, B)
  BY DEF CutAt
<1> HIDE DEF A, W, B, C, P
<1>5. /\ A \in Seq(Table) /\ W \in Seq(Table) /\ B \in Seq(Table) /\ Len(W) >= 1
      /\ Elems(tables) = Elems(A) \cup Elems(W) \cup Elems(B)
      /\ \A x \in Elems(A) : \E i \in 1..(m - 1) : x = tables[i]
      /\ \A R : Chain(tables, R) =>
           /\ Chain(A, R) /\ Chain(W, R) /\ Chain(B, R)
           /\ Between(A, W, R) /\ Between(A, B, R) /\ Between(W, B, R)
  BY <1>2, <1>3, <1>4, CutHolds
<1>6. Chain(tables, Descends) /\ \A t \in Elems(tables) : Sound(t) /\ t \in Table
  BY HeldHolds DEF Layered
<1>7. Ordered(W) /\ W # <<>>
  <2>1. W # <<>>
    BY <1>5
  <2> QED
    BY <1>5, <1>6, <2>1 DEF Ordered
<1>8. Compacts(C, W)
  BY <1>3, <1>7, CompactKeeps DEF C
<1>9. /\ C \in Seq(Table)
      /\ \A t \in Elems(C) : Sound(t)
      /\ \A t \in Elems(C) : \A e \in Held(t) : \E u \in Elems(W) : e \in Held(u)
      /\ \A u \in Elems(W) : \A e \in Held(u) :
           Tops(e, Elems(W)) => \E t \in Elems(C) : e \in Held(t)
      /\ Chain(C, Descends)
      /\ (\A u \in Elems(W) : u.level = 1) => \A t \in Elems(C) : t.level = 1
      /\ Cardinality(P) <= 4 => \A e : Chain(W, Clears(e)) => Chain(C, Clears(e))
  BY <1>8 DEF Compacts, P
<1>10. tables' \in Seq(Table) /\ Elems(tables') = Elems(A) \cup Elems(C) \cup Elems(B)
  <2> DEFINE D == A \o C
  <2>1. D \in Seq(Table) /\ Elems(D) = Elems(A) \cup Elems(C)
    BY <1>5, <1>9, ConcatProperties, ConcatHolds
  <2>2. tables' = D \o B
    BY <1>2
  <2> HIDE DEF D
  <2>3. D \o B \in Seq(Table) /\ Elems(D \o B) = Elems(D) \cup Elems(B)
    BY <1>5, <2>1, ConcatProperties, ConcatHolds
  <2> QED
    BY <2>1, <2>2, <2>3
<1>11. \A t \in Elems(tables') : \A e \in Held(t) : \E u \in Elems(tables) : e \in Held(u)
  BY <1>5, <1>9, <1>10
<1>12. TypeOK'
  BY <1>2, <1>10 DEF TypeOK
<1>13. SizeAccounted'
  BY <1>2 DEF SizeAccounted
<1>14. ASSUME NEW k \in Keys, Wanted(k)', k \notin tied, data[k] # newest[k]
       PROVE  \E t \in Elems(tables') : newest[k] \in Held(t)
  <2>1. Wanted(k)
    BY <1>2, <1>14 DEF Wanted, Dropped, Expired
  <2>2. PICK u \in Elems(tables) : newest[k] \in Held(u)
    BY <1>14, <2>1 DEF NewestSurvives, Elems
  <2>3. CASE u \in Elems(W)
    <3>1. Tops(newest[k], Elems(W))
      BY <1>5, <1>14, <2>1 DEF Tops, Wanted, NoneNewer
    <3> QED
      BY <1>9, <1>10, <2>2, <2>3, <3>1
  <2> QED
    BY <1>5, <1>10, <2>2, <2>3
<1>15. NewestSurvives'
  BY <1>2, <1>14 DEF NewestSurvives, Elems
<1>16. InMemory'
  BY <1>2, <1>11 DEF InMemory
<1>17. NoneNewer'
  BY <1>2, <1>11 DEF NoneNewer
<1>18. Layered'
  <2>1. \A t \in Elems(tables') : Sound(t) /\ t.level \in {0, 1}
    BY <1>5, <1>6, <1>9, <1>10 DEF Sound
  <2>2. \A t \in Elems(tables') : \A e \in Held(t) : e.timestamp <= now
    BY <1>11 DEF Layered
  <2>3. \A t \in Elems(A) \cup Elems(B) \cup Elems(C) : t \in Table
    BY <1>5, <1>9, ElementOfSeq DEF Elems
  <2>4. \A x \in Elems(A) : x.level = 1
    BY <1>2, <1>5
  <2>5. ASSUME NEW x \in Elems(A), NEW y \in Elems(C)
        PROVE  <<x, y>> \in Descends
    <3>1. x \in Table /\ y \in Table /\ x.level = 1 /\ y.level \in {0, 1}
      BY <1>10, <2>1, <2>3, <2>4, <2>5
    <3>2. y.level <= x.level
      BY <3>1
    <3> QED
      BY <3>1, <3>2 DEF Descends
  <2>6. ASSUME NEW x \in Elems(C), NEW y \in Elems(B)
        PROVE  <<x, y>> \in Descends
    <3>1. x \in Table /\ y \in Table /\ x.level \in {0, 1} /\ y.level \in {0, 1}
      BY <1>10, <2>1, <2>3, <2>6
    <3>2. CASE y.level = 1
      <4>1. ASSUME NEW u \in Elems(W)
            PROVE  u.level = 1
        <5>1. <<u, y>> \in Descends
          BY <1>5, <1>6, <2>6, <4>1 DEF Between
        <5>2. u.level \in {0, 1} /\ y.level <= u.level
          BY <1>5, <1>6, <4>1, <5>1 DEF Sound, Descends
        <5> QED
          BY <3>2, <5>2
      <4>2. x.level = 1
        BY <1>9, <2>6, <4>1
      <4> QED
        BY <3>1, <3>2, <4>2 DEF Descends
    <3>3. CASE y.level = 0
      <4>1. y.level <= x.level
        BY <3>1, <3>3
      <4> QED
        BY <3>1, <4>1 DEF Descends
    <3> QED
      BY <3>1, <3>2, <3>3
  <2>7. Between(A, C, Descends) /\ Between(C, B, Descends)
    BY <2>5, <2>6, Zenon DEF Between
  <2>8. Chain(A, Descends) /\ Chain(B, Descends) /\ Between(A, B, Descends)
    BY <1>5, <1>6
  <2>9. Chain(A \o C \o B, Descends)
    BY <1>5, <1>9, <2>7, <2>8, ChainOfThree
  <2> QED
    BY <1>2, <2>1, <2>2, <2>9 DEF Layered
<1>19. ASSUME Cardinality(P) <= 4, NEW e, Chain(tables, Clears(e))
       PROVE  Chain(tables', Clears(e))
  <2>1. /\ Chain(A, Clears(e)) /\ Chain(W, Clears(e)) /\ Chain(B, Clears(e))
        /\ Between(A, W, Clears(e)) /\ Between(A, B, Clears(e)) /\ Between(W, B, Clears(e))
    BY <1>5, <1>19
  <2>2. Chain(C, Clears(e))
    BY <1>9, <1>19, <2>1
  <2>3. \A t \in Elems(A) \cup Elems(B) \cup Elems(C) : t \in Table
    BY <1>5, <1>9, ElementOfSeq DEF Elems
  <2>4. ASSUME NEW x \in Elems(A), NEW y \in Elems(C)
        PROVE  <<x, y>> \in Clears(e)
    <3>1. ASSUME e \in Held(x), NEW f \in Held(y)
          PROVE  f.key # e.key
      <4>1. PICK u \in Elems(W) : f \in Held(u)
        BY <1>9, <2>4, <3>1
      <4>2. <<x, u>> \in Clears(e)
        BY <2>1, <2>4, <4>1 DEF Between
      <4> QED
        BY <3>1, <4>1, <4>2 DEF Clears
    <3> QED
      BY <2>3, <2>4, <3>1 DEF Clears
  <2>5. ASSUME NEW x \in Elems(C), NEW y \in Elems(B)
        PROVE  <<x, y>> \in Clears(e)
    <3>1. ASSUME e \in Held(x), NEW f \in Held(y)
          PROVE  f.key # e.key
      <4>1. PICK u \in Elems(W) : e \in Held(u)
        BY <1>9, <2>5, <3>1
      <4>2. <<u, y>> \in Clears(e)
        BY <2>1, <2>5, <4>1 DEF Between
      <4> QED
        BY <3>1, <4>1, <4>2 DEF Clears
    <3> QED
      BY <2>3, <2>5, <3>1 DEF Clears
  <2>6. Between(A, C, Clears(e)) /\ Between(C, B, Clears(e))
    BY <2>4, <2>5, Zenon DEF Between
  <2>7. Chain(A \o C \o B, Clears(e))
    BY <1>5, <1>9, <2>1, <2>2, <2>6, ChainOfThree
  <2> QED
    BY <1>2, <2>7
<1>20. Cardinality(P) \in Nat
  <2>1. IsFiniteSet(1..Len(W))
    BY <1>5, LenProperties, FS_Interval
  <2>2. P \in SUBSET (1..Len(W))
    BY DEF P, Places
  <2> QED
    BY <2>1, <2>2, FS_Subset, FS_CardinalityType
<1>21. NewestLast'
  <2> SUFFICES ASSUME ~shuffled', NEW k \in Keys, newest[k] # Missing, k \notin tied
               PROVE  Chain(tables', Clears(newest[k]))
    BY <1>2 DEF NewestLast
  <2>1. shuffled' = (shuffled \/ Cardinality(P) > 4)
    BY <1>2
  <2>2. ~shuffled /\ ~(Cardinality(P) > 4)
    BY <2>1, Zenon
  <2>3. Cardinality(P) <= 4
    BY <1>20, <2>2
  <2> QED
    BY <1>19, <2>2, <2>3 DEF NewestLast
<1> QED
  BY <1>12, <1>13, <1>15, <1>16, <1>17, <1>18, <1>21

LEMMA NextKeeps == IInv /\ [Next]_vars => IInv'
<1> SUFFICES ASSUME IInv, [Next]_vars
             PROVE  IInv'
  OBVIOUS
<1>1. CASE Use
  <2>1. PICK k \in Keys :
          \/ \E v \in Values, ttl \in TTLs : Set(k, v, ttl)
          \/ Set(k, Null, 0)
          \/ Get(k)
          \/ Delete(k)
    BY <1>1 DEF Use
  <2>2. CASE \E v \in Values, ttl \in TTLs : Set(k, v, ttl)
    BY <2>2, SetKeeps
  <2>3. CASE Set(k, Null, 0)
    BY <2>3, SetKeeps
  <2>4. CASE Get(k) \/ Delete(k)
    BY <2>4, DropKeeps
  <2> QED
    BY <2>1, <2>2, <2>3, <2>4
<1>2. CASE Flush
  BY <1>2, FlushKeeps
<1>3. CASE SetLevel
  BY <1>3, SetLevelKeeps
<1>4. CASE Compact
  BY <1>4, CompactStepKeeps
<1>5. CASE Tick
  BY <1>5, TickKeeps
<1>6. CASE UNCHANGED vars
  BY <1>6 DEF vars, memtable, history, IInv, TypeOK, SizeAccounted, NewestSurvives,
              InMemory, NoneNewer, Layered, NewestLast, Wanted, Dropped, Expired
<1> QED
  BY <1>1, <1>2, <1>3, <1>4, <1>5, <1>6 DEF Next

\* In every state of the tree the memtable, the tables and the filters stand to
\* each other and to what was written as the inductive invariant says.
LEMMA InvariantHolds == Spec => []IInv
<1> QED
  BY InitKeeps, NextKeeps, PTL DEF Spec
----------------------------------------------------------------------------
(* Searching *)

Windows == [left : Int, right : Int]

\* The search of the window w is over.
Stopped(entries, k, w) == w.left > w.right \/ entries[Middle(w)].key = k

LEMMA MiddleIsInside ==
  ASSUME NEW w \in Windows
  PROVE  /\ Middle(w) \in Int /\ w.left \in Int /\ w.right \in Int
         /\ w.left <= w.right => w.left <= Middle(w) /\ Middle(w) <= w.right
<1>1. w.left \in Int /\ w.right \in Int
  BY DEF Windows
<1>2. \A a, b \in Int : /\ (a + b) \div 2 \in Int
                        /\ a <= b => a <= (a + b) \div 2 /\ (a + b) \div 2 <= b
  OBVIOUS
<1> QED
  BY <1>1, <1>2 DEF Middle

LEMMA NarrowHolds ==
  ASSUME NEW entries, NEW k, NEW w \in Windows
  PROVE  /\ Narrow(entries, k, w) \in Windows
         /\ Stopped(entries, k, w) => Narrow(entries, k, w) = w
         /\ ~Stopped(entries, k, w) /\ entries[Middle(w)].key < k =>
              /\ Narrow(entries, k, w).left = Middle(w) + 1
              /\ Narrow(entries, k, w).right = w.right
         /\ ~Stopped(entries, k, w) /\ ~(entries[Middle(w)].key < k) =>
              /\ Narrow(entries, k, w).left = w.left
              /\ Narrow(entries, k, w).right = Middle(w) - 1
<1> DEFINE mid == Middle(w)
<1>1. mid \in Int /\ w.left \in Int /\ w.right \in Int
  BY MiddleIsInside
<1>2. Narrow(entries, k, w) =
        IF Stopped(entries, k, w) THEN w
        ELSE IF entries[mid].key < k THEN [w EXCEPT !.left = mid + 1]
                                     ELSE [w EXCEPT !.right = mid - 1]
  BY DEF Narrow, Stopped
<1>3. /\ [w EXCEPT !.left = mid + 1] = [left |-> mid + 1, right |-> w.right]
      /\ [w EXCEPT !.right = mid - 1] = [left |-> w.left, right |-> mid - 1]
  BY DEF Windows
<1> HIDE DEF mid
<1>4. /\ [left |-> mid + 1, right |-> w.right] \in Windows
      /\ [left |-> w.left, right |-> mid - 1] \in Windows
  BY <1>1 DEF Windows
<1> QED
  BY <1>2, <1>3, <1>4 DEF mid

\* The turns of binarySearch.
LEMMA SearchUnfolds ==
  ASSUME NEW entries, NEW k, Len(entries) \in Nat
  PROVE  \E turn :
           /\ turn[0] = [left |-> 1, right |-> Len(entries)]
           /\ \A m \in Nat : turn[m + 1] = Narrow(entries, k, turn[m])
           /\ binarySearch(entries, k) =
                LET last == turn[Len(entries)]
                IN  IF last.left > last.right THEN Missing ELSE entries[Middle(last)]
<1> DEFINE a == [left |-> 1, right |-> Len(entries)]
           Iter(g) == [m \in Nat |-> IF m = 0 THEN a ELSE Narrow(entries, k, g[m - 1])]
           it == CHOOSE g : g = Iter(g)
           X == Windows
           step == [m \in Nat |-> [w \in X |-> Narrow(entries, k, w)]]
<1>1. a \in X
  BY DEF Windows
<1>2. step \in [Nat -> [X -> X]]
  <2> HIDE DEF X
  <2>1. ASSUME NEW w \in X
        PROVE  Narrow(entries, k, w) \in X
    BY NarrowHolds DEF X
  <2> QED
    BY <2>1
<1>3. PICK l : Loops(X, a, step, l)
  <2> HIDE DEF step, X, a
  <2> QED
    BY <1>1, <1>2, SomeLoop
<1> HIDE DEF X, a
<1>4. /\ l \in [Nat -> X] /\ l[0] = a
      /\ \A m \in Nat : l[m + 1] = Narrow(entries, k, l[m])
  BY <1>3 DEF Loops
<1> HIDE DEF step
<1>5. ASSUME NEW m \in Nat
      PROVE  l[m] = IF m = 0 THEN a ELSE Narrow(entries, k, l[m - 1])
  <2>1. m # 0 => m - 1 \in Nat /\ (m - 1) + 1 = m
    OBVIOUS
  <2> QED
    BY <1>4, <2>1
<1>6. l = Iter(l)
  BY <1>4, <1>5
<1>7. it = Iter(it)
  <2> HIDE DEF Iter
  <2> QED
    BY <1>6
<1>8. binarySearch(entries, k) =
        LET last == it[Len(entries)]
        IN  IF last.left > last.right THEN Missing ELSE entries[Middle(last)]
  BY Zenon DEF binarySearch, a
<1> HIDE DEF it
<1>9. it[0] = a /\ \A m \in Nat : it[m + 1] = Narrow(entries, k, it[m])
  <2>1. \A m \in Nat : m + 1 \in Nat /\ m + 1 # 0 /\ (m + 1) - 1 = m
    OBVIOUS
  <2> QED
    BY <1>7, <2>1
<1> QED
  BY <1>8, <1>9 DEF a

\* What the search knows of the window after m turns: it is inside the array, it
\* has shrunk by one each turn, and no version of the key is outside.
Narrowed(entries, k, m, w) ==
  /\ w \in Windows
  /\ 1 <= w.left /\ w.right <= Len(entries)
  /\ \/ Stopped(entries, k, w)
     \/ w.right - w.left + 1 + m <= Len(entries)
  /\ InOrder(entries) => \A p \in 1..Len(entries) :
       entries[p].key = k => w.left <= p /\ p <= w.right

LEMMA TurnNarrows ==
  ASSUME NEW entries \in Seq(Entry), NEW k \in Keys, NEW m \in Nat, NEW w,
         Narrowed(entries, k, m, w)
  PROVE  Narrowed(entries, k, m + 1, Narrow(entries, k, w))
<1> DEFINE n == Len(entries)
           t == Narrow(entries, k, w)
           mid == Middle(w)
<1>1. n \in Nat /\ \A p \in 1..n : entries[p] \in Entry
  BY LenProperties, ElementOfSeq
<1>2. k \in Nat /\ \A p \in 1..n : entries[p].key \in Nat
  BY <1>1, LSMAssumption DEF Entry
<1>3. w \in Windows /\ 1 <= w.left /\ w.right <= n
  BY DEF Narrowed
<1>4. /\ t \in Windows
      /\ Stopped(entries, k, w) => t = w
      /\ ~Stopped(entries, k, w) /\ entries[mid].key < k =>
           t.left = mid + 1 /\ t.right = w.right
      /\ ~Stopped(entries, k, w) /\ ~(entries[mid].key < k) =>
           t.left = w.left /\ t.right = mid - 1
  BY <1>3, NarrowHolds
<1>5. /\ mid \in Int /\ w.left \in Int /\ w.right \in Int
      /\ w.left <= w.right => w.left <= mid /\ mid <= w.right
  BY <1>3, MiddleIsInside
<1> HIDE DEF t, mid
<1>6. CASE Stopped(entries, k, w)
  BY <1>4, <1>6 DEF Narrowed, t
<1>7. CASE ~Stopped(entries, k, w)
  <2>1. w.left <= w.right /\ entries[mid].key # k
    BY <1>5, <1>7 DEF Stopped, mid
  <2>2. mid \in 1..n
    BY <1>1, <1>3, <1>5, <2>1
  <2>3. w.right - w.left + 1 + m <= n
    BY <1>7 DEF Narrowed, n
  <2>4. ASSUME InOrder(entries), NEW p \in 1..n, entries[p].key = k
        PROVE  /\ w.left <= p /\ p <= w.right
               /\ entries[mid].key < k => mid < p
               /\ ~(entries[mid].key < k) => p < mid
    <3>1. w.left <= p /\ p <= w.right
      BY <2>4 DEF Narrowed, n
    <3>2. p < mid => entries[p].key <= entries[mid].key
      BY <2>2, <2>4 DEF InOrder, n
    <3>3. mid < p => entries[mid].key <= entries[p].key
      BY <2>2, <2>4 DEF InOrder, n
    <3>4. entries[p].key \in Nat /\ entries[mid].key \in Nat /\ p \in Nat /\ p # mid
      BY <1>1, <1>2, <2>1, <2>2, <2>4
    <3>5. p < mid \/ mid < p
      BY <1>5, <3>4
    <3> DEFINE x == entries[mid].key
    <3>6. p < mid => k <= x
      BY <2>4, <3>2
    <3>7. mid < p => x <= k
      BY <2>4, <3>3
    <3>8. x \in Nat /\ x # k
      BY <2>1, <3>4
    <3> HIDE DEF x
    <3>9. (x < k => mid < p) /\ (~(x < k) => p < mid)
      BY <1>2, <3>5, <3>6, <3>7, <3>8
    <3> QED
      BY <3>1, <3>9 DEF x
  <2>5. CASE entries[mid].key < k
    <3>1. t.left = mid + 1 /\ t.right = w.right
      BY <1>4, <1>7, <2>5
    <3>2. 1 <= t.left /\ t.right <= n /\ t.right - t.left + 1 + (m + 1) <= n
      <4> DEFINE a == w.left
                 b == w.right
                 c == mid
      <4>1. a \in Int /\ b \in Int /\ c \in Int /\ 1 <= a /\ a <= c /\ b <= n
        BY <1>3, <1>5, <2>1
      <4>2. b - a + 1 + m <= n /\ n \in Nat /\ m \in Nat
        BY <1>1, <2>3
      <4>3. t.left = c + 1 /\ t.right = b
        BY <3>1
      <4> HIDE DEF a, b, c, n
      <4>4. 1 <= c + 1 /\ b - (c + 1) + 1 + (m + 1) <= n
        BY <4>1, <4>2
      <4> QED
        BY <4>1, <4>3, <4>4
    <3>3. InOrder(entries) => \A p \in 1..n :
            entries[p].key = k => t.left <= p /\ p <= t.right
      <4> SUFFICES ASSUME InOrder(entries), NEW p \in 1..n, entries[p].key = k
                   PROVE  t.left <= p /\ p <= t.right
        OBVIOUS
      <4>1. mid < p /\ p <= w.right /\ p \in Int
        BY <1>1, <2>4, <2>5
      <4> QED
        BY <1>5, <3>1, <4>1
    <3> QED
      BY <1>4, <3>2, <3>3 DEF Narrowed, n, t
  <2>6. CASE ~(entries[mid].key < k)
    <3>1. t.left = w.left /\ t.right = mid - 1
      BY <1>4, <1>7, <2>6
    <3>2. 1 <= t.left /\ t.right <= n /\ t.right - t.left + 1 + (m + 1) <= n
      <4> DEFINE a == w.left
                 b == w.right
                 c == mid
      <4>1. a \in Int /\ b \in Int /\ c \in Int /\ 1 <= a /\ c <= b /\ b <= n
        BY <1>3, <1>5, <2>1
      <4>2. b - a + 1 + m <= n /\ n \in Nat /\ m \in Nat
        BY <1>1, <2>3
      <4>3. t.left = a /\ t.right = c - 1
        BY <3>1
      <4> HIDE DEF a, b, c, n
      <4>4. c - 1 <= n /\ (c - 1) - a + 1 + (m + 1) <= n
        BY <4>1, <4>2
      <4> QED
        BY <4>1, <4>3, <4>4
    <3>3. InOrder(entries) => \A p \in 1..n :
            entries[p].key = k => t.left <= p /\ p <= t.right
      <4> SUFFICES ASSUME InOrder(entries), NEW p \in 1..n, entries[p].key = k
                   PROVE  t.left <= p /\ p <= t.right
        OBVIOUS
      <4>1. p < mid /\ w.left <= p /\ p \in Int
        BY <1>1, <2>4, <2>6
      <4> QED
        BY <1>5, <3>1, <4>1
    <3> QED
      BY <1>4, <3>2, <3>3 DEF Narrowed, n, t
  <2> QED
    BY <2>5, <2>6
<1> QED
  BY <1>6, <1>7 DEF t

\* The search ends with a version of the key, and with the only one if the
\* entries are in order.
LEMMA SearchFinds ==
  ASSUME NEW entries \in Seq(Entry), NEW k \in Keys
  PROVE  /\ binarySearch(entries, k) # Missing =>
              /\ binarySearch(entries, k) \in Elems(entries)
              /\ binarySearch(entries, k).key = k
         /\ InOrder(entries) /\ OneVersion(entries, k) =>
              \A e \in Elems(entries) : e.key = k => binarySearch(entries, k) = e
<1> DEFINE n == Len(entries)
<1>1. n \in Nat /\ \A p \in 1..n : entries[p] \in Entry
  BY LenProperties, ElementOfSeq
<1>2. PICK turn :
        /\ turn[0] = [left |-> 1, right |-> n]
        /\ \A m \in Nat : turn[m + 1] = Narrow(entries, k, turn[m])
        /\ binarySearch(entries, k) =
             LET last == turn[n]
             IN  IF last.left > last.right THEN Missing ELSE entries[Middle(last)]
  BY <1>1, SearchUnfolds
<1> DEFINE G == {m \in Nat : Narrowed(entries, k, m, turn[m])}
<1>3. 0 \in G
  <2> DEFINE w == [left |-> 1, right |-> n]
  <2>1. w \in Windows /\ w.left = 1 /\ w.right = n
    BY <1>1 DEF Windows
  <2> HIDE DEF w
  <2>2. /\ 1 <= w.left /\ w.right <= n /\ w.right - w.left + 1 + 0 <= n
        /\ \A p \in 1..n : w.left <= p /\ p <= w.right
    BY <1>1, <2>1
  <2>3. Narrowed(entries, k, 0, w)
    BY <2>1, <2>2 DEF Narrowed
  <2> QED
    BY <1>2, <2>3 DEF w
<1>4. ASSUME NEW m \in Nat, m \in G
      PROVE  m + 1 \in G
  <2>1. Narrowed(entries, k, m, turn[m])
    BY <1>4
  <2>2. Narrowed(entries, k, m + 1, Narrow(entries, k, turn[m]))
    BY <2>1, TurnNarrows
  <2> QED
    BY <1>2, <2>2
<1>5. n \in G
  <2>1. \A m \in Nat : m \in G
    <3> HIDE DEF G
    <3> QED
      BY <1>3, <1>4, FromZeroUp
  <2> QED
    BY <1>1, <2>1
<1> DEFINE w == turn[n]
           found == binarySearch(entries, k)
<1>6. Narrowed(entries, k, n, w)
  BY <1>5
<1>7. found = IF w.left > w.right THEN Missing ELSE entries[Middle(w)]
  BY <1>2
<1> HIDE DEF w, found, G
<1>8. w \in Windows /\ 1 <= w.left /\ w.right <= n
  BY <1>6 DEF Narrowed, n
<1>9. /\ Middle(w) \in Int /\ w.left \in Int /\ w.right \in Int
      /\ w.left <= w.right => w.left <= Middle(w) /\ Middle(w) <= w.right
  BY <1>8, MiddleIsInside
<1>10. Stopped(entries, k, w)
  <2>1. Stopped(entries, k, w) \/ w.right - w.left + 1 + n <= n
    BY <1>6 DEF Narrowed, n
  <2>2. w.right - w.left + 1 + n <= n => w.left > w.right
    BY <1>1, <1>9
  <2> QED
    BY <2>1, <2>2 DEF Stopped
<1>11. ASSUME ~(w.left > w.right)
       PROVE  /\ found = entries[Middle(w)] /\ Middle(w) \in 1..n
              /\ found.key = k /\ found \in Elems(entries)
  <2>1. Middle(w) \in 1..n
    BY <1>1, <1>8, <1>9, <1>11
  <2>2. found = entries[Middle(w)] /\ found.key = k
    BY <1>7, <1>10, <1>11 DEF Stopped
  <2> QED
    BY <2>1, <2>2 DEF Elems
<1>12. found # Missing => found \in Elems(entries) /\ found.key = k
  BY <1>7, <1>11
<1>13. ASSUME InOrder(entries), OneVersion(entries, k), NEW e \in Elems(entries), e.key = k
       PROVE  found = e
  <2>1. PICK p \in 1..n : e = entries[p]
    BY DEF Elems
  <2>2. w.left <= p /\ p <= w.right
    BY <1>6, <1>13, <2>1 DEF Narrowed, n
  <2>3. ~(w.left > w.right)
    BY <1>1, <1>9, <2>2
  <2>4. Middle(w) = p
    BY <1>11, <1>13, <2>1, <2>3 DEF OneVersion, n
  <2> QED
    BY <1>11, <2>1, <2>3, <2>4
<1> QED
  BY <1>12, <1>13 DEF found

\* What a table of the tree answers from is a version of the key.
LEMMA LookUpFinds ==
  ASSUME NEW t \in Table, t.bits = BloomBits(t.entries), NEW k \in Keys
  PROVE  /\ LookUp(t, k) # Missing =>
              /\ LookUp(t, k) \in Held(t) /\ LookUp(t, k).key = k
              /\ ~Expired(LookUp(t, k))
         /\ InOrder(t.entries) /\ OneVersion(t.entries, k) =>
              \A e \in Held(t) : e.key = k /\ ~Expired(e) => LookUp(t, k) = e
<1> DEFINE es == t.entries
           b == binarySearch(es, k)
<1>1. Held(t) = Elems(es) /\ Held(t) \subseteq Entry /\ es \in Seq(Entry)
  BY HeldIsElems
<1>2. /\ b # Missing => b \in Elems(es) /\ b.key = k
      /\ InOrder(es) /\ OneVersion(es, k) => \A e \in Elems(es) : e.key = k => b = e
  BY <1>1, SearchFinds
<1>3. LookUp(t, k) = IF ~contains(t, k) \/ b = Missing THEN Missing
                     ELSE IF Expired(b) THEN Missing ELSE b
  BY DEF LookUp
<1> HIDE DEF b
<1>4. ASSUME NEW e \in Held(t), e.key = k
      PROVE  contains(t, k) /\ e # Missing
  <2>1. PICK i \in 1..Len(es) : e = es[i]
    BY DEF Held
  <2>2. BitsOf(k, 10 * Len(es)) \subseteq BloomBits(es)
    BY <1>4, <2>1 DEF BloomBits
  <2>3. e # Missing
    BY <1>1, LSMAssumption
  <2> QED
    BY <2>2, <2>3 DEF contains
<1> QED
  BY <1>1, <1>2, <1>3, <1>4

LEMMA FoundWhenSorted ==
  ASSUME IInv
  PROVE  SortedMeansFound
<1> SUFFICES ASSUME NEW i \in 1..Len(tables), InOrder(tables[i].entries),
                    NEW e \in Held(tables[i]),
                    OneVersion(tables[i].entries, e.key), ~Expired(e)
             PROVE  LookUp(tables[i], e.key) = e
  BY DEF SortedMeansFound
<1>1. tables[i] \in Table /\ tables[i].bits = BloomBits(tables[i].entries)
  <2>1. tables[i] \in Elems(tables)
    BY DEF Elems
  <2> QED
    BY <2>1, HeldHolds DEF IInv, Layered, Sound
<1>2. e.key \in Keys
  BY <1>1, HeldIsElems DEF Entry
<1> QED
  BY <1>1, <1>2, LookUpFinds

\* The best place to read from is one of those that have an answer.
LEMMA BestHit ==
  ASSUME IInv, NEW hits \in SUBSET (1..Len(tables)), hits # {}
  PROVE  \E i \in hits : \A j \in hits :
           \/ tables[i].level < tables[j].level
           \/ tables[i].level = tables[j].level /\ i >= j
<1> DEFINE n == Len(tables)
           S == {n - i : i \in hits}
<1>0. /\ n \in Nat
      /\ \A i \in 1..n : tables[i].level \in {0, 1}
      /\ \A i, j \in 1..n : i < j => tables[j].level <= tables[i].level
  <2>1. Ordered(tables)
    BY DEF IInv, TypeOK, Layered, Ordered
  <2> QED
    BY <2>1, PlaceHolds
<1>1. \A i \in hits : i \in 1..n /\ i \in Nat
  BY <1>0
<1>2. S # {} /\ S \subseteq Nat
  <2>1. \A i \in hits : n - i \in Nat
    BY <1>0, <1>1
  <2>2. S # {}
    OBVIOUS
  <2> HIDE DEF n
  <2> QED
    BY <2>1, <2>2
<1>3. PICK s \in S : \A x \in S : s <= x
  <2> HIDE DEF S
  <2> QED
    BY <1>2, Least
<1>4. PICK i \in hits : s = n - i
  OBVIOUS
<1>5. ASSUME NEW j \in hits
      PROVE  \/ tables[i].level < tables[j].level
             \/ tables[i].level = tables[j].level /\ i >= j
  <2>1. n - i <= n - j
    BY <1>3, <1>4
  <2>2. j <= i /\ i \in Nat /\ j \in Nat
    BY <1>0, <1>1, <2>1
  <2>3. tables[i].level \in {0, 1} /\ tables[j].level \in {0, 1}
    BY <1>0, <1>1
  <2>4. j < i => tables[i].level <= tables[j].level
    BY <1>0, <1>1
  <2>5. j < i \/ j = i
    BY <2>2
  <2> DEFINE x == tables[i].level
             y == tables[j].level
  <2>6. x <= y /\ x \in {0, 1} /\ y \in {0, 1}
    BY <2>3, <2>4, <2>5
  <2> HIDE DEF x, y
  <2>7. x < y \/ x = y
    BY <2>6
  <2> QED
    BY <2>2, <2>7 DEF x, y
<1> QED
  BY <1>5

LEMMA ReadsTheNewest ==
  ASSUME IInv
  PROVE  ReadsNewest
<1> SUFFICES ASSUME ~shuffled, NEW k \in Keys, Wanted(k), k \notin tied,
                    \A i \in 1..Len(tables) : /\ InOrder(tables[i].entries)
                                              /\ OneVersion(tables[i].entries, k)
             PROVE  Read(k) = newest[k]
  BY DEF ReadsNewest
<1> DEFINE hits == {i \in 1..Len(tables) : LET e == LookUp(tables[i], k)
                                           IN e # Missing /\ e.value # Null}
           best(i) == \A j \in hits :
             \/ tables[i].level < tables[j].level
             \/ tables[i].level = tables[j].level /\ i >= j
           b == CHOOSE i \in hits : best(i)
<1>1. newest[k] # Missing /\ ~Dropped(newest[k]) /\ newest[k].key = k
  BY DEF Wanted, IInv, NoneNewer
<1>2. Read(k) = IF data[k] # Missing /\ ~Dropped(data[k]) THEN data[k]
                ELSE IF hits = {} THEN Missing ELSE LookUp(tables[b], k)
  BY DEF Read
<1>3. CASE data[k] # Missing
  BY <1>1, <1>2, <1>3 DEF IInv, InMemory
<1>4. CASE data[k] = Missing
  <2>1. PICK m \in 1..Len(tables) : newest[k] \in Held(tables[m])
    BY <1>1, <1>4 DEF IInv, NewestSurvives
  <2>2. \A i \in 1..Len(tables) :
          tables[i] \in Table /\ tables[i].bits = BloomBits(tables[i].entries)
    <3>1. \A i \in 1..Len(tables) : tables[i] \in Elems(tables)
      BY DEF Elems
    <3> QED
      BY <3>1, HeldHolds DEF IInv, Layered, Sound
  <2>3. LookUp(tables[m], k) = newest[k]
    BY <1>1, <2>1, <2>2, LookUpFinds DEF Dropped
  <2>4. m \in hits
    BY <1>1, <2>1, <2>3 DEF Dropped
  <2>5. b \in hits /\ best(b)
    <3>1. \E i \in hits : best(i)
      BY <2>4, BestHit
    <3> HIDE DEF hits, best
    <3> QED
      BY <3>1
  <2> HIDE DEF b
  <2>6. b \in 1..Len(tables) /\ LookUp(tables[b], k) # Missing
    BY <2>5
  <2>7. LookUp(tables[b], k) \in Held(tables[b]) /\ LookUp(tables[b], k).key = k
    BY <2>2, <2>6, LookUpFinds
  <2>8. \/ tables[b].level < tables[m].level
        \/ tables[b].level = tables[m].level /\ b >= m
    BY <2>4, <2>5
  <2>9. CASE b = m
    BY <1>2, <1>4, <2>3, <2>4, <2>9
  <2>10. CASE b # m
    <3>1. m < b
      <4>0. Ordered(tables)
        BY HeldHolds DEF IInv, TypeOK, Layered, Ordered
      <4>1. tables[b].level \in {0, 1} /\ tables[m].level \in {0, 1}
        BY <2>1, <2>6, <4>0, PlaceHolds
      <4>2. b < m => tables[m].level <= tables[b].level
        BY <2>1, <2>6, <4>0, PlaceHolds
      <4>3. b \in Nat /\ m \in Nat
        BY <2>1, <2>6
      <4> DEFINE x == tables[b].level
                 y == tables[m].level
      <4>4. x \in {0, 1} /\ y \in {0, 1} /\ (b < m => y <= x)
        BY <4>1, <4>2
      <4>5. x < y \/ (x = y /\ b >= m)
        BY <2>8
      <4> HIDE DEF x, y
      <4> QED
        BY <2>10, <4>3, <4>4, <4>5
    <3>2. newest[k] # Missing /\ k \notin tied
      BY <1>1
    <3>3. Chain(tables, Clears(newest[k]))
      BY <3>2 DEF IInv, NewestLast
    <3>4. <<tables[m], tables[b]>> \in Clears(newest[k])
      BY <2>1, <2>6, <3>1, <3>3 DEF Chain
    <3> QED
      BY <1>1, <2>1, <2>7, <3>4 DEF Clears
  <2> QED
    BY <2>9, <2>10
<1> QED
  BY <1>3, <1>4
----------------------------------------------------------------------------
(* What holds in every state *)

\* Every state is well formed: the memtable's size is never negative, and every
\* table is a sequence of entries.
THEOREM TypeCorrect == Spec => []TypeOK
<1> QED
  BY InvariantHolds, PTL DEF IInv

\* Memtable.sizeBytes is the sum of the sizes of its entries after any sequence
\* of set, delete, lapse and flush.
THEOREM SizeIsAccounted == Spec => []SizeAccounted
<1> QED
  BY InvariantHolds, PTL DEF IInv

\* Flushing, moving to level 1 and compacting, of any run of any number of tables,
\* lose no value that is neither overwritten nor deleted nor lapsed, unless a
\* version written within the same millisecond had been flushed before it.  Nothing
\* is said of how time passes: a flush takes none.
THEOREM NewestAlwaysSurvives == Spec => []NewestSurvives
<1> QED
  BY InvariantHolds, PTL DEF IInv

\* SSTable.get finds each live key that a table in the order of '<' holds once,
\* whatever its hashes and the number of its entries.
THEOREM SortedIsFound == Spec => []SortedMeansFound
<1>1. IInv => SortedMeansFound
  BY FoundWhenSorted
<1> QED
  BY <1>1, InvariantHolds, PTL

\* Reading the memtable, then level 0 from the last table on, then level 1, gives
\* the last value written, where every table is in the order of '<' and holds
\* the key once, no two versions share a millisecond, and never more than four
\* tables of level 1 were compacted at once.
THEOREM ReadsAreNewest == Spec => []ReadsNewest
<1>1. IInv => ReadsNewest
  BY ReadsTheNewest
<1> QED
  BY <1>1, InvariantHolds, PTL
============================================================================
