----------------------------- MODULE DataLemmas -----------------------------
(* Facts about natural numbers, finite sets, sums and listings that the      *)
(* proofs about the components share.  Induction is stated of the set G of   *)
(* the values that have the property, which every prover can instantiate.    *)
EXTENDS Integers, FiniteSets, Functions, FiniteSetTheorems,
        NaturalsInduction, WellFoundedInduction, TLAPS

Below == {pair \in Nat \X Nat : pair[1] < pair[2]}

\* Some natural numbers have a least.
LEMMA Least ==
  ASSUME NEW T, T \subseteq Nat, T # {}
  PROVE  \E x \in T : \A y \in T : x <= y
<1>1. IsWellFoundedOn(Below, Nat)
  <2>1. Below = OpToRel(<, Nat)
    BY DEF OpToRel, Below
  <2> QED
    BY <2>1, NatLessThanWellFounded
<1>2. \A x, y \in Nat : y < x => <<y, x>> \in Below
  BY DEF Below
<1>3. PICK x \in T : \A y \in T : ~(<<y, x>> \in Below)
  BY <1>1, WFMin
<1>4. ASSUME NEW y \in T
      PROVE  x <= y
  <2>1. x \in Nat /\ y \in Nat
    OBVIOUS
  <2>2. ~(y < x)
    BY <1>2, <1>3, <2>1
  <2> QED
    BY <2>1, <2>2
<1> QED
  BY <1>4

\* Induction on the natural numbers.
LEMMA FromZeroUp ==
  ASSUME NEW G, 0 \in G, \A n \in Nat : n \in G => n + 1 \in G
  PROVE  \A n \in Nat : n \in G
<1> SUFFICES ASSUME NEW b \in Nat, b \notin G
             PROVE  FALSE
  OBVIOUS
<1> DEFINE T == {n \in Nat : n \notin G}
<1>1. PICK x \in T : \A y \in T : x <= y
  BY Least
<1>2. x \in Nat /\ x # 0
  OBVIOUS
<1>3. x - 1 \in Nat /\ ~(x <= x - 1) /\ (x - 1) + 1 = x
  BY <1>2
<1>4. x - 1 \in G
  BY <1>1, <1>3
<1> QED
  BY <1>3, <1>4

\* Induction on the subsets of a finite set.
LEMMA FromSmallerSets ==
  ASSUME NEW D, IsFiniteSet(D), NEW G,
         \A s \in SUBSET D : (\A t \in SUBSET s : t # s => t \in G) => s \in G
  PROVE  \A s \in SUBSET D : s \in G
<1> SUFFICES ASSUME NEW b \in SUBSET D, b \notin G
             PROVE  FALSE
  OBVIOUS
<1>1. \A s \in SUBSET D : IsFiniteSet(s) /\ Cardinality(s) \in Nat
  BY FS_Subset, FS_CardinalityType
<1> DEFINE T == {Cardinality(s) : s \in {t \in SUBSET D : t \notin G}}
<1>2. T \subseteq Nat /\ T # {}
  BY <1>1
<1>3. PICK m \in T : \A y \in T : m <= y
  BY <1>2, Least
<1>4. PICK s \in SUBSET D : s \notin G /\ m = Cardinality(s)
  OBVIOUS
<1>5. ASSUME NEW t \in SUBSET s, t # s
      PROVE  t \in G
  <2>1. Cardinality(t) < Cardinality(s)
    BY <1>1, <1>5, FS_Subset
  <2>2. Cardinality(t) \in Nat /\ Cardinality(s) \in Nat /\ t \in SUBSET D
    BY <1>1
  <2>3. t \notin G => Cardinality(t) \in T
    BY <2>2
  <2> QED
    BY <1>3, <1>4, <2>1, <2>2, <2>3
<1> QED
  BY <1>4, <1>5

\* What a finite set is mapped to is finite.
LEMMA ImageIsFinite ==
  ASSUME NEW S, IsFiniteSet(S), NEW f
  PROVE  /\ IsFiniteSet({f[x] : x \in S})
         /\ Cardinality({f[x] : x \in S}) <= Cardinality(S)
<1> DEFINE T == {f[x] : x \in S}
           g == [x \in S |-> f[x]]
<1>1. g \in Surjection(S, T)
  BY DEF Surjection
<1> HIDE DEF g, T
<1>2. IsFiniteSet(T) /\ Cardinality(T) <= Cardinality(S)
  BY <1>1, FS_Surjection
<1> QED
  BY <1>2 DEF T

LEMMA OneUpTo ==
  \A n \in Nat : IsFiniteSet(1..n) /\ Cardinality(1..n) = n
<1>1. ASSUME NEW n \in Nat
      PROVE  IsFiniteSet(1..n) /\ Cardinality(1..n) = n
  <2>1. 1 \in Int /\ n \in Int
    OBVIOUS
  <2>2. IsFiniteSet(1..n) /\ Cardinality(1..n) = IF 1 > n THEN 0 ELSE n - 1 + 1
    BY <2>1, FS_Interval
  <2> QED
    BY <2>2
<1> QED
  BY <1>1
----------------------------------------------------------------------------
(* Sums *)

Picked(s) == CHOOSE x \in s : TRUE

\* What the fold that sums up f has come to for the elements of s.
SumsUp(f, g, s) ==
  g[s] = IF s = {} THEN 0 ELSE f[Picked(s)] + g[s \ {Picked(s)}]

LEMMA PickedOut ==
  ASSUME NEW D, IsFiniteSet(D), NEW s \in SUBSET D, s # {}
  PROVE  /\ Picked(s) \in s /\ s \ {Picked(s)} \in SUBSET D
         /\ s \ {Picked(s)} \in SUBSET s /\ s \ {Picked(s)} # s
         /\ Cardinality(s) \in Nat \ {0}
         /\ Cardinality(s \ {Picked(s)}) = Cardinality(s) - 1
<1>1. Picked(s) \in s
  BY DEF Picked
<1>2. IsFiniteSet(s)
  BY FS_Subset
<1>3. Cardinality(s) \in Nat /\ Cardinality(s) # 0
  BY <1>2, FS_CardinalityType, FS_EmptySet
<1>4. Cardinality(s \ {Picked(s)}) = Cardinality(s) - 1
  BY <1>1, <1>2, FS_RemoveElement
<1> QED
  BY <1>1, <1>3, <1>4

\* The fold is well defined: some function sums up f.
LEMMA SomeSum ==
  ASSUME NEW D, IsFiniteSet(D), NEW f \in [D -> Int]
  PROVE  \E g \in [SUBSET D -> Int] : \A s \in SUBSET D : SumsUp(f, g, s)
<1> DEFINE Upto(n, g) == \A s \in SUBSET D : Cardinality(s) <= n => SumsUp(f, g, s)
           G == {n \in Nat : \E g \in [SUBSET D -> Int] : Upto(n, g)}
<1>0. \A s \in SUBSET D : IsFiniteSet(s) /\ Cardinality(s) \in Nat
  BY FS_Subset, FS_CardinalityType
<1>1. 0 \in G
  <2> DEFINE z == [s \in SUBSET D |-> 0]
  <2>1. \A s \in SUBSET D : Cardinality(s) <= 0 => s = {}
    BY <1>0, FS_EmptySet
  <2>2. Upto(0, z)
    BY <2>1 DEF SumsUp
  <2>3. z \in [SUBSET D -> Int]
    OBVIOUS
  <2> HIDE DEF z, Upto
  <2> QED
    BY <2>2, <2>3
<1>2. ASSUME NEW n \in Nat, n \in G
      PROVE  n + 1 \in G
  <2>1. PICK g \in [SUBSET D -> Int] : Upto(n, g)
    BY <1>2
  <2> DEFINE next(s) == IF s = {} THEN 0 ELSE f[Picked(s)] + g[s \ {Picked(s)}]
             h == [s \in SUBSET D |-> next(s)]
  <2>2. ASSUME NEW s \in SUBSET D
        PROVE  next(s) \in Int
    <3>1. s # {} => Picked(s) \in D /\ s \ {Picked(s)} \in SUBSET D
      BY PickedOut
    <3> QED
      BY <3>1
  <2>3. h \in [SUBSET D -> Int]
    BY <2>2
  <2>4. \A s \in SUBSET D : Cardinality(s) <= n => h[s] = g[s]
    BY <2>1 DEF SumsUp
  <2>5. ASSUME NEW s \in SUBSET D, Cardinality(s) <= n + 1
        PROVE  SumsUp(f, h, s)
    <3>1. CASE s = {}
      BY <3>1 DEF SumsUp
    <3>2. CASE s # {}
      <4>1. Cardinality(s \ {Picked(s)}) <= n /\ s \ {Picked(s)} \in SUBSET D
        BY <2>5, <3>2, PickedOut
      <4>2. h[s \ {Picked(s)}] = g[s \ {Picked(s)}]
        BY <2>4, <4>1
      <4>3. h[s] = f[Picked(s)] + g[s \ {Picked(s)}]
        BY <3>2
      <4> QED
        BY <3>2, <4>2, <4>3 DEF SumsUp
    <3> QED
      BY <3>1, <3>2
  <2>6. Upto(n + 1, h)
    BY <2>5
  <2> HIDE DEF h, Upto
  <2> QED
    BY <2>3, <2>6
<1>3. \A n \in Nat : n \in G
  <2> HIDE DEF G
  <2> QED
    BY <1>1, <1>2, FromZeroUp
<1>4. Cardinality(D) \in Nat /\ \A s \in SUBSET D : Cardinality(s) <= Cardinality(D)
  BY FS_Subset, FS_CardinalityType
<1>5. PICK g \in [SUBSET D -> Int] : Upto(Cardinality(D), g)
  BY <1>3, <1>4
<1> QED
  BY <1>4, <1>5

\* SumFunction is such a sum.
LEMMA SumUnfolds ==
  ASSUME NEW D, IsFiniteSet(D), NEW f \in [D -> Int]
  PROVE  \E g \in [SUBSET D -> Int] :
           /\ SumFunction(f) = g[D]
           /\ \A s \in SUBSET D : SumsUp(f, g, s)
<1> DEFINE Iter(g) == [s \in SUBSET D |->
                         IF s = {} THEN 0
                         ELSE f[CHOOSE x \in s : TRUE] + g[s \ {CHOOSE x \in s : TRUE}]]
           it == CHOOSE g : g = Iter(g)
<1>1. PICK g \in [SUBSET D -> Int] : \A s \in SUBSET D : SumsUp(f, g, s)
  BY SomeSum
<1>2. g = Iter(g)
  BY <1>1 DEF SumsUp, Picked
<1>3. it = Iter(it)
  <2> HIDE DEF Iter
  <2> QED
    BY <1>2
<1>4. DOMAIN f = D
  OBVIOUS
<1>5. SumFunction(f) = it[D]
  BY <1>4, Zenon DEF SumFunction, SumFunctionOnSet, FoldFunctionOnSet, MapThenFoldSet
<1>6. \A s \in SUBSET D : SumsUp(f, it, s)
  <2> HIDE DEF it
  <2> QED
    BY <1>3 DEF SumsUp, Picked
<1> HIDE DEF it
<1>7. \A s \in SUBSET D : it[s] = g[s]
  <2> DEFINE G == {s \in SUBSET D : it[s] = g[s]}
  <2>1. ASSUME NEW s \in SUBSET D, \A t \in SUBSET s : t # s => t \in G
        PROVE  s \in G
    <3>1. CASE s = {}
      BY <1>1, <1>6, <3>1 DEF SumsUp
    <3>2. CASE s # {}
      <4>1. s \ {Picked(s)} \in G
        BY <2>1, <3>2, PickedOut
      <4> QED
        BY <1>1, <1>6, <3>2, <4>1 DEF SumsUp
    <3> QED
      BY <3>1, <3>2
  <2>2. \A s \in SUBSET D : s \in G
    <3> HIDE DEF G
    <3> QED
      BY <2>1, FromSmallerSets
  <2> QED
    BY <2>2
<1>8. D \in SUBSET D
  OBVIOUS
<1> QED
  BY <1>1, <1>5, <1>7, <1>8

LEMMA SumIsInt ==
  ASSUME NEW D, IsFiniteSet(D), NEW f \in [D -> Int]
  PROVE  SumFunction(f) \in Int
<1>1. PICK g \in [SUBSET D -> Int] : SumFunction(f) = g[D]
  BY SumUnfolds
<1>2. D \in SUBSET D
  OBVIOUS
<1> QED
  BY <1>1, <1>2

\* The sum of nothing but zeros.
LEMMA SumOfZeros ==
  ASSUME NEW D, IsFiniteSet(D), NEW f \in [D -> Int], \A x \in D : f[x] = 0
  PROVE  SumFunction(f) = 0
<1>1. PICK g \in [SUBSET D -> Int] :
        SumFunction(f) = g[D] /\ \A s \in SUBSET D : SumsUp(f, g, s)
  BY SumUnfolds
<1> DEFINE G == {s \in SUBSET D : g[s] = 0}
<1>2. ASSUME NEW s \in SUBSET D, \A t \in SUBSET s : t # s => t \in G
      PROVE  s \in G
  <2>1. CASE s = {}
    BY <1>1, <2>1 DEF SumsUp
  <2>2. CASE s # {}
    <3>1. s \ {Picked(s)} \in G /\ Picked(s) \in D
      BY <1>2, <2>2, PickedOut
    <3> QED
      BY <1>1, <2>2, <3>1 DEF SumsUp
  <2> QED
    BY <2>1, <2>2
<1>3. \A s \in SUBSET D : s \in G
  <2> HIDE DEF G
  <2> QED
    BY <1>2, FromSmallerSets
<1> QED
  BY <1>1, <1>3

\* Sums add up term by term.
LEMMA SumsAdd ==
  ASSUME NEW D, IsFiniteSet(D), NEW f \in [D -> Int], NEW e \in [D -> Int],
         NEW h \in [D -> Int], \A x \in D : h[x] = f[x] + e[x]
  PROVE  SumFunction(h) = SumFunction(f) + SumFunction(e)
<1>1. PICK F \in [SUBSET D -> Int] :
        SumFunction(f) = F[D] /\ \A s \in SUBSET D : SumsUp(f, F, s)
  BY SumUnfolds
<1>2. PICK E \in [SUBSET D -> Int] :
        SumFunction(e) = E[D] /\ \A s \in SUBSET D : SumsUp(e, E, s)
  BY SumUnfolds
<1>3. PICK H \in [SUBSET D -> Int] :
        SumFunction(h) = H[D] /\ \A s \in SUBSET D : SumsUp(h, H, s)
  BY SumUnfolds
<1> DEFINE G == {s \in SUBSET D : H[s] = F[s] + E[s]}
<1>4. ASSUME NEW s \in SUBSET D, \A t \in SUBSET s : t # s => t \in G
      PROVE  s \in G
  <2>1. CASE s = {}
    <3>1. H[s] = 0 /\ F[s] = 0 /\ E[s] = 0
      BY <1>1, <1>2, <1>3, <2>1 DEF SumsUp
    <3> QED
      BY <3>1
  <2>2. CASE s # {}
    <3> DEFINE p == Picked(s)
               r == s \ {p}
    <3>1. r \in G /\ p \in D /\ r \in SUBSET D
      BY <1>4, <2>2, PickedOut
    <3>2. H[s] = h[p] + H[r] /\ F[s] = f[p] + F[r] /\ E[s] = e[p] + E[r]
      BY <1>1, <1>2, <1>3, <2>2 DEF SumsUp
    <3> HIDE DEF p, r
    <3>3. /\ h[p] = f[p] + e[p] /\ H[r] = F[r] + E[r]
          /\ f[p] \in Int /\ e[p] \in Int /\ F[r] \in Int /\ E[r] \in Int
      BY <3>1
    <3> QED
      BY <3>2, <3>3
  <2> QED
    BY <2>1, <2>2
<1>5. \A s \in SUBSET D : s \in G
  <2> HIDE DEF G
  <2> QED
    BY <1>4, FromSmallerSets
<1>6. D \in SUBSET D
  OBVIOUS
<1> QED
  BY <1>1, <1>2, <1>3, <1>5, <1>6

\* A sum with one term that is not zero.
LEMMA SumOfOne ==
  ASSUME NEW D, IsFiniteSet(D), NEW f \in [D -> Int], NEW x \in D,
         \A y \in D : y # x => f[y] = 0
  PROVE  SumFunction(f) = f[x]
<1>1. PICK g \in [SUBSET D -> Int] :
        SumFunction(f) = g[D] /\ \A s \in SUBSET D : SumsUp(f, g, s)
  BY SumUnfolds
<1> DEFINE G == {s \in SUBSET D : g[s] = IF x \in s THEN f[x] ELSE 0}
<1>2. ASSUME NEW s \in SUBSET D, \A t \in SUBSET s : t # s => t \in G
      PROVE  s \in G
  <2>1. CASE s = {}
    BY <1>1, <2>1 DEF SumsUp
  <2>2. CASE s # {}
    <3> DEFINE p == Picked(s)
               r == s \ {p}
    <3>1. r \in SUBSET s /\ r # s /\ p \in s
      BY <2>2, PickedOut
    <3>2. r \in G
      BY <1>2, <3>1
    <3>3. g[s] = f[p] + g[r] /\ f[p] \in Int /\ f[x] \in Int
      BY <1>1, <2>2, <3>1 DEF SumsUp
    <3>4. CASE p = x
      <4>1. g[r] = 0 /\ x \in s /\ f[p] = f[x]
        BY <3>1, <3>2, <3>4
      <4> HIDE DEF p, r
      <4> QED
        BY <3>3, <4>1
    <3>5. CASE p # x
      <4>1. f[p] = 0 /\ (x \in r <=> x \in s)
        BY <3>1, <3>5
      <4> QED
        BY <3>2, <3>3, <4>1
    <3> QED
      BY <3>4, <3>5
  <2> QED
    BY <2>1, <2>2
<1>3. \A s \in SUBSET D : s \in G
  <2> HIDE DEF G
  <2> QED
    BY <1>2, FromSmallerSets
<1> QED
  BY <1>1, <1>3

\* What changing one term does to a sum.
LEMMA SumOfChange ==
  ASSUME NEW D, IsFiniteSet(D), NEW f \in [D -> Int], NEW h \in [D -> Int],
         NEW x \in D, \A y \in D : y # x => h[y] = f[y]
  PROVE  SumFunction(h) = SumFunction(f) - f[x] + h[x]
<1> DEFINE e == [y \in D |-> IF y = x THEN h[x] - f[x] ELSE 0]
<1>1. e \in [D -> Int] /\ e[x] = h[x] - f[x] /\ \A y \in D : y # x => e[y] = 0
  OBVIOUS
<1>2. \A y \in D : h[y] = f[y] + e[y]
  OBVIOUS
<1> HIDE DEF e
<1>3. SumFunction(h) = SumFunction(f) + SumFunction(e)
  <2>1. /\ IsFiniteSet(D) /\ f \in [D -> Int] /\ e \in [D -> Int]
        /\ h \in [D -> Int] /\ \A y \in D : h[y] = f[y] + e[y]
    BY <1>1, <1>2
  <2> QED
    BY <2>1, SumsAdd
<1>4. SumFunction(e) = h[x] - f[x]
  BY <1>1, SumOfOne
<1>5. SumFunction(f) \in Int /\ f[x] \in Int /\ h[x] \in Int
  BY SumIsInt
<1> QED
  BY <1>3, <1>4, <1>5

\* No term is greater than a sum of natural numbers.
LEMMA SumOfNaturals ==
  ASSUME NEW D, IsFiniteSet(D), NEW f \in [D -> Nat]
  PROVE  SumFunction(f) \in Nat /\ \A x \in D : f[x] <= SumFunction(f)
<1>1. ASSUME NEW h \in [D -> Nat]
      PROVE  SumFunction(h) \in Nat
  <2>0. h \in [D -> Int]
    OBVIOUS
  <2>1. PICK g \in [SUBSET D -> Int] :
          SumFunction(h) = g[D] /\ \A s \in SUBSET D : SumsUp(h, g, s)
    BY <2>0, SumUnfolds
  <2> DEFINE G == {s \in SUBSET D : g[s] \in Nat}
  <2>2. ASSUME NEW s \in SUBSET D, \A t \in SUBSET s : t # s => t \in G
        PROVE  s \in G
    <3>1. CASE s = {}
      <4>1. g[s] = 0
        BY <2>1, <3>1 DEF SumsUp
      <4> QED
        BY <4>1
    <3>2. CASE s # {}
      <4>1. s \ {Picked(s)} \in G /\ Picked(s) \in D
        BY <2>2, <3>2, PickedOut
      <4>2. g[s] = h[Picked(s)] + g[s \ {Picked(s)}]
        BY <2>1, <3>2 DEF SumsUp
      <4>3. h[Picked(s)] \in Nat /\ g[s \ {Picked(s)}] \in Nat
        BY <4>1
      <4> QED
        BY <4>2, <4>3
    <3> QED
      BY <3>1, <3>2
  <2>3. \A s \in SUBSET D : s \in G
    <3> HIDE DEF G
    <3> QED
      BY <2>2, FromSmallerSets
  <2>4. D \in SUBSET D
    OBVIOUS
  <2> QED
    BY <2>1, <2>3, <2>4
<1>2. ASSUME NEW x \in D
      PROVE  f[x] <= SumFunction(f)
  <2> DEFINE h == [y \in D |-> IF y = x THEN 0 ELSE f[y]]
  <2>1. h \in [D -> Nat] /\ h[x] = 0 /\ \A y \in D : y # x => h[y] = f[y]
    OBVIOUS
  <2> HIDE DEF h
  <2>2. SumFunction(h) \in Nat
    BY <1>1, <2>1
  <2>3. h \in [D -> Int] /\ f \in [D -> Int]
    BY <2>1
  <2>4. SumFunction(h) = SumFunction(f) - f[x] + h[x]
    BY <2>1, <2>3, SumOfChange
  <2>5. SumFunction(f) \in Nat /\ f[x] \in Nat
    BY <1>1
  <2> QED
    BY <2>1, <2>2, <2>4, <2>5
<1> QED
  BY <1>1, <1>2

\* A sum grows with any of its terms.
LEMMA SumOfGreater ==
  ASSUME NEW D, IsFiniteSet(D), NEW f \in [D -> Nat], NEW h \in [D -> Nat],
         \A x \in D : f[x] <= h[x], NEW m \in D, f[m] < h[m]
  PROVE  SumFunction(f) < SumFunction(h)
<1> DEFINE e == [x \in D |-> h[x] - f[x]]
<1>1. \A x \in D : f[x] \in Nat /\ h[x] \in Nat /\ h[x] - f[x] \in Nat
  OBVIOUS
<1>2. e \in [D -> Nat] /\ \A x \in D : e[x] = h[x] - f[x]
  BY <1>1
<1> HIDE DEF e
<1>3. \A x \in D : h[x] = f[x] + e[x]
  BY <1>1, <1>2
<1>4. /\ f \in [D -> Int] /\ h \in [D -> Int] /\ e \in [D -> Int]
  BY <1>2
<1>5. SumFunction(h) = SumFunction(f) + SumFunction(e)
  BY <1>3, <1>4, SumsAdd
<1>6. SumFunction(f) \in Nat /\ SumFunction(e) \in Nat /\ e[m] <= SumFunction(e)
  BY <1>2, SumOfNaturals
<1>7. e[m] \in Nat /\ e[m] # 0
  BY <1>1, <1>2
<1> QED
  BY <1>5, <1>6, <1>7
----------------------------------------------------------------------------
(* Iteration: what a recursive function on the natural numbers computes *)

\* g follows a loop that starts with a, turn by turn.
Loops(X, a, step, g) ==
  /\ g \in [Nat -> X]
  /\ g[0] = a
  /\ \A n \in Nat : g[n + 1] = step[n][g[n]]

LEMMA SomeLoop ==
  ASSUME NEW X, NEW a \in X, NEW step \in [Nat -> [X -> X]]
  PROVE  \E g : Loops(X, a, step, g)
<1> DEFINE Upto(n, g) == g[0] = a /\ \A m \in Nat : m < n => g[m + 1] = step[m][g[m]]
           G == {n \in Nat : \E g \in [Nat -> X] : Upto(n, g)}
<1>1. 0 \in G
  <2>1. [m \in Nat |-> a] \in [Nat -> X] /\ Upto(0, [m \in Nat |-> a])
    OBVIOUS
  <2> QED
    BY <2>1
<1>2. ASSUME NEW n \in Nat, n \in G
      PROVE  n + 1 \in G
  <2>1. PICK g \in [Nat -> X] : Upto(n, g)
    BY <1>2
  <2> DEFINE h == [m \in Nat |-> IF m <= n THEN g[m] ELSE step[n][g[n]]]
  <2>2. h \in [Nat -> X]
    OBVIOUS
  <2>3. h[0] = a
    BY <2>1
  <2>4. ASSUME NEW m \in Nat, m < n + 1
        PROVE  h[m + 1] = step[m][h[m]]
    <3>1. h[m] = g[m]
      BY <2>4
    <3>2. CASE m < n
      <4>1. h[m + 1] = g[m + 1]
        BY <3>2
      <4> QED
        BY <2>1, <3>1, <3>2, <4>1
    <3>3. CASE m = n
      <4>1. ~(n + 1 <= n) /\ n + 1 \in Nat
        OBVIOUS
      <4>2. h[n + 1] = step[n][g[n]]
        BY <4>1
      <4> QED
        BY <3>1, <3>3, <4>2
    <3> QED
      BY <2>4, <3>2, <3>3
  <2>5. Upto(n + 1, h)
    BY <2>3, <2>4
  <2> HIDE DEF h, Upto
  <2> QED
    BY <2>2, <2>5
<1>3. \A n \in Nat : n \in G
  <2> HIDE DEF G
  <2> QED
    BY <1>1, <1>2, FromZeroUp
<1> DEFINE h(n) == CHOOSE g \in [Nat -> X] : Upto(n, g)
<1>4. \A n \in Nat : h(n) \in [Nat -> X] /\ Upto(n, h(n))
  <2> HIDE DEF Upto
  <2> QED
    BY <1>3
<1> HIDE DEF h
<1>5. ASSUME NEW n \in Nat
      PROVE  h(n + 1)[n] = h(n)[n]
  <2> DEFINE H == {m \in Nat : m <= n => h(n + 1)[m] = h(n)[m]}
  <2>0. /\ n + 1 \in Nat /\ Upto(n, h(n)) /\ Upto(n + 1, h(n + 1))
    <3> HIDE DEF Upto
    <3> QED
      BY <1>4
  <2>1. 0 \in H
    BY <2>0
  <2>2. ASSUME NEW m \in Nat, m \in H
        PROVE  m + 1 \in H
    <3> SUFFICES ASSUME m + 1 <= n
                 PROVE  h(n + 1)[m + 1] = h(n)[m + 1]
      OBVIOUS
    <3>1. m < n /\ m < n + 1 /\ m <= n
      OBVIOUS
    <3> QED
      BY <2>0, <2>2, <3>1
  <2>3. \A m \in Nat : m \in H
    <3> HIDE DEF H
    <3> QED
      BY <2>1, <2>2, FromZeroUp
  <2> QED
    BY <2>3
<1> DEFINE f == [n \in Nat |-> h(n)[n]]
<1>6. f \in [Nat -> X]
  BY <1>4
<1>7. f[0] = a
  BY <1>4
<1>8. ASSUME NEW n \in Nat
      PROVE  f[n + 1] = step[n][f[n]]
  <2>1. n + 1 \in Nat /\ n < n + 1
    OBVIOUS
  <2>2. h(n + 1)[n + 1] = step[n][h(n + 1)[n]]
    BY <1>4, <2>1
  <2> QED
    BY <1>5, <2>1, <2>2
<1> HIDE DEF f
<1>9. Loops(X, a, step, f)
  BY <1>6, <1>7, <1>8 DEF Loops
<1> QED
  BY <1>9
----------------------------------------------------------------------------
(* Listing the elements of a finite set in an order *)

\* R orders the elements of S.
Orders(R, S) ==
  /\ \A x \in S : <<x, x>> \notin R
  /\ \A x, y \in S : x = y \/ <<x, y>> \in R \/ <<y, x>> \in R
  /\ \A x, y, z \in S : <<x, y>> \in R /\ <<y, z>> \in R => <<x, z>> \in R

\* s lists elements of S, as many as there are, in the order R.
Lists(s, S, R) ==
  /\ s \in [1..Cardinality(S) -> S]
  /\ \A i, j \in 1..Cardinality(S) : i < j => <<s[i], s[j]>> \in R

\* Some elements have a greatest.
LEMMA Greatest ==
  ASSUME NEW S, IsFiniteSet(S), S # {}, NEW R, Orders(R, S)
  PROVE  \E m \in S : \A x \in S : x = m \/ <<x, m>> \in R
<1> DEFINE G == {T \in SUBSET S : T # {} => \E m \in T : \A x \in T : x = m \/ <<x, m>> \in R}
<1>1. ASSUME NEW T \in SUBSET S, \A U \in SUBSET T : U # T => U \in G
      PROVE  T \in G
  <2> SUFFICES ASSUME NEW y \in T
               PROVE  \E m \in T : \A x \in T : x = m \/ <<x, m>> \in R
    OBVIOUS
  <2>1. CASE T = {y}
    BY <2>1
  <2>2. CASE T # {y}
    <3>1. T \ {y} \in G /\ T \ {y} # {}
      BY <1>1, <2>2
    <3>2. PICK m \in T \ {y} : \A x \in T \ {y} : x = m \/ <<x, m>> \in R
      BY <3>1
    <3>3. CASE <<y, m>> \in R
      BY <3>2, <3>3
    <3>4. CASE <<m, y>> \in R
      <4>1. \A x \in T \ {y} : <<x, y>> \in R
        BY <3>2, <3>4 DEF Orders
      <4> QED
        BY <4>1
    <3> QED
      BY <3>2, <3>3, <3>4 DEF Orders
  <2> QED
    BY <2>1, <2>2
<1>2. \A T \in SUBSET S : T \in G
  <2> HIDE DEF G
  <2> QED
    BY <1>1, FromSmallerSets
<1>3. S \in G
  BY <1>2
<1> QED
  BY <1>3

LEMMA SomeListing ==
  ASSUME NEW S, IsFiniteSet(S), NEW R, Orders(R, S)
  PROVE  \E s : Lists(s, S, R)
<1> DEFINE G == {T \in SUBSET S : \E s : Lists(s, T, R)}
<1>1. ASSUME NEW T \in SUBSET S, \A U \in SUBSET T : U # T => U \in G
      PROVE  T \in G
  <2>1. IsFiniteSet(T) /\ Cardinality(T) \in Nat /\ Orders(R, T)
    BY FS_Subset, FS_CardinalityType DEF Orders
  <2>2. CASE T = {}
    <3>1. Cardinality(T) = 0
      BY <2>2, FS_EmptySet
    <3>2. <<>> \in [1..0 -> T]
      OBVIOUS
    <3>3. Lists(<<>>, T, R)
      BY <3>1, <3>2 DEF Lists
    <3> QED
      BY <3>3
  <2>3. CASE T # {}
    <3>1. PICK m \in T : \A x \in T : x = m \/ <<x, m>> \in R
      BY <2>1, <2>3, Greatest
    <3> DEFINE U == T \ {m}
               n == Cardinality(U)
    <3>2. n \in Nat /\ Cardinality(T) = n + 1
      <4>1. IsFiniteSet(U) /\ n = Cardinality(T) - 1
        BY <2>1, <3>1, FS_RemoveElement
      <4>2. n \in Nat
        BY <4>1, FS_CardinalityType
      <4> HIDE DEF n
      <4> QED
        BY <2>1, <4>1, <4>2
    <3>3. U \in G
      BY <1>1
    <3>4. PICK s : Lists(s, U, R)
      BY <3>3
    <3>5. /\ s \in [1..n -> U]
          /\ \A i, j \in 1..n : i < j => <<s[i], s[j]>> \in R
      BY <3>4 DEF Lists
    <3> DEFINE t == [i \in 1..(n + 1) |-> IF i <= n THEN s[i] ELSE m]
    <3> HIDE DEF n
    <3>6. \A i \in 1..(n + 1) : i \in 1..n \/ i = n + 1
      BY <3>2
    <3>7. t[n + 1] = m /\ \A i \in 1..n : t[i] = s[i] /\ s[i] \in U
      BY <3>2, <3>5
    <3>8. t \in [1..(n + 1) -> T]
      BY <3>1, <3>5, <3>6
    <3>9. ASSUME NEW i \in 1..(n + 1), NEW j \in 1..(n + 1), i < j
          PROVE  <<t[i], t[j]>> \in R
      <4>1. i \in 1..n
        BY <3>2, <3>9
      <4>2. CASE j \in 1..n
        BY <3>5, <3>7, <3>9, <4>1, <4>2
      <4>3. CASE j = n + 1
        BY <3>1, <3>7, <4>1, <4>3
      <4> QED
        BY <3>6, <4>2, <4>3
    <3>10. Lists(t, T, R)
      <4> HIDE DEF t
      <4> QED
        BY <3>2, <3>8, <3>9 DEF Lists
    <3> QED
      BY <3>10
  <2> QED
    BY <2>2, <2>3
<1>2. \A T \in SUBSET S : T \in G
  <2> HIDE DEF G
  <2> QED
    BY <1>1, FromSmallerSets
<1>3. S \in G
  BY <1>2
<1> QED
  BY <1>3

\* A listing leaves no element out.
LEMMA ListingIsOnto ==
  ASSUME NEW S, IsFiniteSet(S), NEW R, Orders(R, S), NEW s, Lists(s, S, R)
  PROVE  \A x \in S : \E i \in 1..Cardinality(S) : s[i] = x
<1> DEFINE n == Cardinality(S)
<1>1. n \in Nat /\ IsFiniteSet(1..n) /\ Cardinality(1..n) = n
  <2>1. n \in Nat
    BY FS_CardinalityType
  <2> QED
    BY <2>1, FS_Interval
<1>2. s \in [1..n -> S]
  BY DEF Lists
<1>3. ASSUME NEW i \in 1..n, NEW j \in 1..n, s[i] = s[j]
      PROVE  i = j
  <2>1. i \in Nat /\ j \in Nat /\ s[i] \in S
    BY <1>1, <1>2
  <2>2. ~(i < j) /\ ~(j < i)
    BY <1>3, <2>1 DEF Lists, Orders
  <2> QED
    BY <2>1, <2>2
<1>4. s \in Injection(1..n, S)
  BY <1>2, <1>3 DEF Injection, IsInjective
<1>5. s \in Surjection(1..n, S)
  BY <1>1, <1>4, FS_Injection
<1> QED
  BY <1>5 DEF Surjection
============================================================================
