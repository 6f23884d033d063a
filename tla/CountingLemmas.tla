--------------------------- MODULE CountingLemmas ---------------------------
(***************************************************************************)
(* Lemmas the proofs share: induction over the naturals in a form the      *)
(* provers can use, with a set in the place of a predicate, counting a set *)
(* that changes at one element, and sums over finite sets.                 *)
(***************************************************************************)
EXTENDS Integers, FiniteSetTheorems, WellFoundedInduction, TLAPS

\* Every set of naturals has a least element: the intervals 0..k below one of
\* its elements are well-founded by inclusion.
LEMMA LeastElement ==
  ASSUME NEW S \in SUBSET Nat, NEW n \in S
  PROVE  \E m \in S : \A k \in S : m <= k
<1> DEFINE T == {0..k : k \in {i \in S : i <= n}}
<1>1. IsFiniteSet(0..n)
  BY FS_Interval
<1>2. IsWellFoundedOn(StrictSubsetOrdering(0..n), FiniteSubsetsOf(0..n))
  BY FS_StrictSubsetOrderingWellFounded
<1>3. T \subseteq FiniteSubsetsOf(0..n) /\ T # {}
  BY <1>1, FS_Subset DEF FiniteSubsetsOf
<1>4. PICK x \in T : \A y \in T : ~(<<y, x>> \in StrictSubsetOrdering(0..n))
  <2> HIDE DEF T
  <2> QED BY <1>2, <1>3, WFMin
<1>5. PICK m \in S : m <= n /\ x = 0..m
  OBVIOUS
<1>6. ASSUME NEW k \in S PROVE m <= k
  <2>1. SUFFICES ASSUME k < m PROVE FALSE
    OBVIOUS
  <2>2. 0..k \in T /\ 0..k \subseteq 0..m /\ 0..k # 0..m /\ 0..m \subseteq 0..n
    BY <1>5, <2>1
  <2>3. <<0..k, 0..m>> \in StrictSubsetOrdering(0..n)
    BY <2>2 DEF StrictSubsetOrdering
  <2> QED BY <1>4, <1>5, <2>2, <2>3
<1> QED BY <1>6

\* Induction over the naturals, for a set instead of a predicate.
LEMMA SetInduction ==
  ASSUME NEW S, 0 \in S, \A n \in Nat : n \in S => n + 1 \in S
  PROVE  Nat \subseteq S
<1> SUFFICES ASSUME NEW n \in Nat, n \notin S PROVE FALSE
  OBVIOUS
<1>1. PICK m \in Nat \ S : \A k \in Nat \ S : m <= k
  <2>1. Nat \ S \in SUBSET Nat /\ n \in Nat \ S
    OBVIOUS
  <2> QED BY <2>1, LeastElement
<1>2. m - 1 \in Nat /\ m - 1 \in S
  BY <1>1
<1> QED BY <1>1, <1>2
-----------------------------------------------------------------------------
\* Counting a set with and without one element.
LEMMA CountWithout ==
  ASSUME NEW S, IsFiniteSet(S), NEW x
  PROVE  /\ IsFiniteSet(S \ {x})
         /\ Cardinality(S \ {x}) \in Nat
         /\ Cardinality(S) = Cardinality(S \ {x}) + (IF x \in S THEN 1 ELSE 0)
<1>1. /\ IsFiniteSet(S \ {x})
      /\ Cardinality(S \ {x}) = IF x \in S THEN Cardinality(S) - 1
                                           ELSE Cardinality(S)
  BY FS_RemoveElement
<1>2. Cardinality(S) \in Nat /\ Cardinality(S \ {x}) \in Nat
  BY <1>1, FS_CardinalityType
<1> QED BY <1>1, <1>2

\* A set that changes at w alone is counted by what happens at w.
LEMMA CountAt ==
  ASSUME NEW S, NEW T, IsFiniteSet(S), IsFiniteSet(T), NEW x,
         S \ {x} = T \ {x}
  PROVE  \E n \in Nat : /\ Cardinality(S) = n + (IF x \in S THEN 1 ELSE 0)
                        /\ Cardinality(T) = n + (IF x \in T THEN 1 ELSE 0)
<1> DEFINE n == Cardinality(S \ {x})
<1>1. n \in Nat /\ Cardinality(S) = n + (IF x \in S THEN 1 ELSE 0)
  BY CountWithout
<1>2. Cardinality(T) = n + (IF x \in T THEN 1 ELSE 0)
  BY CountWithout
<1> HIDE DEF n
<1> QED BY <1>1, <1>2

\* Sets that have no element in common add up.
LEMMA CountApart ==
  ASSUME NEW S, NEW T, IsFiniteSet(S), IsFiniteSet(T), S \cap T = {}
  PROVE  /\ IsFiniteSet(S \cup T)
         /\ Cardinality(S \cup T) = Cardinality(S) + Cardinality(T)
         /\ Cardinality(S) \in Nat /\ Cardinality(T) \in Nat
<1>1. Cardinality(S) \in Nat /\ Cardinality(T) \in Nat /\ Cardinality({}) = 0
  BY FS_CardinalityType, FS_EmptySet
<1>2. /\ IsFiniteSet(S \cup T)
      /\ Cardinality(S \cup T) = Cardinality(S) + Cardinality(T) - Cardinality(S \cap T)
  BY FS_Union
<1>3. Cardinality(S \cap T) = 0
  BY <1>1
<1> QED BY <1>1, <1>2, <1>3

\* What a sequence of steps from a comes to: a function of the number of steps.
Steps(n, a, G, V, f) ==
  /\ f \in [0..n -> V] /\ f[0] = a
  /\ \A i \in 0..(n - 1) : f[i + 1] = G[i][f[i]]

\* Any number of steps can be taken: what a recursive function walks exists.
LEMMA StepsExist ==
  ASSUME NEW V, NEW a \in V, NEW G \in [Nat -> [V -> V]], NEW m \in Nat
  PROVE  \E f : Steps(m, a, G, V, f)
<1> DEFINE S == {n \in Nat : \E f : Steps(n, a, G, V, f)}
<1>1. 0 \in S
  <2> DEFINE f == [i \in 0..0 |-> a]
  <2>1. Steps(0, a, G, V, f)
    BY DEF Steps
  <2> QED BY <2>1
<1>2. ASSUME NEW n \in Nat, n \in S PROVE n + 1 \in S
  <2>1. PICK f : Steps(n, a, G, V, f)
    BY <1>2
  <2> DEFINE v == G[n][f[n]]
             g == [i \in 0..(n + 1) |-> IF i = n + 1 THEN v ELSE f[i]]
  <2>2. v \in V
    <3>1. f[n] \in V
      BY <2>1 DEF Steps
    <3> QED BY <3>1
  <2> HIDE DEF v
  <2>3. g \in [0..(n + 1) -> V] /\ g[0] = a
    BY <2>1, <2>2 DEF Steps
  <2>4. ASSUME NEW i \in 0..((n + 1) - 1) PROVE g[i + 1] = G[i][g[i]]
    <3>1. g[i] = f[i]
      OBVIOUS
    <3>2. CASE i = n
      BY <3>1, <3>2 DEF v
    <3>3. CASE i # n
      <4>1. i \in 0..(n - 1) /\ g[i + 1] = f[i + 1]
        BY <3>3
      <4> QED BY <2>1, <3>1, <4>1 DEF Steps
    <3> QED BY <3>2, <3>3
  <2>5. Steps(n + 1, a, G, V, g)
    BY <2>3, <2>4 DEF Steps
  <2> QED BY <2>5
<1> HIDE DEF S
<1>3. m \in S
  BY <1>1, <1>2, SetInduction
<1> QED BY <1>3 DEF S

-----------------------------------------------------------------------------
\* Induction over the subsets of a finite set, for a set instead of a predicate.
LEMMA SubsetInduction ==
  ASSUME NEW S, IsFiniteSet(S), NEW P,
         \A s \in SUBSET S : (\A t \in SUBSET s : t # s => t \in P) => s \in P
  PROVE  SUBSET S \subseteq P
<1> DEFINE T == {s \in SUBSET S : s \notin P}
<1>1. SUFFICES ASSUME T # {} PROVE FALSE
  OBVIOUS
<1>2. IsWellFoundedOn(StrictSubsetOrdering(S), SUBSET S)
  BY FS_StrictSubsetOrderingWellFounded, FS_FiniteSubsetsOfFinite
<1>3. PICK s \in T : \A t \in T : ~(<<t, s>> \in StrictSubsetOrdering(S))
  <2>1. T \subseteq SUBSET S
    OBVIOUS
  <2> HIDE DEF T
  <2> QED BY <1>1, <1>2, <2>1, WFMin
<1>4. ASSUME NEW t \in SUBSET s, t # s PROVE t \in P
  <2>1. <<t, s>> \in StrictSubsetOrdering(S)
    BY <1>4 DEF StrictSubsetOrdering
  <2>2. t \notin T
    BY <1>3, <2>1
  <2> QED BY <1>4, <2>2
<1> QED BY <1>3, <1>4
-----------------------------------------------------------------------------
\* The element a fold takes first, and the sums a fold with w comes to for the
\* subsets of S.
First(s) == CHOOSE x \in s : TRUE
IsFold(S, w, f) ==
  f = [s \in SUBSET S |-> IF s = {} THEN 0 ELSE w[First(s)] + f[s \ {First(s)}]]

\* It takes an element.
LEMMA FirstIn == ASSUME NEW s, s # {} PROVE First(s) \in s
BY DEF First

\* A finite set can be folded.
LEMMA FoldExists ==
  ASSUME NEW S, IsFiniteSet(S), NEW w \in [S -> Int]
  PROVE  \E f : IsFold(S, w, f)
<1> DEFINE V == [SUBSET S -> Int]
           Up(v) == [s \in SUBSET S |-> IF s = {} THEN 0 ELSE w[First(s)] + v[s \ {First(s)}]]
           a == [s \in SUBSET S |-> 0]
           G == [i \in Nat |-> [v \in V |-> Up(v)]]
           n == Cardinality(S)
<1>1. n \in Nat
  BY FS_CardinalityType
<1>2. ASSUME NEW v \in V PROVE Up(v) \in V
  <2>1. ASSUME NEW s \in SUBSET S
        PROVE  (IF s = {} THEN 0 ELSE w[First(s)] + v[s \ {First(s)}]) \in Int
    <3>1. CASE s = {}
      BY <3>1
    <3>2. CASE s # {}
      <4>1. First(s) \in S /\ s \ {First(s)} \in SUBSET S
        BY <3>2, FirstIn
      <4>2. w[First(s)] \in Int /\ v[s \ {First(s)}] \in Int
        BY <4>1
      <4> QED BY <3>2, <4>2
    <3> QED BY <3>1, <3>2
  <2> QED BY <2>1
<1> HIDE DEF Up
<1>3. a \in V
  OBVIOUS
<1> HIDE DEF V, a
<1>4. \A i \in Nat : \A v \in V : G[i][v] = Up(v)
  OBVIOUS
<1>11. G \in [Nat -> [V -> V]]
  <2> DEFINE g == [v \in V |-> Up(v)]
  <2>1. g \in [V -> V]
    BY <1>2
  <2>2. G = [i \in Nat |-> g]
    OBVIOUS
  <2> HIDE DEF g
  <2> QED BY <2>1, <2>2
<1> HIDE DEF G, n
<1>5. PICK h : Steps(n + 1, a, G, V, h)
  <2> DEFINE m == n + 1
  <2>1. m \in Nat
    BY <1>1
  <2> HIDE DEF m
  <2>2. \E h : Steps(m, a, G, V, h)
    BY <1>3, <1>11, <2>1, StepsExist
  <2> QED BY <2>2 DEF m
<1>6. /\ h[0] = a /\ \A i \in 0..(n + 1) : h[i] \in V
      /\ \A i \in 0..n : h[i + 1] = Up(h[i])
  <2>1. h \in [0..(n + 1) -> V] /\ h[0] = a /\ \A i \in 0..n : h[i + 1] = G[i][h[i]]
    <3>1. (n + 1) - 1 = n
      BY <1>1
    <3> QED BY <1>5, <3>1 DEF Steps
  <2>2. ASSUME NEW i \in 0..n PROVE h[i + 1] = Up(h[i])
    <3>1. h[i] \in V /\ i \in Nat
      BY <1>1, <2>1
    <3> QED BY <1>4, <2>1, <3>1
  <2> QED BY <2>1, <2>2
\* After as many steps as a set has elements its sum does not change.
<1> DEFINE P == {s \in SUBSET S : \A i \in 0..n : Cardinality(s) <= i => h[i + 1][s] = h[i][s]}
<1>7. ASSUME NEW s \in SUBSET S, \A t \in SUBSET s : t # s => t \in P PROVE s \in P
  <2> SUFFICES ASSUME NEW i \in 0..n, Cardinality(s) <= i PROVE h[i + 1][s] = h[i][s]
    OBVIOUS
  <2>1. h[i + 1] = Up(h[i])
    BY <1>6
  <2>2. CASE s = {}
    <3>1. h[i + 1][s] = 0
      BY <2>1, <2>2 DEF Up
    <3>2. h[i][s] = 0
      <4>1. CASE i = 0
        BY <1>6, <4>1 DEF a
      <4>2. CASE i # 0
        <5>1. i - 1 \in 0..n /\ (i - 1) + 1 = i
          BY <1>1, <4>2
        <5> DEFINE j == i - 1
        <5>2. h[j + 1] = Up(h[j])
          BY <1>6, <5>1
        <5>3. h[i] = Up(h[j])
          BY <5>1, <5>2
        <5> HIDE DEF j
        <5> QED BY <2>2, <5>3 DEF Up
      <4> QED BY <4>1, <4>2
    <3> QED BY <3>1, <3>2
  <2>3. CASE s # {}
    <3> DEFINE x == First(s)
               t == s \ {x}
               j == i - 1
    <3>1. x \in s /\ t \in SUBSET s /\ t # s
      BY <2>3, FirstIn
    <3>2. IsFiniteSet(s)
      BY FS_Subset
    <3>3. Cardinality(s) \in Nat /\ Cardinality(t) \in Nat /\ Cardinality(s) = Cardinality(t) + 1
      BY <3>1, <3>2, CountWithout
    <3>4. j \in 0..n /\ j + 1 = i /\ Cardinality(t) <= j
      BY <1>1, <3>3
    <3>5. t \in P
      BY <1>7, <3>1
    <3>6. h[j + 1][t] = h[j][t]
      BY <3>4, <3>5
    <3>7. h[j + 1] = Up(h[j])
      BY <1>6, <3>4
    <3>8. h[i] = Up(h[j])
      BY <3>4, <3>7
    <3>9. h[i][t] = h[j][t]
      BY <3>4, <3>6
    <3> HIDE DEF j
    <3>10. Up(h[j])[s] = w[x] + h[j][t] /\ Up(h[i])[s] = w[x] + h[i][t]
      BY <2>3 DEF Up
    <3> QED BY <2>1, <3>8, <3>9, <3>10
  <2> QED BY <2>2, <2>3
<1>8. SUBSET S \subseteq P
  <2> HIDE DEF P
  <2> QED BY <1>7, SubsetInduction
<1>9. h[n + 1] = h[n]
  <2>1. ASSUME NEW s \in SUBSET S PROVE h[n + 1][s] = h[n][s]
    <3>1. s \in P
      BY <1>8
    <3>2. Cardinality(s) <= n
      BY FS_Subset DEF n
    <3> QED BY <1>1, <3>1, <3>2
  <2>2. h[n + 1] \in [SUBSET S -> Int] /\ h[n] \in [SUBSET S -> Int]
    <3>1. n + 1 \in 0..(n + 1) /\ n \in 0..(n + 1)
      BY <1>1
    <3>2. h[n + 1] \in V /\ h[n] \in V
      BY <1>6, <3>1
    <3> QED BY <3>2 DEF V
  <2> DEFINE u == h[n + 1]
             v == h[n]
  <2>3. u = [s \in SUBSET S |-> u[s]] /\ v = [s \in SUBSET S |-> v[s]]
    <3>1. u \in [SUBSET S -> Int] /\ v \in [SUBSET S -> Int]
      BY <2>2
    <3> HIDE DEF u, v
    <3> QED BY <3>1
  <2>4. \A s \in SUBSET S : u[s] = v[s]
    BY <2>1
  <2> HIDE DEF P, u, v
  <2>5. u = v
    BY <2>3, <2>4
  <2> QED BY <2>5 DEF u, v
<1>10. h[n] = Up(h[n])
  BY <1>1, <1>6, <1>9
<1> QED BY <1>10 DEF IsFold, Up

SumsUp(S, w, f) ==
  /\ f \in [SUBSET S -> Int] /\ f[{}] = 0
  /\ \A s \in SUBSET S : \A x \in s : f[s] = w[x] + f[s \ {x}]

\* What a fold comes to does not depend on the element it takes first.
LEMMA FoldValue ==
  ASSUME NEW S, IsFiniteSet(S), NEW w \in [S -> Int], NEW f, IsFold(S, w, f)
  PROVE  SumsUp(S, w, f)
<1>1. f[{}] = 0 /\ f = [s \in SUBSET S |-> f[s]]
  BY DEF IsFold
<1>2. ASSUME NEW s \in SUBSET S, s # {}
      PROVE  /\ First(s) \in s /\ s \ {First(s)} \in SUBSET s /\ s \ {First(s)} # s
             /\ f[s] = w[First(s)] + f[s \ {First(s)}]
  <2>1. First(s) \in s
    BY <1>2, FirstIn
  <2> QED BY <1>2, <2>1 DEF IsFold
<1> DEFINE P == {s \in SUBSET S : f[s] \in Int}
<1>3. ASSUME NEW s \in SUBSET S, \A t \in SUBSET s : t # s => t \in P PROVE s \in P
  <2>1. CASE s = {}
    BY <1>1, <2>1
  <2>2. CASE s # {}
    <3>1. f[s \ {First(s)}] \in Int /\ w[First(s)] \in Int
      BY <1>2, <1>3, <2>2
    <3> QED BY <1>2, <2>2, <3>1
  <2> QED BY <2>1, <2>2
<1>4. SUBSET S \subseteq P
  <2> HIDE DEF P
  <2> QED BY <1>3, SubsetInduction
<1>5. \A s \in SUBSET S : f[s] \in Int
  BY <1>4
<1> HIDE DEF P
<1> DEFINE Q == {s \in SUBSET S : \A x \in s : f[s] = w[x] + f[s \ {x}]}
<1>6. ASSUME NEW s \in SUBSET S, \A t \in SUBSET s : t # s => t \in Q PROVE s \in Q
  <2> SUFFICES ASSUME NEW x \in s PROVE f[s] = w[x] + f[s \ {x}]
    OBVIOUS
  <2> DEFINE y == First(s)
  <2>1. y \in s /\ f[s] = w[y] + f[s \ {y}]
    BY <1>2
  <2>2. CASE x = y
    BY <2>1, <2>2
  <2>3. CASE x # y
    <3> HIDE DEF y
    <3> DEFINE r == s \ {x, y}
    <3>1. /\ x \in s \ {y} /\ s \ {y} \in SUBSET s /\ s \ {y} # s /\ (s \ {y}) \ {x} = r
          /\ y \in s \ {x} /\ s \ {x} \in SUBSET s /\ s \ {x} # s /\ (s \ {x}) \ {y} = r
          /\ r \in SUBSET S /\ x \in S /\ y \in S
      BY <2>1, <2>3
    <3>2. s \ {y} \in Q /\ s \ {x} \in Q
      BY <1>6, <3>1
    <3>3. f[s \ {y}] = w[x] + f[r] /\ f[s \ {x}] = w[y] + f[r]
      BY <3>1, <3>2
    <3>4. f[r] \in Int /\ w[x] \in Int /\ w[y] \in Int
      BY <1>5, <3>1
    <3> HIDE DEF r, Q
    <3> QED BY <2>1, <3>3, <3>4
  <2> QED BY <2>2, <2>3
<1>7. SUBSET S \subseteq Q
  <2> HIDE DEF Q
  <2> QED BY <1>6, SubsetInduction
<1> QED BY <1>1, <1>5, <1>7 DEF SumsUp

\* Sums agree where their weights do.
LEMMA SumsAgree ==
  ASSUME NEW S, IsFiniteSet(S), NEW w \in [S -> Int], NEW f, SumsUp(S, w, f),
         NEW T \in SUBSET S, NEW v \in [T -> Int], NEW g, SumsUp(T, v, g),
         \A x \in T : v[x] = w[x]
  PROVE  \A s \in SUBSET T : g[s] = f[s]
<1>1. IsFiniteSet(T)
  BY FS_Subset
<1>2. /\ f[{}] = 0 /\ \A s \in SUBSET S : \A x \in s : f[s] = w[x] + f[s \ {x}]
      /\ g[{}] = 0 /\ \A s \in SUBSET T : \A x \in s : g[s] = v[x] + g[s \ {x}]
  BY DEF SumsUp
<1> DEFINE P == {s \in SUBSET T : g[s] = f[s]}
<1>3. ASSUME NEW s \in SUBSET T, \A t \in SUBSET s : t # s => t \in P PROVE s \in P
  <2>1. CASE s = {}
    BY <1>2, <2>1
  <2>2. CASE s # {}
    <3>1. PICK x \in s : TRUE
      BY <2>2
    <3>2. s \ {x} \in P
      BY <1>3, <3>1
    <3>3. f[s] = w[x] + f[s \ {x}] /\ g[s] = v[x] + g[s \ {x}] /\ v[x] = w[x]
      BY <1>2, <3>1
    <3>4. g[s \ {x}] = f[s \ {x}]
      BY <3>2
    <3> QED BY <3>3, <3>4
  <2> QED BY <2>1, <2>2
<1>4. SUBSET T \subseteq P
  <2> HIDE DEF P
  <2> QED BY <1>1, <1>3, SubsetInduction
<1> QED BY <1>4

\* A part of a sum of naturals is at most the whole.
LEMMA SumsOrder ==
  ASSUME NEW S, IsFiniteSet(S), NEW w \in [S -> Nat], NEW f, SumsUp(S, w, f)
  PROVE  \A s \in SUBSET S : \A t \in SUBSET s : f[t] <= f[s]
<1>2. /\ \A s \in SUBSET S : f[s] \in Int
      /\ \A s \in SUBSET S : \A x \in s : f[s] = w[x] + f[s \ {x}]
  BY DEF SumsUp
<1> DEFINE P == {s \in SUBSET S : \A t \in SUBSET s : f[t] <= f[s]}
<1>3. ASSUME NEW s \in SUBSET S, \A r \in SUBSET s : r # s => r \in P PROVE s \in P
  <2> SUFFICES ASSUME NEW t \in SUBSET s PROVE f[t] <= f[s]
    OBVIOUS
  <2>1. CASE t = s
    <3>1. f[s] \in Int
      BY <1>2
    <3> QED BY <2>1, <3>1
  <2>2. CASE t # s
    <3>1. PICK x \in s : x \notin t
      BY <2>2
    <3> DEFINE r == s \ {x}
    <3>2. r \in SUBSET s /\ r # s /\ t \in SUBSET r /\ t \in SUBSET S /\ r \in SUBSET S /\ x \in S
      BY <3>1
    <3>3. f[s] = w[x] + f[r]
      BY <1>2
    <3> HIDE DEF r
    <3>4. r \in P
      BY <1>3, <3>2
    <3>5. f[t] <= f[r] /\ f[t] \in Int /\ f[r] \in Int /\ w[x] \in Nat
      BY <1>2, <3>2, <3>4
    <3> QED BY <3>3, <3>5
  <2> QED BY <2>1, <2>2
<1>4. SUBSET S \subseteq P
  <2> HIDE DEF P
  <2> QED BY <1>3, SubsetInduction
<1> QED BY <1>4

\* A sum over indices that name the elements of T once each is one over T.
LEMMA SumsRename ==
  ASSUME NEW S, IsFiniteSet(S), NEW w \in [S -> Int], NEW f, SumsUp(S, w, f),
         NEW T, IsFiniteSet(T), NEW v \in [T -> Int], NEW g, SumsUp(T, v, g),
         NEW m \in [S -> T], \A i \in S : w[i] = v[m[i]],
         \A i, j \in S : m[i] = m[j] => i = j, \A x \in T : \E i \in S : m[i] = x
  PROVE  f[S] = g[T]
<1>1. /\ f[{}] = 0 /\ \A s \in SUBSET S : \A x \in s : f[s] = w[x] + f[s \ {x}]
      /\ g[{}] = 0 /\ \A s \in SUBSET T : \A x \in s : g[s] = v[x] + g[s \ {x}]
  BY DEF SumsUp
<1> DEFINE Image(s) == {m[i] : i \in s}
           P == {s \in SUBSET S : f[s] = g[Image(s)]}
<1>2. ASSUME NEW s \in SUBSET S, \A t \in SUBSET s : t # s => t \in P PROVE s \in P
  <2>1. CASE s = {}
    <3>1. Image(s) = {}
      BY <2>1
    <3> HIDE DEF Image
    <3> QED BY <1>1, <2>1, <3>1
  <2>2. CASE s # {}
    <3>1. PICK x \in s : TRUE
      BY <2>2
    <3>2. Image(s \ {x}) = Image(s) \ {m[x]}
      BY <3>1
    <3>3. Image(s) \in SUBSET T /\ m[x] \in Image(s)
      BY <3>1
    <3> HIDE DEF Image
    <3>4. s \ {x} \in P
      BY <1>2, <3>1
    <3>5. f[s \ {x}] = g[Image(s) \ {m[x]}]
      BY <3>2, <3>4
    <3>6. f[s] = w[x] + f[s \ {x}] /\ w[x] = v[m[x]]
      BY <1>1, <3>1
    <3>7. g[Image(s)] = v[m[x]] + g[Image(s) \ {m[x]}]
      BY <1>1, <3>3
    <3> QED BY <3>5, <3>6, <3>7
  <2> QED BY <2>1, <2>2
<1>3. SUBSET S \subseteq P
  <2> HIDE DEF P
  <2> QED BY <1>2, SubsetInduction
<1>4. Image(S) = T
  OBVIOUS
<1> QED BY <1>3, <1>4
=============================================================================
