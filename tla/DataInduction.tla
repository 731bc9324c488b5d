---------------------------- MODULE DataInduction ----------------------------
(***************************************************************************)
(* Induction over data, for the proofs about every component: a set of      *)
(* naturals has a least member, so a formula that fails for some number     *)
(* fails for a least one; a function defined by recursion on a number       *)
(* exists; and what a sum over a finite set is.                             *)
(***************************************************************************)
EXTENDS Integers, Sequences, FiniteSets, Functions, SequencesExt, FiniteSetsExt, TLAPS, WellFoundedInduction,
        FiniteSetTheorems, SequenceTheorems

(* Sets of naturals have a least member: the intervals up to its members    *)
(* are finite sets, which inclusion orders well.                            *)
LEMMA NatMin ==
  ASSUME NEW T \in SUBSET Nat, T # {}
  PROVE  \E x \in T : \A y \in T : x <= y
  <1> DEFINE B == {0..n : n \in T}
  <1>1. IsWellFoundedOn(StrictSubsetOrdering(Nat), FiniteSubsetsOf(Nat))
    BY FS_StrictSubsetOrderingWellFounded
  <1>2. B \subseteq FiniteSubsetsOf(Nat)
    <2> SUFFICES ASSUME NEW n \in T PROVE 0..n \in FiniteSubsetsOf(Nat)
      OBVIOUS
    <2>1. n \in Nat
      OBVIOUS
    <2>2. IsFiniteSet(0..n)
      BY <2>1, FS_Interval
    <2>3. 0..n \in SUBSET Nat
      BY <2>1
    <2> QED
      BY <2>2, <2>3, Zenon DEF FiniteSubsetsOf
  <1>3. B # {}
    <2>1. PICK n : n \in T
      OBVIOUS
    <2>2. 0..n \in B
      BY <2>1
    <2> QED
      BY <2>2
  <1>4. PICK b \in B : \A c \in B : ~(<<c, b>> \in StrictSubsetOrdering(Nat))
    <2> HIDE DEF B
    <2> QED
      BY <1>1, <1>2, <1>3, WFMin
  <1>5. PICK x \in T : b = 0..x
    OBVIOUS
  <1>6. ASSUME NEW y \in T, ~(x <= y)
        PROVE  FALSE
    <2>1. 0..y \in B
      OBVIOUS
    <2>2. y \in Nat /\ x \in Nat
      OBVIOUS
    <2>3. 0..y \subseteq 0..x /\ x \in 0..x /\ x \notin 0..y /\ 0..x \subseteq Nat /\ 0..y \subseteq Nat
      BY <1>6, <2>2
    <2>4. <<0..y, b>> \in StrictSubsetOrdering(Nat)
      <3>1. 0..y \in SUBSET Nat /\ b \in SUBSET Nat /\ 0..y \subseteq b /\ 0..y # b
        BY <1>5, <2>3
      <3> QED
        BY <3>1, Zenon DEF StrictSubsetOrdering
    <2> QED
      BY <1>4, <2>1, <2>4
  <1> QED
    BY <1>6


(* Induction on a measure m: what is good wherever all below it is good is  *)
(* good everywhere.                                                         *)
LEMMA MeasureInduction ==
  ASSUME NEW D, NEW m \in [D -> Nat], NEW A,
         \A x \in D : (\A y \in D : m[y] < m[x] => y \in A) => x \in A
  PROVE  \A x \in D : x \in A
  <1> DEFINE Bad == {x \in D : x \notin A}
             T == {m[x] : x \in Bad}
  <1> SUFFICES ASSUME NEW x \in Bad PROVE FALSE
    OBVIOUS
  <1>1. T \in SUBSET Nat /\ m[x] \in T
    OBVIOUS
  <1>2. PICK n \in T : \A k \in T : n <= k
    <2> HIDE DEF T
    <2> QED
      BY <1>1, NatMin
  <1>3. PICK y \in Bad : n = m[y]
    OBVIOUS
  <1>4. ASSUME NEW z \in D, m[z] < m[y] PROVE z \in A
    <2>1. CASE z \in Bad
      <3>1. m[z] \in T
        BY <2>1
      <3>2. n <= m[z] /\ m[z] \in Nat /\ m[y] \in Nat
        BY <3>1, <1>2
      <3> QED
        BY <3>2, <1>3, <1>4
    <2> QED
      BY <2>1
  <1> QED
    BY <1>4

LEMMA LargestOf ==
  ASSUME NEW N \in Nat, NEW T \in SUBSET (0..N), T # {}
  PROVE  \E i \in T : \A j \in T : j <= i
  <1> DEFINE U == {N - i : i \in T}
  <1>1. U \in SUBSET Nat /\ U # {}
    <2>1. \A i \in T : i \in 0..N
      OBVIOUS
    <2>2. \A i \in T : N - i \in Nat
      BY <2>1
    <2>3. U \subseteq Nat
      BY <2>2
    <2> QED
      BY <2>3
  <1>2. PICK u \in U : \A k \in U : u <= k
    <2> HIDE DEF U
    <2> QED
      BY <1>1, NatMin
  <1>3. PICK i \in T : u = N - i
    OBVIOUS
  <1>4. ASSUME NEW j \in T PROVE j <= i
    <2>1. u <= N - j /\ i \in 0..N /\ j \in 0..N
      BY <1>2
    <2> QED
      BY <2>1, <1>3
  <1> QED
    BY <1>4

LEMMA OneOp ==
  ASSUME NEW V, NEW x \in V
  PROVE  <<x>> \in Seq(V)
  OBVIOUS

(* A sequence of values of which each is made from the one before it.       *)
Iterated(f, V, b, N, g) ==
  f \in [0..N -> V] /\ f[0] = b /\ \A n \in 1..N : f[n] = g[n][f[n - 1]]

LEMMA Iterates ==
  ASSUME NEW V, NEW b \in V, NEW N \in Nat, NEW g \in [1..N -> [V -> V]]
  PROVE  \E f : Iterated(f, V, b, N, g)
  <1> DEFINE Upto(n) == \E f \in [0..n -> V] : f[0] = b /\ \A k \in 1..n : f[k] = g[k][f[k - 1]]
             T == {n \in 0..N : ~Upto(n)}
  <1>0. \A n \in 0..N : n \in T <=> ~Upto(n)
    <2> HIDE DEF Upto
    <2> QED
      OBVIOUS
  <1>1. CASE T = {}
    <2>1. Upto(N)
      <3> HIDE DEF Upto, T
      <3> QED
        BY <1>0, <1>1
    <2> QED
      BY <2>1 DEF Iterated
  <1>2. CASE T # {}
    <2>1. PICK n \in T : \A m \in T : n <= m
      <3>1. T \in SUBSET Nat
        OBVIOUS
      <3> HIDE DEF T
      <3> QED
        BY <1>2, <3>1, NatMin
    <2>2. n \in 0..N /\ ~Upto(n)
      OBVIOUS
    <2>3. CASE n = 0
      <3> DEFINE h == [i \in 0..0 |-> b]
      <3>1. h \in [0..0 -> V] /\ h[0] = b
        OBVIOUS
      <3>2. \A k \in 1..0 : h[k] = g[k][h[k - 1]]
        OBVIOUS
      <3> HIDE DEF h
      <3>3. Upto(0)
        BY <3>1, <3>2
      <3> HIDE DEF Upto
      <3> QED
        BY <2>2, <2>3, <3>3
    <2>4. CASE n # 0
      <3>1. n \in 1..N /\ n - 1 \in 0..N
        BY <2>2, <2>4
      <3>0. Upto(n - 1)
        <4>1. n - 1 \notin T
          <5> HIDE DEF T
          <5> QED
            BY <2>1, <3>1
        <4> HIDE DEF T, Upto
        <4> QED
          BY <4>1, <3>1, <1>0
      <3>2. PICK f \in [0..(n - 1) -> V] : f[0] = b /\ \A k \in 1..(n - 1) : f[k] = g[k][f[k - 1]]
        BY <3>0
      <3> DEFINE h == [k \in 0..n |-> IF k = n THEN g[n][f[n - 1]] ELSE f[k]]
      <3>3. f[n - 1] \in V
        BY <3>1, <3>2
      <3>4. g[n][f[n - 1]] \in V
        BY <3>1, <3>3
      <3>5. h \in [0..n -> V]
        BY <3>1, <3>2, <3>4
      <3>6. h[0] = b /\ \A k \in 1..n : h[k] = g[k][h[k - 1]]
        <4>1. h[0] = b
          BY <3>1, <3>2
        <4>2. ASSUME NEW k \in 1..n PROVE h[k] = g[k][h[k - 1]]
          <5>1. k - 1 \in 0..(n - 1) /\ h[k - 1] = f[k - 1]
            BY <3>1
          <5>2. CASE k = n
            BY <5>1, <5>2, <3>1
          <5>3. CASE k # n
            <6>1. k \in 1..(n - 1) /\ h[k] = f[k]
              BY <5>3, <3>1
            <6> QED
              BY <6>1, <5>1, <3>2
          <5> QED
            BY <5>2, <5>3
        <4> QED
          BY <4>1, <4>2
      <3> HIDE DEF h
      <3>7. Upto(n)
        BY <3>5, <3>6
      <3> HIDE DEF Upto
      <3> QED
        BY <2>2, <3>7
    <2> QED
      BY <2>3, <2>4
  <1> QED
    BY <1>1, <1>2

(* f is what n applications of h make of z, for n up to M.                  *)
Repeated(f, W, z, M, h) ==
  f \in [0..M -> W] /\ f[0] = z /\ \A n \in 1..M : f[n] = h[f[n - 1]]

LEMMA Repeats ==
  ASSUME NEW W, NEW z \in W, NEW M \in Nat, NEW h \in [W -> W]
  PROVE  \E f : Repeated(f, W, z, M, h)
  <1> DEFINE g == [n \in 1..M |-> h]
  <1>1. g \in [1..M -> [W -> W]]
    OBVIOUS
  <1>2. \A n \in 1..M : g[n] = h
    OBVIOUS
  <1> HIDE DEF g
  <1>3. PICK f : Iterated(f, W, z, M, g)
    BY <1>1, Iterates
  <1> QED
    BY <1>2, <1>3 DEF Iterated, Repeated

(* What h says of x depends only on the values at what m puts below x.      *)
Descends(D, V, W, m, h) ==
  W = [D -> V] /\ \A x \in D : \A a, b \in W :
    (\A y \in D : m[y] < m[x] => a[y] = b[y]) => h[a][x] = h[b][x]

(* Then the recursive definition has a solution among the candidates W.     *)
LEMMA Recursion ==
  ASSUME NEW D, NEW V, NEW W, NEW z \in W, NEW N \in Nat,
         NEW m \in [D -> 0..N], NEW h \in [W -> W], Descends(D, V, W, m, h)
  PROVE  \E f \in W : f = h[f]
  <1> DEFINE M == N + 1
  <1>1. M \in Nat
    OBVIOUS
  <1>2. PICK f : Repeated(f, W, z, M, h)
    <2> HIDE DEF M
    <2> QED
      BY <1>1, Repeats
  <1>4. \A n \in 1..(N + 1) : f[n] = h[f[n - 1]] /\ f[n] \in W /\ f[n - 1] \in W
    BY <1>2 DEF Repeated
  <1> HIDE DEF M
  <1> DEFINE T == {n \in 0..N : \E x \in D : m[x] < n /\ f[n + 1][x] # f[n][x]}
  <1>5. T = {}
    <2> SUFFICES ASSUME T # {} PROVE FALSE
      OBVIOUS
    <2>1. PICK n \in T : \A k \in T : n <= k
      <3>1. T \in SUBSET Nat
        OBVIOUS
      <3> HIDE DEF T
      <3> QED
        BY <3>1, NatMin
    <2>2. PICK x \in D : m[x] < n /\ f[n + 1][x] # f[n][x]
      OBVIOUS
    <2>3. n \in 0..N /\ m[x] \in 0..N
      OBVIOUS
    <2>4. /\ n \in 1..N /\ n - 1 \in 0..N /\ n + 1 \in 1..(N + 1) /\ n \in 1..(N + 1)
          /\ (n + 1) - 1 = n /\ (n - 1) + 1 = n
      BY <2>2, <2>3
    <2>5. /\ f[n + 1] = h[f[n]] /\ f[n] = h[f[n - 1]]
          /\ f[n] \in W /\ f[n - 1] \in W
      BY <1>4, <2>4
    <2>7. ASSUME NEW y \in D, m[y] < m[x]
          PROVE  f[n][y] = f[n - 1][y]
      <3>1. m[y] \in 0..N
        OBVIOUS
      <3>2. m[y] < n - 1
        BY <2>2, <2>3, <2>7, <3>1
      <3>3. n - 1 \notin T
        <4> HIDE DEF T
        <4> QED
          BY <2>1, <2>4
      <3>4. f[(n - 1) + 1][y] = f[n - 1][y]
        BY <2>4, <3>2, <3>3
      <3> QED
        BY <3>4, <2>4
    <2>8. h[f[n]][x] = h[f[n - 1]][x]
      BY <2>5, <2>7 DEF Descends
    <2> QED
      BY <2>2, <2>5, <2>8
  <1>6. /\ f[N + 1] \in W /\ f[N] \in W /\ f[N + 1] = h[f[N]] /\ h[f[N + 1]] \in W
        /\ f[N + 1] \in [D -> V] /\ h[f[N + 1]] \in [D -> V]
    <2>1. N + 1 \in 1..(N + 1) /\ (N + 1) - 1 = N
      OBVIOUS
    <2> QED
      BY <2>1, <1>4 DEF Descends
  <1>7. ASSUME NEW x \in D
        PROVE  f[N + 1][x] = h[f[N + 1]][x]
    <2>2. ASSUME NEW y \in D, m[y] < m[x]
          PROVE  f[N + 1][y] = f[N][y]
      <3>1. m[y] < N
        <4>1. m[y] \in 0..N /\ m[x] \in 0..N
          OBVIOUS
        <4> QED
          BY <4>1, <2>2
      <3>2. N \in 0..N /\ N \notin T
        <4> HIDE DEF T
        <4> QED
          BY <1>5
      <3> QED
        BY <3>1, <3>2
    <2>3. h[f[N + 1]][x] = h[f[N]][x]
      BY <2>2, <1>6 DEF Descends
    <2> QED
      BY <2>3, <1>6
  <1>8. f[N + 1] = h[f[N + 1]]
    BY <1>6, <1>7
  <1> QED
    BY <1>6, <1>8
-----------------------------------------------------------------------------
LEMMA Smaller1 ==
  ASSUME NEW S, IsFiniteSet(S), NEW x \in S
  PROVE  /\ IsFiniteSet(S \ {x}) /\ Cardinality(S) \in Nat /\ Cardinality(S \ {x}) \in Nat
         /\ Cardinality(S \ {x}) = Cardinality(S) - 1
  BY FS_RemoveElement, FS_CardinalityType

AddUp(f, it, s) == IF s = {} THEN 0 ELSE LET x == CHOOSE x \in s : TRUE IN f[x] + it[s \ {x}]

AddsUp(f, S, it) == it = [s \in SUBSET S |-> AddUp(f, it, s)]

LEMMA SumIs ==
  ASSUME NEW f, NEW S
  PROVE  SumFunctionOnSet(f, S) = (CHOOSE it : it = [s \in SUBSET S |-> AddUp(f, it, s)])[S]
  BY DEF SumFunctionOnSet, FoldFunctionOnSet, MapThenFoldSet, AddUp

LEMMA Chosen ==
  ASSUME NEW s, s # {}
  PROVE  (CHOOSE x \in s : TRUE) \in s
  OBVIOUS

LEMMA AddUpType ==
  ASSUME NEW S, NEW f, \A x \in S : f[x] \in Nat, NEW it \in [SUBSET S -> Nat], NEW s \in SUBSET S
  PROVE  AddUp(f, it, s) \in Nat
  <1> DEFINE x == CHOOSE x \in s : TRUE
  <1>1. CASE s = {}
    BY <1>1 DEF AddUp
  <1>2. CASE s # {}
    <2>1. x \in s
      BY <1>2, Chosen
    <2> HIDE DEF x
    <2>2. AddUp(f, it, s) = f[x] + it[s \ {x}]
      BY <1>2 DEF AddUp, x
    <2>3. f[x] \in Nat /\ it[s \ {x}] \in Nat
      BY <2>1
    <2> QED
      BY <2>2, <2>3
  <1> QED
    BY <1>1, <1>2

LEMMA AddUpLocal ==
  ASSUME NEW S, IsFiniteSet(S), NEW f, NEW a, NEW b, NEW s \in SUBSET S,
         \A t \in SUBSET S : Cardinality(t) < Cardinality(s) => a[t] = b[t]
  PROVE  AddUp(f, a, s) = AddUp(f, b, s)
  <1> DEFINE x == CHOOSE x \in s : TRUE
  <1>1. CASE s = {}
    BY <1>1 DEF AddUp
  <1>2. CASE s # {}
    <2>1. x \in s
      BY <1>2, Chosen
    <2> HIDE DEF x
    <2>2. AddUp(f, a, s) = f[x] + a[s \ {x}] /\ AddUp(f, b, s) = f[x] + b[s \ {x}]
      BY <1>2 DEF AddUp, x
    <2>3. IsFiniteSet(s)
      BY FS_Subset
    <2>4. Cardinality(s \ {x}) < Cardinality(s)
      BY <2>1, <2>3, Smaller1
    <2>5. a[s \ {x}] = b[s \ {x}]
      BY <2>4
    <2> QED
      BY <2>2, <2>5
  <1> QED
    BY <1>1, <1>2

LEMMA SubsetSizes ==
  ASSUME NEW S, IsFiniteSet(S)
  PROVE  /\ Cardinality(S) \in Nat
         /\ [s \in SUBSET S |-> Cardinality(s)] \in [SUBSET S -> 0..Cardinality(S)]
  <1>1. Cardinality(S) \in Nat
    BY FS_CardinalityType
  <1>2. ASSUME NEW s \in SUBSET S PROVE Cardinality(s) \in 0..Cardinality(S)
    <2>1. IsFiniteSet(s) /\ Cardinality(s) <= Cardinality(S)
      BY FS_Subset
    <2>2. Cardinality(s) \in Nat
      BY <2>1, FS_CardinalityType
    <2> QED
      BY <1>1, <2>1, <2>2
  <1> QED
    BY <1>1, <1>2

LEMMA AddsUpExists ==
  ASSUME NEW S, IsFiniteSet(S), NEW f, \A x \in S : f[x] \in Nat
  PROVE  \E it : it \in [SUBSET S -> Nat] /\ AddsUp(f, S, it)
  <1> DEFINE D == SUBSET S
             W == [D -> Nat]
             h == [a \in W |-> [s \in D |-> AddUp(f, a, s)]]
             m == [s \in D |-> Cardinality(s)]
             N == Cardinality(S)
             z == [s \in D |-> 0]
  <1>1. N \in Nat /\ m \in [D -> 0..N]
    BY SubsetSizes
  <1>2. z \in W
    OBVIOUS
  <1>3. h \in [W -> W]
    <2>1. ASSUME NEW a \in W, NEW s \in D PROVE AddUp(f, a, s) \in Nat
      BY AddUpType
    <2> HIDE DEF D
    <2> QED
      BY <2>1
  <1>4. ASSUME NEW s \in D, NEW a \in W, NEW b \in W, \A t \in D : m[t] < m[s] => a[t] = b[t]
        PROVE  h[a][s] = h[b][s]
    <2>1. \A t \in SUBSET S : Cardinality(t) < Cardinality(s) => a[t] = b[t]
      BY <1>4
    <2>2. AddUp(f, a, s) = AddUp(f, b, s)
      BY <2>1, AddUpLocal
    <2> QED
      BY <2>2
  <1>5. Descends(D, Nat, W, m, h)
    <2> HIDE DEF m, h, D
    <2> QED
      BY <1>4 DEF Descends
  <1>6. PICK it \in W : it = h[it]
    <2> HIDE DEF D, W, m, h, N, z
    <2> QED
      BY <1>1, <1>2, <1>3, <1>5, Recursion
  <1> QED
    BY <1>6 DEF AddsUp

(* Any two ways to add up agree where both do.                              *)
LEMMA AddsUpAgree ==
  ASSUME NEW S, IsFiniteSet(S), NEW T \in SUBSET S, NEW f, NEW a, NEW b,
         AddsUp(f, S, a), AddsUp(f, T, b)
  PROVE  \A s \in SUBSET T : a[s] = b[s]
  <1> DEFINE D == SUBSET T
             m == [s \in D |-> Cardinality(s)]
             A == {s \in D : a[s] = b[s]}
  <1>1. IsFiniteSet(T)
    BY FS_Subset
  <1>2. m \in [D -> Nat]
    <2>1. m \in [D -> 0..Cardinality(T)] /\ Cardinality(T) \in Nat
      BY <1>1, SubsetSizes
    <2> HIDE DEF m, D
    <2> QED
      BY <2>1
  <1>3. ASSUME NEW s \in D, \A t \in D : m[t] < m[s] => t \in A
        PROVE  s \in A
    <2>1. \A t \in SUBSET T : Cardinality(t) < Cardinality(s) => a[t] = b[t]
      BY <1>3
    <2>2. AddUp(f, a, s) = AddUp(f, b, s)
      BY <1>1, <2>1, AddUpLocal
    <2>3. a[s] = AddUp(f, a, s)
      <3>1. s \in SUBSET S
        OBVIOUS
      <3> QED
        BY <3>1 DEF AddsUp
    <2>4. b[s] = AddUp(f, b, s)
      BY DEF AddsUp
    <2> QED
      BY <2>2, <2>3, <2>4
  <1>4. \A s \in D : s \in A
    <2> HIDE DEF D, m, A
    <2> QED
      BY <1>2, <1>3, MeasureInduction
  <1> QED
    BY <1>4
LEMMA RemoveIsLess ==
  ASSUME NEW S, IsFiniteSet(S), NEW x \in S
  PROVE  Cardinality(S \ {x}) < Cardinality(S)
  BY Smaller1

LEMMA SumSolves ==
  ASSUME NEW S, IsFiniteSet(S), NEW f, \A x \in S : f[x] \in Nat, NEW it,
         AddsUp(f, S, it), NEW s \in SUBSET S
  PROVE  SumFunctionOnSet(f, s) = it[s]
  <1> DEFINE j == CHOOSE k : k = [t \in SUBSET s |-> AddUp(f, k, t)]
  <1>1. IsFiniteSet(s) /\ \A x \in s : f[x] \in Nat
    BY FS_Subset
  <1>2. PICK k : k \in [SUBSET s -> Nat] /\ AddsUp(f, s, k)
    BY <1>1, AddsUpExists
  <1>3. AddsUp(f, s, j)
    BY <1>2 DEF AddsUp
  <1>4. SumFunctionOnSet(f, s) = j[s]
    BY SumIs
  <1> HIDE DEF j
  <1>5. it[s] = j[s]
    BY <1>3, AddsUpAgree
  <1> QED
    BY <1>4, <1>5

LEMMA SumType ==
  ASSUME NEW S, IsFiniteSet(S), NEW f, \A x \in S : f[x] \in Nat
  PROVE  SumFunctionOnSet(f, S) \in Nat
  <1>1. PICK k : k \in [SUBSET S -> Nat] /\ AddsUp(f, S, k)
    BY AddsUpExists
  <1>2. SumFunctionOnSet(f, S) = k[S]
    BY <1>1, SumSolves
  <1> QED
    BY <1>1, <1>2

LEMMA SumEmpty ==
  ASSUME NEW f
  PROVE  SumFunctionOnSet(f, {}) = 0
  <1> DEFINE E == {}
  <1>1. IsFiniteSet(E) /\ \A x \in E : f[x] \in Nat
    BY FS_EmptySet
  <1>2. AddUp(f, f, E) = 0
    BY DEF AddUp
  <1> HIDE DEF E
  <1>3. PICK k : k \in [SUBSET E -> Nat] /\ AddsUp(f, E, k)
    BY <1>1, AddsUpExists
  <1>4. SumFunctionOnSet(f, E) = k[E]
    BY <1>1, <1>3, SumSolves
  <1>5. k[E] = AddUp(f, k, E)
    <2>1. E \in SUBSET E
      OBVIOUS
    <2> QED
      BY <1>3, <2>1 DEF AddsUp
  <1> QED
    BY <1>4, <1>5 DEF AddUp, E

LEMMA SumChosen ==
  ASSUME NEW S, IsFiniteSet(S), S # {}, NEW f, \A x \in S : f[x] \in Nat
  PROVE  LET x == CHOOSE x \in S : TRUE IN
         x \in S /\ SumFunctionOnSet(f, S) = f[x] + SumFunctionOnSet(f, S \ {x})
  <1> DEFINE x == CHOOSE x \in S : TRUE
  <1>1. PICK k : k \in [SUBSET S -> Nat] /\ AddsUp(f, S, k)
    BY AddsUpExists
  <1>2. SumFunctionOnSet(f, S) = k[S]
    BY <1>1, SumSolves
  <1>3. x \in S
    BY Chosen
  <1>4. k[S] = f[x] + k[S \ {x}]
    <2>1. S \in SUBSET S
      OBVIOUS
    <2>2. k[S] = AddUp(f, k, S)
      BY <1>1, <2>1 DEF AddsUp
    <2> QED
      BY <2>2 DEF AddUp
  <1> HIDE DEF x
  <1>5. SumFunctionOnSet(f, S \ {x}) = k[S \ {x}]
    <2>1. S \ {x} \in SUBSET S
      OBVIOUS
    <2> QED
      BY <1>1, <2>1, SumSolves
  <1> QED
    BY <1>2, <1>3, <1>4, <1>5 DEF x

(* A sum is any of its terms and the rest.                                  *)
LEMMA SumRemove ==
  ASSUME NEW S, IsFiniteSet(S), NEW f, \A x \in S : f[x] \in Nat, NEW y \in S
  PROVE  SumFunctionOnSet(f, S) = f[y] + SumFunctionOnSet(f, S \ {y})
  <1> DEFINE D == SUBSET S
             m == [s \in D |-> Cardinality(s)]
             sum(s) == SumFunctionOnSet(f, s)
             A == {s \in D : \A v \in s : sum(s) = f[v] + sum(s \ {v})}
  <1>1. m \in [D -> Nat]
    <2>1. m \in [D -> 0..Cardinality(S)] /\ Cardinality(S) \in Nat
      BY SubsetSizes
    <2> HIDE DEF m, D
    <2> QED
      BY <2>1
  <1>2. ASSUME NEW s \in D
        PROVE  IsFiniteSet(s) /\ (\A x \in s : f[x] \in Nat) /\ sum(s) \in Nat
    <2>1. IsFiniteSet(s) /\ \A x \in s : f[x] \in Nat
      BY FS_Subset
    <2> QED
      BY <2>1, SumType
  <1>3. ASSUME NEW s \in D, \A t \in D : m[t] < m[s] => t \in A
        PROVE  s \in A
    <2> SUFFICES ASSUME NEW v \in s PROVE sum(s) = f[v] + sum(s \ {v})
      OBVIOUS
    <2>1. PICK x \in s : sum(s) = f[x] + sum(s \ {x})
      BY <1>2, SumChosen
    <2>2. CASE v = x
      BY <2>1, <2>2
    <2>3. CASE v # x
      <3>1. s \ {x} \in D /\ s \ {v} \in D /\ v \in s \ {x} /\ x \in s \ {v}
        BY <2>3
      <3>2. Cardinality(s \ {x}) < Cardinality(s) /\ Cardinality(s \ {v}) < Cardinality(s)
        <4>1. IsFiniteSet(s)
          BY <1>2
        <4> QED
          BY ONLY <4>1, <3>1, RemoveIsLess
      <3>3. s \ {x} \in A /\ s \ {v} \in A
        <4>1. m[s \ {x}] < m[s] /\ m[s \ {v}] < m[s]
          BY <3>1, <3>2
        <4> HIDE DEF m, A
        <4> QED
          BY <1>3, <3>1, <4>1
      <3>4. sum(s \ {x}) = f[v] + sum((s \ {x}) \ {v}) /\ sum(s \ {v}) = f[x] + sum((s \ {v}) \ {x})
        <4> HIDE DEF sum
        <4> QED
          BY <3>1, <3>3
      <3>5. (s \ {x}) \ {v} = (s \ {v}) \ {x} /\ (s \ {x}) \ {v} \in D
        BY <3>1
      <3>6. sum((s \ {x}) \ {v}) \in Nat /\ f[v] \in Nat /\ f[x] \in Nat
        BY <1>2, <3>5
      <3> HIDE DEF sum
      <3> QED
        BY <2>1, <3>4, <3>5, <3>6
    <2> QED
      BY <2>2, <2>3
  <1>4. \A s \in D : s \in A
    <2> HIDE DEF D, m, A
    <2> QED
      BY <1>1, <1>3, MeasureInduction
  <1> QED
    BY <1>4

(* Sums of functions that agree on a set, or of which one is the larger.    *)
LEMMA SumMonotone ==
  ASSUME NEW S, IsFiniteSet(S), NEW f, NEW g,
         \A x \in S : f[x] \in Nat /\ g[x] \in Nat /\ f[x] <= g[x]
  PROVE  SumFunctionOnSet(f, S) <= SumFunctionOnSet(g, S)
  <1> DEFINE D == SUBSET S
             m == [s \in D |-> Cardinality(s)]
             F(s) == SumFunctionOnSet(f, s)
             G(s) == SumFunctionOnSet(g, s)
             A == {s \in D : F(s) <= G(s)}
  <1>1. m \in [D -> Nat]
    <2>1. m \in [D -> 0..Cardinality(S)] /\ Cardinality(S) \in Nat
      BY SubsetSizes
    <2> HIDE DEF m, D
    <2> QED
      BY <2>1
  <1>2. ASSUME NEW s \in D
        PROVE  /\ IsFiniteSet(s) /\ F(s) \in Nat /\ G(s) \in Nat
               /\ \A x \in s : F(s) = f[x] + F(s \ {x}) /\ G(s) = g[x] + G(s \ {x})
    <2>1. IsFiniteSet(s) /\ (\A x \in s : f[x] \in Nat) /\ (\A x \in s : g[x] \in Nat)
      BY FS_Subset
    <2> QED
      BY <2>1, SumType, SumRemove
  <1>3. ASSUME NEW s \in D, \A t \in D : m[t] < m[s] => t \in A
        PROVE  s \in A
    <2>1. CASE s = {}
      <3>1. F(s) = 0 /\ G(s) = 0
        BY <2>1, SumEmpty
      <3> QED
        BY <3>1
    <2>2. CASE s # {}
      <3>1. PICK x : x \in s
        BY <2>2
      <3>2. s \ {x} \in D /\ Cardinality(s \ {x}) < Cardinality(s)
        <4>1. IsFiniteSet(s)
          BY <1>2
        <4>2. Cardinality(s \ {x}) < Cardinality(s)
          BY ONLY <4>1, <3>1, RemoveIsLess
        <4> QED
          BY <4>2
      <3>3. s \ {x} \in A
        BY <1>3, <3>2
      <3>4. /\ F(s) = f[x] + F(s \ {x}) /\ G(s) = g[x] + G(s \ {x})
            /\ F(s \ {x}) \in Nat /\ G(s \ {x}) \in Nat /\ f[x] \in Nat /\ g[x] \in Nat
            /\ f[x] <= g[x]
        BY <1>2, <3>1, <3>2
      <3>5. F(s \ {x}) <= G(s \ {x})
        BY <3>3
      <3> HIDE DEF F, G
      <3>6. F(s) <= G(s)
        BY <3>4, <3>5
      <3> QED
        BY <3>6
    <2> QED
      BY <2>1, <2>2
  <1>4. \A s \in D : s \in A
    <2> HIDE DEF D, m, A
    <2> QED
      BY <1>1, <1>3, MeasureInduction
  <1> QED
    BY <1>4

LEMMA SumSame ==
  ASSUME NEW S, IsFiniteSet(S), NEW f, NEW g, \A x \in S : f[x] \in Nat /\ f[x] = g[x]
  PROVE  SumFunctionOnSet(f, S) = SumFunctionOnSet(g, S)
  <1> DEFINE F == SumFunctionOnSet(f, S)
             G == SumFunctionOnSet(g, S)
  <1>1. \A x \in S : f[x] \in Nat /\ g[x] \in Nat /\ f[x] <= g[x] /\ g[x] <= f[x]
    OBVIOUS
  <1>2. F <= G /\ G <= F
    BY <1>1, SumMonotone
  <1>3. F \in Nat /\ G \in Nat
    BY <1>1, SumType
  <1> HIDE DEF F, G
  <1>4. F = G
    BY <1>2, <1>3
  <1> QED
    BY <1>4 DEF F, G
(* A sum over a part is no more than the sum over the whole.                *)
LEMMA SumOfPart ==
  ASSUME NEW T, IsFiniteSet(T), NEW S \in SUBSET T, NEW f, \A x \in T : f[x] \in Nat
  PROVE  SumFunctionOnSet(f, S) <= SumFunctionOnSet(f, T)
  <1> DEFINE D == {t \in SUBSET T : S \subseteq t}
             m == [s \in D |-> Cardinality(s)]
             F(s) == SumFunctionOnSet(f, s)
             A == {s \in D : F(S) <= F(s)}
  <1>1. m \in [D -> Nat]
    <2>1. ASSUME NEW s \in D PROVE Cardinality(s) \in Nat
      BY FS_Subset, FS_CardinalityType
    <2> HIDE DEF D
    <2> QED
      BY <2>1
  <1>2. ASSUME NEW s \in D
        PROVE  /\ IsFiniteSet(s) /\ F(s) \in Nat
               /\ \A x \in s : F(s) = f[x] + F(s \ {x}) /\ f[x] \in Nat
    <2>1. IsFiniteSet(s) /\ (\A x \in s : f[x] \in Nat)
      BY FS_Subset
    <2> QED
      BY <2>1, SumType, SumRemove
  <1>3. ASSUME NEW s \in D, \A t \in D : m[t] < m[s] => t \in A
        PROVE  s \in A
    <2>1. CASE s = S
      <3>1. F(S) \in Nat
        BY <1>2, <2>1
      <3> HIDE DEF F
      <3>2. F(S) <= F(s)
        BY <2>1, <3>1
      <3> QED
        BY <3>2
    <2>2. CASE s # S
      <3>1. PICK x \in s : x \notin S
        BY <2>2
      <3>2. s \ {x} \in D
        BY <3>1
      <3>3. Cardinality(s \ {x}) < Cardinality(s)
        <4>1. IsFiniteSet(s)
          BY <1>2
        <4> QED
          BY ONLY <4>1, <3>1, RemoveIsLess
      <3>4. s \ {x} \in A
        BY <1>3, <3>2, <3>3
      <3>5. F(s) = f[x] + F(s \ {x}) /\ F(s \ {x}) \in Nat /\ f[x] \in Nat /\ F(S) \in Nat
        <4>1. S \in D
          OBVIOUS
        <4> QED
          BY <1>2, <3>1, <3>2, <4>1
      <3>6. F(S) <= F(s \ {x})
        BY <3>4
      <3> HIDE DEF F
      <3>7. F(S) <= F(s)
        BY <3>5, <3>6
      <3> QED
        BY <3>7
    <2> QED
      BY <2>1, <2>2
  <1>4. \A s \in D : s \in A
    <2> HIDE DEF D, m, A
    <2> QED
      BY <1>1, <1>3, MeasureInduction
  <1>5. T \in D
    OBVIOUS
  <1> QED
    BY <1>4, <1>5
=============================================================================
