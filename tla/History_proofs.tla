--------------------------- MODULE History_proofs ----------------------------
(* Theorems about History, for any keys, texts, clients, page sizes and moves *)
(* of HEAD: the extended index is the history's, exports fail for cause only, *)
(* and their pages keep the promise of ExportPromise.                         *)
EXTENDS History, FiniteSetTheorems, TLAPS

-----------------------------------------------------------------------------
(* Numbers in order *)

\* How many elements of S are not above k.
Rank(S, k) == Cardinality({j \in S : j <= k})

\* How many members of a set are no greater than a number.
LEMMA RankType ==
    ASSUME NEW S \in SUBSET Nat, IsFiniteSet(S), NEW k
    PROVE  /\ IsFiniteSet({j \in S : j <= k})
           /\ Rank(S, k) \in 0 .. Cardinality(S)
           /\ Cardinality(S) \in Nat
           /\ k \in S => Rank(S, k) > 0
<1> DEFINE L == {j \in S : j <= k}
<1>1. L \in SUBSET S
  OBVIOUS
<1>2. IsFiniteSet(L) /\ Cardinality(L) <= Cardinality(S)
  BY <1>1, FS_Subset
<1>3. Cardinality(L) \in Nat /\ Cardinality(S) \in Nat
  BY <1>2, FS_CardinalityType
<1>4. k \in S => L # {}
  OBVIOUS
<1>5. k \in S => Cardinality(L) # 0
  BY <1>2, <1>4, FS_EmptySet
<1> HIDE DEF L
<1>6. Cardinality(L) \in 0 .. Cardinality(S) /\ (k \in S => Cardinality(L) > 0)
  BY <1>2, <1>3, <1>5
<1> QED BY <1>2, <1>3, <1>6 DEF Rank, L

\* That number grows along the set.
LEMMA RankGrows ==
    ASSUME NEW S \in SUBSET Nat, IsFiniteSet(S), NEW j \in S, NEW k \in S
    PROVE  /\ j < k <=> Rank(S, j) < Rank(S, k)
           /\ j = k <=> Rank(S, j) = Rank(S, k)
<1>1. ASSUME NEW x \in S, NEW y \in S, x < y
      PROVE  Rank(S, x) < Rank(S, y)
  <2> DEFINE X == {i \in S : i <= x}
             Y == {i \in S : i <= y}
  <2>1. IsFiniteSet(Y) /\ Cardinality(Y) \in Nat /\ Cardinality(X) \in Nat
    BY RankType, FS_CardinalityType
  <2>2. X \in SUBSET Y /\ y \in Y /\ y \notin X
    <3>1. x \in Nat /\ y \in Nat /\ \A i \in S : i \in Nat
      OBVIOUS
    <3>2. \A i \in S : i <= x => i <= y
      BY <1>1, <3>1
    <3>3. y <= y /\ ~(y <= x)
      BY <1>1, <3>1
    <3> QED BY <3>2, <3>3
  <2>3. Cardinality(X) <= Cardinality(Y) /\ Cardinality(X) # Cardinality(Y)
    BY <2>1, <2>2, FS_Subset
  <2> HIDE DEF X, Y
  <2>4. Cardinality(X) < Cardinality(Y)
    BY <2>1, <2>3
  <2> QED BY <2>4 DEF X, Y, Rank
<1>2. Rank(S, j) \in Nat /\ Rank(S, k) \in Nat
  <2>1. IsFiniteSet({i \in S : i <= j}) /\ IsFiniteSet({i \in S : i <= k})
    BY RankType
  <2> QED BY <2>1, FS_CardinalityType DEF Rank
<1>3. j < k \/ j = k \/ k < j
  OBVIOUS
<1> DEFINE a == Rank(S, j)
           b == Rank(S, k)
<1>4. (j < k => a < b) /\ (k < j => b < a) /\ (j = k => a = b)
  BY <1>1
<1>5. a \in Nat /\ b \in Nat
  BY <1>2
<1> HIDE DEF a, b
<1>6. (j < k <=> a < b) /\ (j = k <=> a = b)
  BY <1>3, <1>4, <1>5
<1> QED BY <1>6 DEF a, b

\* Every number up to the size is somebody's rank, for the ranks differ.
LEMMA NthLemma ==
    ASSUME NEW S \in SUBSET Nat, IsFiniteSet(S), NEW n \in 1 .. Cardinality(S)
    PROVE  /\ Nth(S, n) \in S
           /\ Rank(S, Nth(S, n)) = n
<1> DEFINE N == Cardinality(S)
           f == [k \in S |-> Rank(S, k)]
<1>1. N \in Nat
  BY FS_CardinalityType
<1>2. \A k \in S : Rank(S, k) \in 1 .. N
  <2> SUFFICES ASSUME NEW k \in S PROVE Rank(S, k) \in 1 .. N
    OBVIOUS
  <2> DEFINE r == Rank(S, k)
  <2>1. r \in 0 .. N /\ r > 0
    BY RankType
  <2> HIDE DEF r, N
  <2>2. r \in 1 .. N
    BY <2>1, <1>1
  <2> QED BY <2>2 DEF r
<1>3. f \in Injection(S, 1 .. N)
  <2>1. \A j, k \in S : Rank(S, j) = Rank(S, k) => j = k
    BY RankGrows
  <2> QED BY <1>2, <2>1 DEF Injection, IsInjective
<1>4. IsFiniteSet(1 .. N) /\ Cardinality(1 .. N) = N
  BY <1>1, FS_Interval
<1>5. f \in Surjection(S, 1 .. N)
  <2> HIDE DEF f
  <2> QED BY <1>3, <1>4, FS_Injection DEF N
<1>6. \E k \in S : Rank(S, k) = n
  BY <1>5 DEF Surjection
<1>7. \E k \in S : Cardinality({j \in S : j <= k}) = n
  BY <1>6 DEF Rank
<1> QED BY <1>7 DEF Nth, Rank

\* What has rank n is the n-th.
LEMMA NthOfRank ==
    ASSUME NEW S \in SUBSET Nat, IsFiniteSet(S), NEW k \in S
    PROVE  Nth(S, Rank(S, k)) = k
<1> DEFINE r == Rank(S, k)
<1>1. r \in 1 .. Cardinality(S)
  <2>1. r \in 0 .. Cardinality(S) /\ r > 0 /\ Cardinality(S) \in Nat
    BY RankType
  <2> HIDE DEF r
  <2> QED BY <2>1
<1>2. Nth(S, r) \in S /\ Rank(S, Nth(S, r)) = r
  <2> HIDE DEF r
  <2> QED BY <1>1, NthLemma
<1> QED BY <1>2, RankGrows

\* The later of two places holds the greater member.
LEMMA NthGrows ==
    ASSUME NEW S \in SUBSET Nat, IsFiniteSet(S), NEW i \in 1 .. Cardinality(S), NEW j \in 1 .. Cardinality(S), i < j
    PROVE  Nth(S, i) < Nth(S, j)
<1> DEFINE a == Nth(S, i)
           b == Nth(S, j)
<1>1. a \in S /\ b \in S /\ Rank(S, a) = i /\ Rank(S, b) = j
  BY NthLemma
<1> HIDE DEF a, b
<1>2. a < b <=> Rank(S, a) < Rank(S, b)
  BY <1>1, RankGrows
<1>3. a < b
  BY <1>1, <1>2
<1> QED BY <1>3 DEF a, b

RisingSeq(s) == \A i, j \in DOMAIN s : i < j => s[i] < s[j]
FallingSeq(s) == \A i, j \in DOMAIN s : i < j => s[i] > s[j]

\* Rising lists a finite set, each member once, the least first.
LEMMA RisingLemma ==
    ASSUME NEW S \in SUBSET Nat, IsFiniteSet(S)
    PROVE  /\ Rising(S) \in Seq(S) /\ Len(Rising(S)) = Cardinality(S)
           /\ RisingSeq(Rising(S))
           /\ \A k \in S : \E n \in 1 .. Cardinality(S) : Rising(S)[n] = k
<1> DEFINE N == Cardinality(S)
<1>1. N \in Nat
  BY FS_CardinalityType
<1>2. \A n \in 1 .. N : Nth(S, n) \in S /\ Rank(S, Nth(S, n)) = n
  BY NthLemma
<1>3. Rising(S) \in [1 .. N -> S]
  BY <1>2 DEF Rising
<1>4. Rising(S) \in Seq(S) /\ Len(Rising(S)) = N
  <2> HIDE DEF N
  <2> QED BY <1>1, <1>3
<1>5. ASSUME NEW i \in 1 .. N, NEW j \in 1 .. N, i < j PROVE Nth(S, i) < Nth(S, j)
  BY <1>5, NthGrows
<1>6. ASSUME NEW k \in S PROVE \E n \in 1 .. N : Rising(S)[n] = k
  <2> DEFINE r == Rank(S, k)
  <2>1. r \in 0 .. N /\ r > 0
    BY RankType
  <2> HIDE DEF r
  <2>2. r \in 1 .. N
    BY <1>1, <2>1
  <2>3. Nth(S, r) = k
    BY NthOfRank DEF r
  <2> QED BY <2>2, <2>3 DEF Rising
<1> QED BY <1>3, <1>4, <1>5, <1>6 DEF RisingSeq, Rising

\* Falling lists a finite set, each member once, the greatest first.
LEMMA FallingLemma ==
    ASSUME NEW S \in SUBSET Nat, IsFiniteSet(S)
    PROVE  /\ Falling(S) \in Seq(S) /\ Len(Falling(S)) = Cardinality(S)
           /\ FallingSeq(Falling(S))
           /\ \A k \in S : \E n \in 1 .. Cardinality(S) : Falling(S)[n] = k
<1> DEFINE N == Cardinality(S)
<1>1. N \in Nat
  BY FS_CardinalityType
<1>0. \A n \in 1 .. N : N + 1 - n \in 1 .. N
  <2> HIDE DEF N
  <2> QED BY <1>1
<1>2. \A n \in 1 .. N : Nth(S, n) \in S /\ Rank(S, Nth(S, n)) = n
  BY NthLemma
<1>3. Falling(S) \in [1 .. N -> S]
  BY <1>0, <1>2 DEF Falling
<1>4. Falling(S) \in Seq(S) /\ Len(Falling(S)) = N
  <2> HIDE DEF N
  <2> QED BY <1>1, <1>3
<1>5. ASSUME NEW i \in 1 .. N, NEW j \in 1 .. N, i < j PROVE Nth(S, i) < Nth(S, j)
  BY <1>5, NthGrows
<1>6. ASSUME NEW k \in S PROVE \E n \in 1 .. N : Falling(S)[n] = k
  <2> DEFINE r == Rank(S, k)
  <2>1. r \in 0 .. N /\ r > 0
    BY RankType
  <2>4. Falling(S) = [n \in 1 .. N |-> Nth(S, N + 1 - n)]
    BY DEF Falling
  <2>3. Nth(S, r) = k
    BY NthOfRank DEF r
  <2> HIDE DEF r, N
  <2>2. N + 1 - r \in 1 .. N /\ N + 1 - (N + 1 - r) = r
    BY <1>1, <2>1
  <2> QED BY <2>2, <2>3, <2>4
<1>7. ASSUME NEW i \in 1 .. N, NEW j \in 1 .. N, i < j
      PROVE  Falling(S)[i] > Falling(S)[j]
  <2>4. Falling(S) = [n \in 1 .. N |-> Nth(S, N + 1 - n)]
    BY DEF Falling
  <2> HIDE DEF N
  <2> DEFINE a == N + 1 - i
             b == N + 1 - j
  <2>1. a \in 1 .. N /\ b \in 1 .. N /\ b < a
    BY <1>1, <1>7
  <2> HIDE DEF a, b
  <2>2. Nth(S, b) < Nth(S, a) /\ Nth(S, a) \in Nat /\ Nth(S, b) \in Nat
    BY <2>1, <1>2, <1>5
  <2> QED BY <2>2, <2>4 DEF a, b
<1> QED BY <1>3, <1>4, <1>6, <1>7 DEF FallingSeq
\* A falling sequence is the falling order of its elements.
LEMMA FallingUnique ==
    ASSUME NEW S \in SUBSET Nat, IsFiniteSet(S), NEW s \in Seq(S), FallingSeq(s),
           \A k \in S : \E n \in DOMAIN s : s[n] = k
    PROVE  s = Falling(S)
<1> DEFINE L == Len(s)
           N == Cardinality(S)
<1>1. L \in Nat /\ N \in Nat /\ DOMAIN s = 1 .. L /\ s \in [1 .. L -> S]
  BY FS_CardinalityType
<1>2. ASSUME NEW i \in 1 .. L PROVE Rank(S, s[i]) = L + 1 - i
  <2> DEFINE T == {j \in S : j <= s[i]}
             f == [n \in i .. L |-> s[n]]
  <2> HIDE DEF L
  <2>1. i \in 1 .. L /\ i \in Int /\ L \in Int /\ i <= L /\ \A n \in i .. L : n \in 1 .. L
    BY <1>1, <1>2
  <2>6. \A n \in 1 .. L : s[n] \in Nat
    BY <1>1
  <2>2. \A n \in i .. L : s[n] \in T
    <3> SUFFICES ASSUME NEW n \in i .. L PROVE s[n] \in S /\ s[n] <= s[i]
      OBVIOUS
    <3>1. n = i \/ i < n
      BY <2>1
    <3>2. i < n => s[i] > s[n]
      BY <1>1, <2>1 DEF FallingSeq
    <3> QED BY <3>1, <3>2, <2>1, <2>6, <1>1
  <2>3. \A m, n \in i .. L : s[m] = s[n] => m = n
    <3> SUFFICES ASSUME NEW m \in i .. L, NEW n \in i .. L, m # n PROVE s[m] # s[n]
      OBVIOUS
    <3>1. m < n \/ n < m
      BY <2>1
    <3>2. (m < n => s[m] > s[n]) /\ (n < m => s[n] > s[m])
      BY <1>1, <2>1 DEF FallingSeq
    <3> QED BY <3>1, <3>2, <2>1, <2>6
  <2>4. \A t \in T : \E n \in i .. L : s[n] = t
    <3> SUFFICES ASSUME NEW t \in T PROVE \E n \in i .. L : s[n] = t
      OBVIOUS
    <3>1. PICK n \in 1 .. L : s[n] = t
      BY <1>1
    <3>2. ~(n < i)
      <4>1. n < i => s[n] > s[i]
        BY <1>1, <1>2 DEF FallingSeq
      <4> QED BY <3>1, <4>1, <2>6, <1>2
    <3> QED BY <3>1, <3>2, <2>1
  <2>5. f \in Bijection(i .. L, T)
    BY <2>2, <2>3, <2>4 DEF Bijection, Injection, Surjection, IsInjective
  <2>7. ExistsBijection(i .. L, T)
    BY <2>5 DEF ExistsBijection
  <2>8. IsFiniteSet(i .. L) /\ Cardinality(i .. L) = L - i + 1
    BY <2>1, FS_Interval
  <2>9. Cardinality(T) = L - i + 1
    BY <2>7, <2>8, FS_Bijection
  <2> QED BY <2>9, <2>1 DEF Rank
<1>3. L = N
  <2>1. CASE L = 0
    <3>1. S = {}
      BY <1>1, <2>1
    <3> QED BY <2>1, <3>1, FS_EmptySet
  <2>2. CASE L # 0
    <3> HIDE DEF L, N
    <3>1. 1 \in 1 .. L
      BY <1>1, <2>2
    <3>2. \A j \in S : j <= s[1]
      <4> SUFFICES ASSUME NEW j \in S PROVE j <= s[1]
        OBVIOUS
      <4>1. PICK n \in 1 .. L : s[n] = j
        BY <1>1
      <4>2. n = 1 \/ 1 < n
        BY <1>1
      <4>3. 1 < n => s[1] > s[n]
        BY <1>1, <3>1 DEF FallingSeq
      <4>4. s[1] \in Nat /\ s[n] \in Nat
        BY <1>1, <3>1
      <4> QED BY <4>1, <4>2, <4>3, <4>4
    <3>3. {j \in S : j <= s[1]} = S
      BY <3>2
    <3>4. Rank(S, s[1]) = N
      BY <3>3 DEF Rank, N
    <3>5. Rank(S, s[1]) = L + 1 - 1
      BY <3>1, <1>2
    <3> QED BY <3>4, <3>5, <1>1
  <2> QED BY <2>1, <2>2
<1>4. ASSUME NEW n \in 1 .. N PROVE s[n] = Nth(S, N + 1 - n)
  <2>1. s[n] \in S /\ Rank(S, s[n]) = N + 1 - n
    BY <1>1, <1>2, <1>3
  <2> QED BY <2>1, NthOfRank
<1>5. s = [n \in 1 .. N |-> s[n]]
  BY <1>1, <1>3
<1> QED BY <1>4, <1>5 DEF Falling

\* What is above the m-th begins with the one after it.
LEMMA RestLemma ==
    ASSUME NEW S \in SUBSET Nat, IsFiniteSet(S), NEW m \in 0 .. Cardinality(S), NEW a \in Nat,
           IF m = 0 THEN \A k \in S : k > a ELSE a = Nth(S, m)
    PROVE  LET T == {k \in S : k > a}
           IN /\ IsFiniteSet(T) /\ Cardinality(T) = Cardinality(S) - m
              /\ \A i \in 1 .. Cardinality(S) - m : Rising(T)[i] = Rising(S)[m + i]
<1> DEFINE T == {k \in S : k > a}
           B == {k \in S : k <= a}
           N == Cardinality(S)
<1>1. N \in Nat /\ m \in Nat /\ m <= N
  BY FS_CardinalityType
<1>2. IsFiniteSet(T) /\ IsFiniteSet(B)
  <2>1. T \in SUBSET S /\ B \in SUBSET S
    OBVIOUS
  <2> QED BY <2>1, FS_Subset
<1>3. Cardinality(B) = m
  <2>1. CASE m = 0
    <3>1. \A k \in S : ~(k <= a)
      BY <2>1
    <3>2. B = {}
      BY <3>1
    <3> QED BY <3>2, <2>1, FS_EmptySet
  <2>2. CASE m # 0
    <3> HIDE DEF N
    <3>1. m \in 1 .. N
      BY <1>1, <2>2
    <3>2. Rank(S, a) = m
      BY <3>1, <2>2, NthLemma DEF N
    <3> QED BY <3>2 DEF Rank
  <2> QED BY <2>1, <2>2
<1>4. Cardinality(T) = N - m
  <2>1. B \union T = S /\ B \intersect T = {}
    <3>1. \A k \in S : (k <= a \/ k > a) /\ ~(k <= a /\ k > a)
      OBVIOUS
    <3> QED BY <3>1
  <2>2. N = Cardinality(B) + Cardinality(T) - Cardinality({})
    BY <2>1, <1>2, FS_Union
  <2>3. Cardinality({}) = 0 /\ Cardinality(T) \in Nat
    BY <1>2, FS_EmptySet, FS_CardinalityType
  <2> DEFINE t == Cardinality(T)
             b == Cardinality(B)
             z == Cardinality({})
  <2>4. N = b + t - z /\ z = 0 /\ t \in Nat /\ b = m
    BY <2>2, <2>3, <1>3
  <2> HIDE DEF t, b, z, N
  <2>5. t = N - m
    BY <2>4, <1>1
  <2> QED BY <2>5 DEF t
<1>5. ASSUME NEW i \in 1 .. N - m PROVE Nth(T, i) = Nth(S, m + i)
  <2> DEFINE x == Nth(S, m + i)
  <2>1. m + i \in 1 .. N /\ i \in Nat /\ i > 0
    <3> HIDE DEF N
    <3> QED BY <1>1, <1>5
  <2>2. x \in S /\ Rank(S, x) = m + i
    BY <2>1, NthLemma
  <2> HIDE DEF x
  <2>3. x > a
    <3>1. CASE m = 0
      BY <3>1, <2>2
    <3>2. CASE m # 0
      <4>1. m \in 1 .. N /\ m < m + i
        <5> HIDE DEF N
        <5> QED BY <1>1, <2>1, <3>2
      <4>2. Nth(S, m) < Nth(S, m + i)
        BY <4>1, <2>1, NthGrows
      <4>3. a < x
        BY <4>2, <3>2 DEF x
      <4> QED BY <4>3, <2>2
    <3> QED BY <3>1, <3>2
  <2> DEFINE X == {j \in T : j <= x}
             Y == {j \in S : j <= x}
  <2>4. B \union X = Y /\ B \intersect X = {}
    <3>1. \A k \in S : (k <= a \/ k > a) /\ ~(k <= a /\ k > a) /\ (k <= a => k <= x)
      <4>1. a \in Nat /\ x \in Nat /\ \A k \in S : k \in Nat
        BY <2>2
      <4> QED BY <4>1, <2>3
    <3> QED BY <3>1
  <2>5. IsFiniteSet(X)
    <3>1. X \in SUBSET T
      OBVIOUS
    <3> QED BY <3>1, <1>2, FS_Subset
  <2>6. Cardinality(Y) = Cardinality(B) + Cardinality(X) - Cardinality({})
    BY <2>4, <2>5, <1>2, FS_Union
  <2>7. Cardinality({}) = 0 /\ Cardinality(X) \in Nat /\ Cardinality(Y) = m + i
    BY <2>2, <2>5, FS_EmptySet, FS_CardinalityType DEF Rank
  <2> DEFINE c == Cardinality(X)
             b == Cardinality(B)
             y == Cardinality(Y)
             z == Cardinality({})
  <2>8. y = b + c - z /\ z = 0 /\ c \in Nat /\ y = m + i /\ b = m
    BY <2>6, <2>7, <1>3
  <2> HIDE DEF c, b, y, z
  <2>9. c = i
    BY <2>8, <2>1, <1>1
  <2>10. x \in T /\ Rank(T, x) = i
    BY <2>9, <2>2, <2>3 DEF Rank, c
  <2>11. T \in SUBSET Nat
    OBVIOUS
  <2>12. Nth(T, Rank(T, x)) = x
    <3> HIDE DEF T
    <3> QED BY <2>10, <2>11, <1>2, NthOfRank
  <2> QED BY <2>10, <2>12 DEF x
<1>6. ASSUME NEW i \in 1 .. N - m PROVE Rising(T)[i] = Rising(S)[m + i]
  <2>1. i \in 1 .. Cardinality(T)
    BY <1>4
  <2>2. m + i \in 1 .. N
    <3> HIDE DEF N
    <3> QED BY <1>1, <1>6
  <2>3. Rising(T)[i] = Nth(T, i) /\ Rising(S)[m + i] = Nth(S, m + i)
    <3> HIDE DEF T
    <3> QED BY <2>1, <2>2 DEF Rising
  <2> QED BY <2>3, <1>5
<1> QED BY <1>2, <1>4, <1>6
-----------------------------------------------------------------------------
(* Lines of commits *)

Commits == [line : SUBSET (0 .. Len(commits)), text : [Keys -> Texts \union {NoText}], flat : SUBSET Keys]

\* A line has a commit and its ancestors, and of each of these the same; the
\* commit that leaves the flat layout changes no text; HEAD has left it.
LineInv ==
    /\ \A c \in DOMAIN commits :
         /\ c \in LineOf(c) /\ LineOf(c) \subseteq 1 .. c
         /\ \A d \in LineOf(c) : LineOf(d) = {a \in LineOf(c) : a <= d}
         /\ FlatIn(Parent(c)) # {} => TextOf(c) = TextOf(Parent(c))
    /\ FlatIn(head) = {}

\* A finite set of numbers has a least and a greatest member.
LEMMA ExtremesLemma ==
    ASSUME NEW S \in SUBSET Nat, IsFiniteSet(S), S # {}
    PROVE  /\ Max(S) \in S /\ \A k \in S : k <= Max(S)
           /\ Min(S) \in S /\ \A k \in S : Min(S) <= k
<1> DEFINE N == Cardinality(S)
<1>1. N \in Nat /\ N # 0
  BY FS_CardinalityType, FS_EmptySet
<1>2. 1 \in 1 .. N /\ N \in 1 .. N /\ \A n \in 1 .. N : 1 <= n /\ n <= N
  <2> HIDE DEF N
  <2> QED BY <1>1
<1> DEFINE lo == Nth(S, 1)
           hi == Nth(S, N)
<1>3. lo \in S /\ hi \in S /\ Rank(S, lo) = 1 /\ Rank(S, hi) = N
  BY <1>2, NthLemma
<1> HIDE DEF lo, hi
<1>4. ASSUME NEW k \in S PROVE lo <= k /\ k <= hi
  <2> DEFINE r == Rank(S, k)
  <2>1. r \in 0 .. N /\ r > 0
    BY RankType
  <2>2. (k < lo <=> r < 1) /\ (hi < k <=> N < r)
    BY <1>3, RankGrows
  <2> HIDE DEF r, N
  <2>3. ~(k < lo) /\ ~(hi < k)
    BY <2>1, <2>2, <1>1
  <2>4. k \in Nat /\ lo \in Nat /\ hi \in Nat
    BY <1>3
  <2> QED BY <2>3, <2>4
<1>5. \A k \in S : k \in Nat
  OBVIOUS
<1>6. \E x \in S : \A y \in S : x >= y
  BY <1>3, <1>4, <1>5
<1>7. \E x \in S : \A y \in S : x =< y
  BY <1>3, <1>4, <1>5
<1>8. Max(S) \in S /\ \A y \in S : Max(S) >= y
  BY <1>6 DEF Max
<1>9. Min(S) \in S /\ \A y \in S : Min(S) =< y
  BY <1>7 DEF Min
<1> DEFINE M == Max(S)
<1> HIDE DEF M
<1>10. M \in S /\ \A y \in S : M >= y
  BY <1>8 DEF M
<1>11. \A y \in S : y <= M
  BY <1>5, <1>10
<1> QED BY <1>9, <1>10, <1>11 DEF M

\* The greatest member is known by being greatest.
LEMMA MaxIs ==
    ASSUME NEW S \in SUBSET Nat, NEW m \in S, \A k \in S : k <= m
    PROVE  Max(S) = m
<1>1. m \in Nat /\ \A k \in S : k \in Nat
  OBVIOUS
<1>2. \E x \in S : \A y \in S : x >= y
  BY <1>1
<1>3. Max(S) \in S /\ \A y \in S : Max(S) >= y
  BY <1>2 DEF Max
<1> DEFINE M == Max(S)
<1> HIDE DEF M
<1>4. M \in S /\ M >= m
  BY <1>3 DEF M
<1>5. M = m
  BY <1>4, <1>1
<1> QED BY <1>5 DEF M

\* The commit before, and its line.
LEMMA ParentLemma ==
    ASSUME LineInv, commits \in Seq(Commits), NEW c \in DOMAIN commits
    PROVE  /\ IsFiniteSet(LineOf(c)) /\ LineOf(c) \in SUBSET Nat /\ c \in Nat \ {0}
           /\ Parent(c) \in 0 .. Len(commits) /\ Parent(c) < c
           /\ LineOf(Parent(c)) = LineOf(c) \ {c}
           /\ \A a \in LineOf(c) : a \in DOMAIN commits /\ (a = c \/ (a <= Parent(c) /\ a < c))
           /\ Parent(c) = 0 <=> LineOf(c) = {c}
<1>1. Len(commits) \in Nat /\ DOMAIN commits = 1 .. Len(commits)
  OBVIOUS
<1>2. c \in 1 .. Len(commits) /\ c \in Nat \ {0}
  BY <1>1
<1>3. c \in LineOf(c) /\ LineOf(c) \subseteq 1 .. c /\ LineOf(c) \in SUBSET Nat
  BY <1>2 DEF LineInv
<1>4. IsFiniteSet(LineOf(c))
  <2>1. IsFiniteSet(1 .. c)
    BY <1>2, FS_Interval
  <2> QED BY <1>3, <2>1, FS_Subset
<1> DEFINE D == LineOf(c) \ {c}
<1>5. \A a \in LineOf(c) : a \in 1 .. Len(commits) /\ a <= c /\ a # 0
  BY <1>2, <1>3
<1>6. CASE LineOf(c) = {c}
  <2>1. Parent(c) = 0
    BY <1>6 DEF Parent
  <2>2. LineOf(0) = {}
    BY DEF LineOf
  <2> QED BY <1>1, <1>2, <1>3, <1>4, <1>6, <2>1, <2>2
<1>7. CASE LineOf(c) # {c}
  <2>1. D # {} /\ D \in SUBSET Nat /\ D \in SUBSET LineOf(c)
    BY <1>3, <1>7
  <2>2. IsFiniteSet(D)
    BY <1>4, <2>1, FS_Subset
  <2>3. Parent(c) = Max(D)
    BY <1>7 DEF Parent
  <2> HIDE DEF D
  <2>4. Parent(c) \in D /\ \A a \in D : a <= Parent(c)
    BY <2>1, <2>2, <2>3, ExtremesLemma
  <2> DEFINE p == Parent(c)
  <2>5. p \in LineOf(c) /\ p # c
    BY <2>4 DEF D
  <2>6. LineOf(p) = {a \in LineOf(c) : a <= p}
    BY <2>5, <1>2, <1>1 DEF LineInv
  <2> HIDE DEF p
  <2>7. p \in 1 .. Len(commits) /\ p < c /\ p # 0
    BY <2>5, <1>5, <1>2
  <2>8. \A a \in LineOf(c) : a = c \/ (a <= p /\ a < c)
    <3> SUFFICES ASSUME NEW a \in LineOf(c), a # c PROVE a <= p /\ a < c
      OBVIOUS
    <3>1. a \in D
      BY DEF D
    <3>2. a <= p
      BY <2>4, <3>1 DEF p
    <3> QED BY <3>2, <1>5, <1>2
  <2>9. LineOf(p) = LineOf(c) \ {c}
    <3>1. ~(c <= p)
      BY <2>7, <1>2
    <3> QED BY <2>6, <2>8, <3>1
  <2>10. Parent(c) \in 0 .. Len(commits) /\ Parent(c) < c /\ Parent(c) # 0
    BY <2>7, <1>1 DEF p
  <2> QED BY <1>1, <1>2, <1>3, <1>4, <1>5, <1>7, <2>8, <2>9, <2>10 DEF p
<1> QED BY <1>6, <1>7

\* Where nothing is changed a text stands.
LEMMA StillText ==
    ASSUME LineInv, commits \in Seq(Commits), NEW c \in DOMAIN commits, NEW a \in LineOf(c) \union {0},
           NEW k, \A d \in LineOf(c) : d > a => TextOf(d)[k] = TextOf(Parent(d))[k]
    PROVE  TextOf(c)[k] = TextOf(a)[k]
<1> DEFINE S == {d \in LineOf(c) : d > a /\ TextOf(d)[k] # TextOf(a)[k]}
<1>1. /\ IsFiniteSet(LineOf(c)) /\ LineOf(c) \in SUBSET Nat /\ c \in Nat \ {0} /\ c \in LineOf(c)
      /\ \A d \in LineOf(c) : d \in DOMAIN commits /\ d <= c
  <2>1. \A d \in LineOf(c) : d = c \/ d < c
    BY ParentLemma
  <2> QED BY <2>1, ParentLemma DEF LineInv
<1> SUFFICES ASSUME TextOf(c)[k] # TextOf(a)[k] PROVE FALSE
  OBVIOUS
<1>2. a \in Nat /\ a < c
  <2>1. a # c
    OBVIOUS
  <2>2. a = 0 \/ (a \in Nat /\ a <= c)
    BY <1>1
  <2> QED BY <1>1, <2>1, <2>2
<1>3. c \in S /\ S \in SUBSET LineOf(c) /\ S \in SUBSET Nat
  BY <1>1, <1>2
<1>4. IsFiniteSet(S)
  BY <1>1, <1>3, FS_Subset
<1> DEFINE d == Min(S)
<1>5. d \in S /\ \A x \in S : d <= x
  <2> HIDE DEF S
  <2> QED BY <1>3, <1>4, ExtremesLemma
<1> HIDE DEF d
<1>6. d \in LineOf(c) /\ d > a /\ TextOf(d)[k] # TextOf(a)[k] /\ d \in DOMAIN commits /\ d \in Nat
  BY <1>5, <1>1
<1> DEFINE p == Parent(d)
<1>7. /\ p \in 0 .. Len(commits) /\ p < d /\ LineOf(p) = LineOf(d) \ {d}
      /\ \A x \in LineOf(d) : x = d \/ x <= p
      /\ p = 0 => LineOf(d) = {d}
  BY <1>6, ParentLemma
<1>8. TextOf(p)[k] # TextOf(a)[k]
  BY <1>6
<1> HIDE DEF p
<1>9. LineOf(d) = {x \in LineOf(c) : x <= d}
  BY <1>6 DEF LineInv
<1>10. a <= p
  <2>1. CASE a = 0
    BY <2>1, <1>7
  <2>2. CASE a # 0
    <3>1. a \in LineOf(c)
      BY <2>2
    <3>2. a \in LineOf(d) /\ a # d
      BY <3>1, <1>9, <1>6, <1>2
    <3> QED BY <3>2, <1>7
  <2> QED BY <2>1, <2>2
<1>11. p # a
  BY <1>8
<1>12. p > a /\ p # 0 /\ p \in Nat
  BY <1>2, <1>7, <1>10, <1>11
<1>13. p \in DOMAIN commits
  BY <1>7, <1>12
<1>14. p \in LineOf(p)
  BY <1>13 DEF LineInv
<1>15. p \in S
  BY <1>7, <1>8, <1>9, <1>12, <1>14
<1>16. d <= p
  BY <1>5, <1>15
<1> QED BY <1>16, <1>7, <1>12, <1>6

-----------------------------------------------------------------------------
(* Orders joined *)

\* One falling order after another, all of it below.
LEMMA FallingJoin ==
    ASSUME NEW A \in SUBSET Nat, NEW B \in SUBSET Nat, IsFiniteSet(A), IsFiniteSet(B),
           \A a \in A, b \in B : b < a
    PROVE  Falling(A) \o Falling(B) = Falling(A \union B)
<1> DEFINE s == Falling(A)
           t == Falling(B)
           m == Cardinality(A)
           n == Cardinality(B)
<1>1. /\ s \in Seq(A) /\ Len(s) = m /\ FallingSeq(s) /\ \A k \in A : \E i \in 1 .. m : s[i] = k
      /\ t \in Seq(B) /\ Len(t) = n /\ FallingSeq(t) /\ \A k \in B : \E i \in 1 .. n : t[i] = k
      /\ m \in Nat /\ n \in Nat
  BY FallingLemma, FS_CardinalityType
<1>2. IsFiniteSet(A \union B) /\ A \union B \in SUBSET Nat
  BY FS_Union
<1> HIDE DEF s, t, m, n
<1>3. s \in Seq(A \union B) /\ t \in Seq(A \union B)
  BY <1>1
<1>4. /\ s \o t \in Seq(A \union B) /\ DOMAIN (s \o t) = 1 .. m + n
      /\ \A i \in 1 .. m : (s \o t)[i] = s[i] /\ s[i] \in A
      /\ \A i \in 1 .. n : (s \o t)[m + i] = t[i] /\ t[i] \in B
  BY <1>1, <1>3
<1>5. \A i \in 1 .. m + n : i \in 1 .. m \/ (i - m \in 1 .. n /\ i = m + (i - m))
  BY <1>1
<1>6. FallingSeq(s \o t)
  <2> SUFFICES ASSUME NEW i \in 1 .. m + n, NEW j \in 1 .. m + n, i < j
               PROVE  (s \o t)[i] > (s \o t)[j]
    BY <1>4 DEF FallingSeq
  <2>1. CASE i \in 1 .. m /\ j \in 1 .. m
    <3>1. (s \o t)[i] = s[i] /\ (s \o t)[j] = s[j]
      BY <2>1, <1>4
    <3>2. s[i] > s[j]
      BY <2>1, <1>1 DEF FallingSeq
    <3> QED BY <3>1, <3>2
  <2>2. CASE i \in 1 .. m /\ j \notin 1 .. m
    <3>1. j - m \in 1 .. n /\ j = m + (j - m)
      BY <1>5, <2>2
    <3>2. (s \o t)[i] \in A /\ (s \o t)[j] \in B
      BY <1>4, <2>2, <3>1
    <3> QED BY <3>2
  <2>3. CASE i \notin 1 .. m
    <3>1. i - m \in 1 .. n /\ i = m + (i - m)
      BY <1>5, <2>3
    <3>2. j \notin 1 .. m
      BY <3>1, <1>1
    <3>3. j - m \in 1 .. n /\ j = m + (j - m) /\ i - m < j - m
      BY <1>5, <3>1, <3>2, <1>1
    <3>4. (s \o t)[i] = t[i - m] /\ (s \o t)[j] = t[j - m]
      BY <1>4, <3>1, <3>3
    <3>5. t[i - m] > t[j - m]
      BY <1>1, <3>1, <3>3 DEF FallingSeq
    <3> QED BY <3>4, <3>5
  <2> QED BY <2>1, <2>2, <2>3
<1>7. \A k \in A \union B : \E i \in DOMAIN (s \o t) : (s \o t)[i] = k
  <2> SUFFICES ASSUME NEW k \in A \union B PROVE \E i \in 1 .. m + n : (s \o t)[i] = k
    BY <1>4
  <2>1. CASE k \in A
    <3>1. PICK i \in 1 .. m : s[i] = k
      BY <2>1, <1>1
    <3>2. i \in 1 .. m + n
      BY <1>1
    <3> QED BY <3>1, <3>2, <1>4
  <2>2. CASE k \in B
    <3>1. PICK i \in 1 .. n : t[i] = k
      BY <2>2, <1>1
    <3>2. m + i \in 1 .. m + n
      BY <1>1
    <3> QED BY <3>1, <3>2, <1>4
  <2> QED BY <2>1, <2>2
<1>8. s \o t = Falling(A \union B)
  BY <1>2, <1>4, <1>6, <1>7, FallingUnique
<1> QED BY <1>8 DEF s, t

\* The places of some of S in its falling order, the first that of the greatest.
LEMMA PlacesLemma ==
    ASSUME NEW S \in SUBSET Nat, IsFiniteSet(S), NEW T \in SUBSET S
    PROVE  LET v == Falling(S)
               P == {i \in DOMAIN v : v[i] \in T}
           IN /\ Cardinality(P) = Cardinality(T) /\ Cardinality(T) \in Nat
              /\ P = {} <=> T = {}
              /\ T # {} => v[Min(P)] = Max(T)
<1> DEFINE v == Falling(S)
           P == {i \in DOMAIN v : v[i] \in T}
           n == Cardinality(S)
<1>1. /\ v \in Seq(S) /\ Len(v) = n /\ FallingSeq(v) /\ \A k \in S : \E i \in 1 .. n : v[i] = k
      /\ n \in Nat
  BY FallingLemma, FS_CardinalityType
<1> HIDE DEF v, n
<1>2. DOMAIN v = 1 .. n /\ \A i \in 1 .. n : v[i] \in S /\ v[i] \in Nat
  <2>1. DOMAIN v = 1 .. n
    BY <1>1
  <2>2. \A i \in 1 .. n : v[i] \in S
    BY <1>1
  <2> QED BY <2>1, <2>2
<1>3. IsFiniteSet(T) /\ T \in SUBSET Nat /\ Cardinality(T) \in Nat
  BY FS_Subset, FS_CardinalityType
<1>4. IsFiniteSet(P) /\ P \in SUBSET Nat
  <2>1. IsFiniteSet(1 .. n)
    BY <1>1, FS_Interval
  <2>2. P \in SUBSET (1 .. n)
    BY <1>2
  <2>3. 1 .. n \in SUBSET Nat
    BY <1>1
  <2> HIDE DEF P
  <2>4. IsFiniteSet(P)
    BY <2>1, <2>2, FS_Subset
  <2> QED BY <2>2, <2>3, <2>4
<1>5. \A i, j \in P : i < j => v[i] > v[j]
  BY <1>1 DEF FallingSeq
<1>6. \A k \in T : \E i \in P : v[i] = k
  BY <1>1, <1>2
<1>7. \A i \in P : v[i] \in T /\ v[i] \in Nat
  BY <1>2
<1> HIDE DEF P
<1>8. Cardinality(P) = Cardinality(T)
  <2> DEFINE f == [i \in P |-> v[i]]
  <2>1. \A i, j \in P : v[i] = v[j] => i = j
    <3> SUFFICES ASSUME NEW i \in P, NEW j \in P, v[i] = v[j] PROVE i = j
      OBVIOUS
    <3>1. i \in Nat /\ j \in Nat
      BY <1>4
    <3>2. ~(i < j) /\ ~(j < i)
      BY <1>5, <1>7
    <3> QED BY <3>1, <3>2
  <2>2. f \in Bijection(P, T)
    BY <1>6, <1>7, <2>1 DEF Bijection, Injection, Surjection, IsInjective
  <2>3. ExistsBijection(P, T)
    BY <2>2 DEF ExistsBijection
  <2> QED BY <2>3, <1>4, FS_Bijection
<1>9. P = {} <=> T = {}
  BY <1>6, <1>7
<1>10. ASSUME T # {} PROVE v[Min(P)] = Max(T)
  <2> DEFINE i == Min(P)
  <2>1. i \in P /\ \A j \in P : i <= j
    BY <1>4, <1>9, <1>10, ExtremesLemma
  <2> HIDE DEF i
  <2>2. \A k \in T : k <= v[i]
    <3> SUFFICES ASSUME NEW k \in T PROVE k <= v[i]
      OBVIOUS
    <3>1. PICK j \in P : v[j] = k
      BY <1>6
    <3>2. i = j \/ i < j
      BY <2>1, <1>4
    <3>3. i < j => v[i] > v[j]
      BY <1>5, <2>1
    <3>4. v[i] \in Nat /\ v[j] \in Nat
      BY <2>1, <1>7
    <3> QED BY <3>1, <3>2, <3>3, <3>4
  <2>3. v[i] \in T
    BY <2>1, <1>7
  <2>4. Max(T) = v[i]
    BY <2>2, <2>3, <1>3, MaxIs
  <2> QED BY <2>4 DEF i
<1> QED BY <1>3, <1>8, <1>9, <1>10 DEF v, P

-----------------------------------------------------------------------------
(* The line of a commit *)

\* What the line of a commit changes of a key, and where that leaves a text.
Changes(h, k) == {c \in LineOf(h) : TextOf(c)[k] # TextOf(Parent(c))[k]}
Writes(h, k) == {c \in Changes(h, k) : TextOf(c)[k] # NoText}

\* The diff with the parent names a key exactly when its text differs.
LEMMA ChangeLemma ==
    ASSUME LineInv, NEW c \in DOMAIN commits, NEW k
    PROVE  /\ Change(c, k) # "none" <=> TextOf(c)[k] # TextOf(Parent(c))[k]
           /\ Change(c, k) # "none" => (Change(c, k) # "deleted" <=> TextOf(c)[k] # NoText)
<1>1. FlatIn(Parent(c)) # {} => TextOf(c) = TextOf(Parent(c))
  BY DEF LineInv
<1>2. k \in FlatIn(Parent(c)) \ FlatIn(c) => TextOf(c)[k] = TextOf(Parent(c))[k]
  BY <1>1
<1> QED BY <1>2 DEF Change

\* A line is finite, and the line of a commit on it is its part up to there.
LEMMA LineLemma ==
    ASSUME LineInv, commits \in Seq(Commits), NEW h \in Ids
    PROVE  /\ IsFiniteSet(LineOf(h)) /\ LineOf(h) \in SUBSET Nat /\ LineOf(h) \in SUBSET DOMAIN commits
           /\ LineOf(h) \in SUBSET Ids
           /\ \A d \in LineOf(h) : d <= h /\ d # 0 /\ LineOf(d) = {a \in LineOf(h) : a <= d}
           /\ h # 0 => h \in LineOf(h) /\ h \in DOMAIN commits
           /\ 0 \notin LineOf(h)
<1>1. Len(commits) \in Nat /\ DOMAIN commits = 1 .. Len(commits)
  OBVIOUS
<1>2. CASE h = 0
  <2>1. LineOf(h) = {}
    BY <1>2 DEF LineOf
  <2> QED BY <2>1, <1>2, FS_EmptySet
<1>3. CASE h # 0
  <2>1. h \in DOMAIN commits /\ h \in Nat
    BY <1>1, <1>3 DEF Ids
  <2>2. /\ h \in LineOf(h) /\ LineOf(h) \subseteq 1 .. h
        /\ \A d \in LineOf(h) : LineOf(d) = {a \in LineOf(h) : a <= d}
    BY <2>1 DEF LineInv
  <2>3. IsFiniteSet(LineOf(h)) /\ LineOf(h) \in SUBSET Nat /\ \A a \in LineOf(h) : a \in DOMAIN commits
    BY <2>1, ParentLemma
  <2>4. \A a \in LineOf(h) : a <= h /\ a # 0
    BY <2>1, <2>2
  <2>5. \A a \in 1 .. Len(commits) : a \in Ids
    BY <1>1 DEF Ids
  <2> QED BY <1>1, <2>1, <2>2, <2>3, <2>4, <2>5
<1> QED BY <1>2, <1>3

\* The commits that change a key are part of the line.
LEMMA ChangesType ==
    ASSUME LineInv, commits \in Seq(Commits), NEW h \in Ids, NEW k
    PROVE  /\ IsFiniteSet(Changes(h, k)) /\ Changes(h, k) \in SUBSET Nat
           /\ IsFiniteSet(Writes(h, k)) /\ Writes(h, k) \in SUBSET Nat
           /\ Writes(h, k) \in SUBSET Changes(h, k) /\ Changes(h, k) \in SUBSET LineOf(h)
<1>1. Writes(h, k) \in SUBSET Changes(h, k) /\ Changes(h, k) \in SUBSET LineOf(h)
  BY DEF Writes, Changes
<1>2. IsFiniteSet(LineOf(h)) /\ LineOf(h) \in SUBSET Nat
  BY LineLemma
<1>3. IsFiniteSet(Changes(h, k))
  BY <1>1, <1>2, FS_Subset
<1> QED BY <1>1, <1>2, <1>3, FS_Subset

\* The changes an ancestor knows are the earlier part of them.
LEMMA PartChanges ==
    ASSUME LineInv, commits \in Seq(Commits), NEW h \in Ids, NEW d \in LineOf(h), NEW k
    PROVE  /\ Changes(d, k) = {c \in Changes(h, k) : c <= d}
           /\ Changes(d, k) = {c \in Changes(h, k) : c \in LineOf(d)}
<1>1. LineOf(d) = {a \in LineOf(h) : a <= d}
  BY LineLemma
<1> QED BY <1>1 DEF Changes

\* A key has the text its newest change gave it, and none without one.
LEMMA NewestChange ==
    ASSUME LineInv, commits \in Seq(Commits), NEW h \in Ids, NEW k \in Keys
    PROVE  /\ Changes(h, k) = {} => TextOf(h)[k] = NoText
           /\ Changes(h, k) # {} => /\ TextOf(h)[k] = TextOf(Max(Changes(h, k)))[k]
                                    /\ Max(Changes(h, k)) \in Changes(h, k)
                                    /\ \A c \in Changes(h, k) : c <= Max(Changes(h, k))
<1> DEFINE C == Changes(h, k)
<1>1. IsFiniteSet(C) /\ C \in SUBSET Nat /\ C \in SUBSET LineOf(h)
  BY ChangesType
<1>2. TextOf(0)[k] = NoText
  BY DEF TextOf, Gone
<1>3. \A d \in LineOf(h) : d \notin C => TextOf(d)[k] = TextOf(Parent(d))[k]
  BY DEF Changes
<1> HIDE DEF C
<1>4. ASSUME C = {} PROVE TextOf(h)[k] = NoText
  <2>1. CASE h = 0
    BY <2>1, <1>2
  <2>2. CASE h # 0
    <3>1. h \in DOMAIN commits
      BY <2>2, LineLemma
    <3>2. TextOf(h)[k] = TextOf(0)[k]
      <4>1. 0 \in LineOf(h) \union {0}
        OBVIOUS
      <4>2. \A d \in LineOf(h) : d > 0 => TextOf(d)[k] = TextOf(Parent(d))[k]
        BY <1>3, <1>4
      <4> QED BY <3>1, <4>1, <4>2, StillText
    <3> QED BY <3>2, <1>2
  <2> QED BY <2>1, <2>2
<1>5. ASSUME C # {}
      PROVE  TextOf(h)[k] = TextOf(Max(C))[k] /\ Max(C) \in C /\ \A c \in C : c <= Max(C)
  <2> DEFINE m == Max(C)
  <2>1. m \in C /\ \A c \in C : c <= m
    BY <1>1, <1>5, ExtremesLemma
  <2> HIDE DEF m
  <2>2. m \in LineOf(h) \union {0} /\ m \in Nat
    BY <2>1, <1>1
  <2>3. h # 0
    <3>1. h = 0 => LineOf(h) = {}
      BY DEF LineOf
    <3> QED BY <3>1, <2>1, <1>1
  <2>4. h \in DOMAIN commits
    BY <2>3, LineLemma
  <2>5. \A d \in LineOf(h) : d > m => TextOf(d)[k] = TextOf(Parent(d))[k]
    <3> SUFFICES ASSUME NEW d \in LineOf(h), d > m PROVE d \notin C
      BY <1>3
    <3>1. d \in C => d <= m
      BY <2>1
    <3>2. d \in Nat
      BY LineLemma
    <3> QED BY <3>1, <3>2, <2>2
  <2>6. TextOf(h)[k] = TextOf(m)[k]
    BY <2>2, <2>4, <2>5, StillText
  <2> QED BY <2>1, <2>6 DEF m
<1> QED BY <1>4, <1>5 DEF C

\* Whatever was changed was written; a key removed last had that text before.
LEMMA NewestWrite ==
    ASSUME LineInv, commits \in Seq(Commits), NEW h \in Ids, NEW k \in Keys
    PROVE  /\ TextOf(h)[k] # NoText => Changes(h, k) # {}
           /\ Changes(h, k) # {} => /\ Writes(h, k) # {}
                                    /\ Max(Writes(h, k)) \in Writes(h, k)
           /\ TextOf(h)[k] # NoText => TextOf(h)[k] = TextOf(Max(Writes(h, k)))[k]
           /\ TextOf(h)[k] = NoText /\ Changes(h, k) # {} =>
                /\ TextOf(Max(Changes(h, k)))[k] = NoText
                /\ TextOf(Parent(Max(Changes(h, k))))[k] = TextOf(Max(Writes(h, k)))[k]
<1>1. ASSUME NEW g \in Ids, TextOf(g)[k] # NoText
      PROVE  /\ Changes(g, k) # {} /\ Writes(g, k) # {}
             /\ Max(Writes(g, k)) = Max(Changes(g, k)) /\ Max(Writes(g, k)) \in Writes(g, k)
             /\ TextOf(g)[k] = TextOf(Max(Writes(g, k)))[k]
  <2> DEFINE m == Max(Changes(g, k))
  <2>1. Changes(g, k) # {}
    BY <1>1, NewestChange
  <2>2. m \in Changes(g, k) /\ TextOf(g)[k] = TextOf(m)[k] /\ \A c \in Changes(g, k) : c <= m
    BY <2>1, NewestChange
  <2> HIDE DEF m
  <2>3. m \in Writes(g, k)
    BY <2>2, <1>1 DEF Writes
  <2>4. Writes(g, k) \in SUBSET Nat /\ \A c \in Writes(g, k) : c <= m
    BY <2>2, ChangesType
  <2>5. Max(Writes(g, k)) = m
    BY <2>3, <2>4, MaxIs
  <2> QED BY <2>1, <2>2, <2>3, <2>5 DEF m
<1>2. ASSUME TextOf(h)[k] = NoText, Changes(h, k) # {}
      PROVE  /\ Writes(h, k) # {} /\ Max(Writes(h, k)) \in Writes(h, k)
             /\ TextOf(Max(Changes(h, k)))[k] = NoText
             /\ TextOf(Parent(Max(Changes(h, k))))[k] = TextOf(Max(Writes(h, k)))[k]
  <2> DEFINE m == Max(Changes(h, k))
             p == Parent(m)
  <2>1. m \in Changes(h, k) /\ TextOf(m)[k] = NoText /\ \A c \in Changes(h, k) : c <= m
    BY <1>2, NewestChange
  <2> HIDE DEF m
  <2>2. TextOf(p)[k] # NoText /\ m \in LineOf(h) /\ m \in DOMAIN commits
    BY <2>1, ChangesType, LineLemma DEF Changes
  <2>3. p \in Ids /\ LineOf(p) = LineOf(m) \ {m}
    BY <2>2, ParentLemma DEF Ids
  <2> HIDE DEF p
  <2>4. LineOf(m) = {a \in LineOf(h) : a <= m}
    BY <2>2, LineLemma
  <2>5. Changes(p, k) = Changes(h, k) \ {m}
    BY <2>1, <2>3, <2>4 DEF Changes
  <2>6. Writes(p, k) = Writes(h, k)
    BY <2>1, <2>5 DEF Writes
  <2>7. Writes(p, k) # {} /\ Max(Writes(p, k)) \in Writes(p, k) /\ TextOf(p)[k] = TextOf(Max(Writes(p, k)))[k]
    BY <1>1, <2>2, <2>3
  <2> QED BY <2>1, <2>6, <2>7 DEF m, p
<1> QED BY <1>1, <1>2

-----------------------------------------------------------------------------
(* The index is a walk *)

\* What a walk from nothing gives.
Walked(h) == [head |-> h, versions |-> [k \in Keys |-> Falling(Changes(h, k))]]

\* Diffing the commits of a part of a line finds that part of its changes.
LEMMA FreshChanges ==
    ASSUME LineInv, commits \in Seq(Commits), NEW h \in Ids, NEW k, NEW F \in SUBSET LineOf(h)
    PROVE  {c \in F : Change(c, k) # "none"} = {c \in Changes(h, k) : c \in F}
<1>1. \A c \in LineOf(h) : c \in DOMAIN commits
  BY LineLemma
<1>2. \A c \in LineOf(h) : Change(c, k) # "none" <=> TextOf(c)[k] # TextOf(Parent(c))[k]
  BY <1>1, ChangeLemma
<1> QED BY <1>2 DEF Changes

\* Built from no index, the index is the walk.
LEMMA WalkedLemma ==
    ASSUME LineInv, commits \in Seq(Commits), NEW h \in Ids
    PROVE  Extended(NoIndex, h) = Walked(h)
<1>1. Base(NoIndex, h) = 0 /\ LineOf(0) = {}
  BY DEF Base, NoIndex, LineOf
<1>2. LineOf(h) \ LineOf(Base(NoIndex, h)) = LineOf(h)
  BY <1>1
<1>3. ASSUME NEW k \in Keys
      PROVE  Falling({c \in LineOf(h) : Change(c, k) # "none"}) \o <<>> = Falling(Changes(h, k))
  <2>1. {c \in LineOf(h) : Change(c, k) # "none"} = {c \in Changes(h, k) : c \in LineOf(h)}
    BY FreshChanges
  <2>2. {c \in LineOf(h) : Change(c, k) # "none"} = Changes(h, k)
    BY <2>1 DEF Changes
  <2>3. Falling(Changes(h, k)) \in Seq(Changes(h, k))
    BY ChangesType, FallingLemma
  <2> DEFINE s == Falling(Changes(h, k))
             C == Changes(h, k)
  <2>4. s \in Seq(C)
    BY <2>3
  <2> HIDE DEF s, C
  <2>5. s \o <<>> = s
    BY <2>4
  <2> QED BY <2>2, <2>5 DEF s
<1> QED BY <1>1, <1>2, <1>3 DEF Extended, Walked

\* The walk from an ancestor, put before what was known there, is the walk
\* from nothing; and so is the walk that discards what was known elsewhere.
LEMMA ExtendedLemma ==
    ASSUME LineInv, commits \in Seq(Commits), NEW h \in Ids,
           NEW prev, prev.head \in Ids, prev = Walked(prev.head)
    PROVE  Extended(prev, h) = Walked(h)
<1> DEFINE b == Base(prev, h)
<1>1. CASE prev.head \notin LineOf(h)
  <2>1. b = 0 /\ Base(NoIndex, h) = 0
    BY <1>1 DEF Base, NoIndex
  <2>2. Extended(prev, h) = Extended(NoIndex, h)
    BY <2>1 DEF Extended
  <2> QED BY <2>2, WalkedLemma
<1>2. CASE prev.head \in LineOf(h)
  <2>1. b = prev.head /\ b \in LineOf(h)
    BY <1>2 DEF Base
  <2> HIDE DEF b
  <2>2. b # 0 /\ b \in Nat /\ LineOf(b) = {a \in LineOf(h) : a <= b} /\ LineOf(h) \in SUBSET Nat
    BY <2>1, LineLemma
  <2> DEFINE F == LineOf(h) \ LineOf(b)
  <2>3. ASSUME NEW k \in Keys
        PROVE  Falling({c \in F : Change(c, k) # "none"}) \o prev.versions[k] = Falling(Changes(h, k))
    <3> DEFINE A == {c \in F : Change(c, k) # "none"}
               B == Changes(b, k)
               C == Changes(h, k)
    <3>1. A = {c \in C : c \in F}
      <4>1. F \in SUBSET LineOf(h)
        OBVIOUS
      <4> HIDE DEF F
      <4> QED BY <4>1, FreshChanges
    <3>2. B = {c \in C : c <= b}
      BY <2>1, PartChanges
    <3>3. IsFiniteSet(C) /\ C \in SUBSET Nat /\ C \in SUBSET LineOf(h)
      BY ChangesType
    <3>4. \A c \in C : c \in F <=> ~(c <= b)
      BY <3>3, <2>2
    <3> HIDE DEF A, B, C, F
    <3>5. A \in SUBSET C /\ B \in SUBSET C /\ C = A \union B /\ \A a \in A, d \in B : d < a
      <4>1. \A c \in C : c \in A <=> ~(c <= b)
        BY <3>1, <3>4
      <4>2. \A c \in C : c \in B <=> c <= b
        BY <3>2
      <4>3. A \in SUBSET C /\ B \in SUBSET C
        BY <3>1, <3>2
      <4>4. \A a \in A, d \in B : d < a
        <5> SUFFICES ASSUME NEW a \in A, NEW d \in B PROVE d < a
          OBVIOUS
        <5>1. a \in Nat /\ d \in Nat /\ d <= b /\ ~(a <= b)
          BY <4>1, <4>2, <4>3, <3>3
        <5> QED BY <5>1, <2>2
      <4> QED BY <4>1, <4>2, <4>3, <4>4
    <3>6. IsFiniteSet(A) /\ IsFiniteSet(B) /\ A \in SUBSET Nat /\ B \in SUBSET Nat
      BY <3>3, <3>5, FS_Subset
    <3>7. Falling(A) \o Falling(B) = Falling(A \union B)
      BY <3>5, <3>6, FallingJoin
    <3>8. prev.versions[k] = Falling(B)
      BY <2>1 DEF Walked, B
    <3>9. Falling(A) \o prev.versions[k] = Falling(C)
      BY <3>5, <3>7, <3>8
    <3> QED BY <3>9 DEF A, C
  <2>4. Extended(prev, h) = [head |-> h, versions |-> [k \in Keys |->
            Falling({c \in F : Change(c, k) # "none"}) \o prev.versions[k]]]
    BY <2>2 DEF Extended, b
  <2> HIDE DEF F
  <2> QED BY <2>3, <2>4 DEF Walked
<1> QED BY <1>1, <1>2

\* A walk is an index.
LEMMA WalkedType ==
    ASSUME LineInv, commits \in Seq(Commits), NEW h \in Ids
    PROVE  Walked(h) \in Indexes
<1>1. ASSUME NEW k \in Keys PROVE Falling(Changes(h, k)) \in Seq(Ids)
  <2>1. Falling(Changes(h, k)) \in Seq(Changes(h, k))
    BY ChangesType, FallingLemma
  <2>2. Changes(h, k) \in SUBSET Ids
    BY ChangesType, LineLemma
  <2> QED BY <2>1, <2>2
<1> QED BY <1>1 DEF Walked, Indexes

\* What of a walked index a snapshot on its line knows.
LEMMA SeenLemma ==
    ASSUME LineInv, commits \in Seq(Commits), NEW k \in Keys,
           NEW q, q.index.head \in Ids, q.index = Walked(q.index.head), q.at \in LineOf(q.index.head)
    PROVE  /\ Cardinality(Seen(q, k)) = Cardinality(Changes(q.at, k))
           /\ Cardinality(Seen(q, k)) \in Nat
           /\ Seen(q, k) = {} <=> Changes(q.at, k) = {}
           /\ Changes(q.at, k) # {} => First(q, k, Seen(q, k)) = Max(Changes(q.at, k))
           /\ Written(q, k) = {} <=> Writes(q.at, k) = {}
           /\ Writes(q.at, k) # {} => First(q, k, Written(q, k)) = Max(Writes(q.at, k))
<1> DEFINE h == q.index.head
           S == Changes(h, k)
           C == Changes(q.at, k)
           W == Writes(q.at, k)
           v == Falling(S)
<1>1. q.index.versions[k] = v
  BY DEF Walked
<1>2. IsFiniteSet(S) /\ S \in SUBSET Nat /\ S \in SUBSET LineOf(h)
  BY ChangesType
<1>3. q.at \in Ids /\ C = {c \in S : c \in LineOf(q.at)}
  BY LineLemma, PartChanges
<1>4. C \in SUBSET S /\ W \in SUBSET C /\ W = {c \in C : TextOf(c)[k] # NoText}
  BY <1>3 DEF Writes
<1>5. \A c \in C : Change(c, k) # "none" /\ (Change(c, k) # "deleted" <=> TextOf(c)[k] # NoText)
  <2> SUFFICES ASSUME NEW c \in C
               PROVE Change(c, k) # "none" /\ (Change(c, k) # "deleted" <=> TextOf(c)[k] # NoText)
    OBVIOUS
  <2>1. c \in DOMAIN commits
    BY <1>2, <1>3, LineLemma
  <2>2. TextOf(c)[k] # TextOf(Parent(c))[k]
    BY DEF Changes
  <2> QED BY <2>1, <2>2, ChangeLemma
<1>6. \A i \in DOMAIN v : v[i] \in S
  <2>1. v \in Seq(S)
    BY <1>2, FallingLemma
  <2> HIDE DEF v, S
  <2> QED BY <2>1
<1> HIDE DEF h, S, C, W, v
<1>7. Seen(q, k) = {i \in DOMAIN v : v[i] \in C}
  BY <1>1, <1>3, <1>6 DEF Seen
<1>8. Written(q, k) = {i \in DOMAIN v : v[i] \in W}
  BY <1>1, <1>4, <1>5, <1>7 DEF Written
<1>9. /\ Cardinality(Seen(q, k)) = Cardinality(C) /\ Cardinality(C) \in Nat
      /\ Seen(q, k) = {} <=> C = {}
      /\ C # {} => v[Min(Seen(q, k))] = Max(C)
  BY <1>2, <1>4, <1>7, PlacesLemma, ZenonT(60) DEF v
<1>10. /\ Written(q, k) = {} <=> W = {}
       /\ W # {} => v[Min(Written(q, k))] = Max(W)
  <2>1. W \in SUBSET S
    BY <1>4
  <2> QED BY <2>1, <1>2, <1>8, PlacesLemma, ZenonT(60) DEF v
<1> QED BY <1>1, <1>9, <1>10 DEF First, C, W

-----------------------------------------------------------------------------
(* The rows are what is promised *)

\* The promise speaks of maxima, sizes and orders in words of its own.
LEMMA SameWords ==
    ASSUME NEW S
    PROVE  /\ Promise!Max(S) = Max(S)
           /\ Promise!Cardinality(S) = Cardinality(S)
           /\ Promise!Rising(S) = Rising(S)
<1>1. Promise!Max(S) = Max(S)
  BY DEF Promise!Max, Max
<1>2. ASSUME NEW T PROVE Promise!Cardinality(T) = Cardinality(T)
  BY DEF Promise!Cardinality, Cardinality
<1>3. ASSUME NEW n PROVE Promise!Nth(S, n) = Nth(S, n)
  BY <1>2 DEF Promise!Nth, Nth
<1> QED BY <1>1, <1>2, <1>3 DEF Promise!Rising, Rising

\* The promise reads the same changes off the trees.
LEMMA PromisedChanges ==
    ASSUME LineInv, commits \in Seq(Commits), NEW c \in DOMAIN commits, NEW k \in Keys
    PROVE  /\ Promise!ChangedAt(c, k) = Changes(c, k)
           /\ Promise!WrittenAt(c, k) = Max(Writes(c, k))
<1>0. DOMAIN commits = 1 .. Len(commits) /\ c # 0 /\ c \in Ids
  BY DEF Ids
<1>1. commits[c].line = LineOf(c)
  BY <1>0 DEF LineOf
<1>2. ASSUME NEW d \in LineOf(c)
      PROVE  Promise!Before(c, d, k) = TextOf(Parent(d))[k] /\ commits[d].text = TextOf(d)
  <2> DEFINE earlier == {a \in LineOf(c) : a < d}
  <2>1. d \in DOMAIN commits /\ d # 0 /\ d \in Nat /\ LineOf(d) = {a \in LineOf(c) : a <= d} /\ LineOf(c) \in SUBSET Nat
    BY <1>0, LineLemma
  <2>2. earlier = LineOf(d) \ {d}
    BY <2>1
  <2>3. /\ Parent(d) = 0 <=> LineOf(d) = {d}
        /\ Parent(d) \in 0 .. Len(commits) /\ d \in LineOf(d)
    BY <2>1, ParentLemma DEF LineInv
  <2>4. earlier = {} <=> Parent(d) = 0
    BY <2>2, <2>3
  <2>5. earlier # {} => Parent(d) = Max(earlier)
    BY <2>2, <2>3 DEF Parent
  <2>6. Promise!Before(c, d, k) = IF earlier = {} THEN NoText ELSE commits[Max(earlier)].text[k]
    BY <1>1, SameWords DEF Promise!Before
  <2> HIDE DEF earlier
  <2> QED BY <2>1, <2>4, <2>5, <2>6 DEF TextOf, Gone
<1>3. Promise!ChangedAt(c, k) = {d \in LineOf(c) : commits[d].text[k] # Promise!Before(c, d, k)}
  BY <1>1 DEF Promise!ChangedAt
<1>4. Promise!ChangedAt(c, k) = Changes(c, k)
  BY <1>2, <1>3 DEF Changes
<1>5. \A d \in Changes(c, k) : commits[d].text = TextOf(d)
  BY <1>2 DEF Changes
<1>6. {d \in Promise!ChangedAt(c, k) : commits[d].text[k] # NoText} = Writes(c, k)
  BY <1>4, <1>5 DEF Writes
<1> QED BY <1>4, <1>6, SameWords DEF Promise!WrittenAt

\* The row of a key that was never there does not matter, but its contradiction does.
LEMMA RowLemma ==
    ASSUME HistoryAssumption, LineInv, commits \in Seq(Commits), NEW k \in Keys,
           NEW q, q.index.head \in Ids, q.index = Walked(q.index.head), q.at \in LineOf(q.index.head)
    PROVE  /\ ~Contradicted(q, k)
           /\ (k \in LiveIn(q.at) \/ Seen(q, k) # {}) <=> k \in Promise!Existed(q.at)
           /\ k \in Promise!Existed(q.at) =>
                /\ Row(q, k) = Promise!Row(q.at, k)
                /\ Row(q, k) \in [key : Keys, state : {"active", "archived", "retracted"},
                                  text : Texts, version : Ids, versions : Nat]
<1> DEFINE c == q.at
           C == Changes(c, k)
           W == Writes(c, k)
<1>1. c \in DOMAIN commits /\ c \in Ids /\ c # 0
  BY LineLemma
<1>2. commits[c].text = TextOf(c)
  BY <1>1 DEF TextOf
<1>3. k \in LiveIn(c) <=> TextOf(c)[k] # NoText
  BY DEF LiveIn
<1>5. k \in Promise!Existed(c) <=> C # {}
  BY <1>1, PromisedChanges DEF Promise!Existed
<1>6. /\ Cardinality(Seen(q, k)) = Cardinality(C) /\ Cardinality(Seen(q, k)) \in Nat
      /\ Seen(q, k) = {} <=> C = {}
      /\ C # {} => First(q, k, Seen(q, k)) = Max(C)
      /\ Written(q, k) = {} <=> W = {}
      /\ W # {} => First(q, k, Written(q, k)) = Max(W)
  BY SeenLemma
<1>7. /\ TextOf(c)[k] # NoText => C # {}
      /\ C # {} => W # {} /\ Max(W) \in W
      /\ TextOf(c)[k] # NoText => TextOf(c)[k] = TextOf(Max(W))[k]
      /\ TextOf(c)[k] = NoText /\ C # {} => TextOf(Max(C))[k] = NoText /\ TextOf(Parent(Max(C)))[k] = TextOf(Max(W))[k]
  BY <1>1, NewestWrite
<1>8. C # {} => Max(C) \in C /\ Max(C) \in DOMAIN commits
  <2>1. C # {} => Max(C) \in C
    BY <1>1, NewestChange
  <2>2. C \in SUBSET DOMAIN commits
    BY <1>1, ChangesType, LineLemma
  <2> QED BY <2>1, <2>2
<1>9. C # {} /\ TextOf(c)[k] = NoText => Change(Max(C), k) = "deleted"
  <2> SUFFICES ASSUME C # {}, TextOf(c)[k] = NoText PROVE Change(Max(C), k) = "deleted"
    OBVIOUS
  <2>1. Max(C) \in C /\ Max(C) \in DOMAIN commits /\ TextOf(Max(C))[k] = NoText
    BY <1>7, <1>8
  <2>2. TextOf(Max(C))[k] # TextOf(Parent(Max(C)))[k]
    BY <2>1 DEF Changes
  <2> QED BY <2>1, <2>2, ChangeLemma
<1>10. ~Contradicted(q, k)
  BY <1>3, <1>6, <1>7, <1>9 DEF Contradicted
<1>11. ASSUME C # {}
       PROVE  /\ Row(q, k) = Promise!Row(c, k)
              /\ Row(q, k) \in [key : Keys, state : {"active", "archived", "retracted"},
                                text : Texts, version : Ids, versions : Nat]
  <2> DEFINE w == Max(W)
             m == Max(C)
  <2>1. w \in W /\ w \in DOMAIN commits /\ w \in Ids /\ w # 0
    <3>1. w \in W
      BY <1>7, <1>11
    <3>2. W \in SUBSET DOMAIN commits /\ W \in SUBSET Ids /\ W \in SUBSET LineOf(c)
      BY <1>1, ChangesType, LineLemma
    <3>3. 0 \notin LineOf(c)
      BY <1>1, LineLemma
    <3> QED BY <3>1, <3>2, <3>3
  <2>2. TextOf(w)[k] # NoText
    BY <2>1 DEF Writes
  <2>3. commits[w].text = TextOf(w) /\ TextOf(w)[k] \in Texts
    <3>1. commits[w].text = TextOf(w)
      BY <2>1 DEF TextOf
    <3>2. commits[w] \in Commits
      BY <2>1
    <3>3. commits[w].text[k] \in Texts \union {NoText}
      BY <3>2 DEF Commits
    <3> QED BY <3>1, <3>3, <2>2
  <2>4. First(q, k, Written(q, k)) = w /\ First(q, k, Seen(q, k)) = m
    BY <1>6, <1>7, <1>11
  <2>5. Promise!WrittenAt(c, k) = w /\ Promise!ChangedAt(c, k) = C
    BY <1>1, PromisedChanges
  <2>6. (IF k \in LiveIn(c) THEN c ELSE Parent(m)) = (IF TextOf(c)[k] # NoText THEN c ELSE Parent(m))
    BY <1>3
  <2>7. TextOf(IF TextOf(c)[k] # NoText THEN c ELSE Parent(m))[k] = TextOf(w)[k]
    BY <1>7, <1>11
  <2> HIDE DEF w, m, C, W
  <2>8. Row(q, k) = [key |-> k,
                     state |-> IF TextOf(c)[k] # NoText THEN "active"
                               ELSE IF k \in Knowledge THEN "retracted" ELSE "archived",
                     text |-> TextOf(w)[k], version |-> w, versions |-> Cardinality(C)]
    BY <1>3, <1>6, <2>4, <2>6, <2>7 DEF Row
  <2>9. Promise!Row(c, k) = [key |-> k,
                     state |-> IF TextOf(c)[k] # NoText THEN "active"
                               ELSE IF k \in Knowledge THEN "retracted" ELSE "archived",
                     text |-> TextOf(w)[k], version |-> w, versions |-> Cardinality(C)]
    BY <1>2, <2>3, <2>5, SameWords DEF Promise!Row
  <2>10. Row(q, k) = Promise!Row(c, k)
    BY <2>8, <2>9
  <2>11. (IF TextOf(c)[k] # NoText THEN "active" ELSE IF k \in Knowledge THEN "retracted" ELSE "archived")
           \in {"active", "archived", "retracted"}
    OBVIOUS
  <2>12. Cardinality(C) \in Nat
    BY <1>6
  <2> QED BY <2>1, <2>3, <2>8, <2>10, <2>11, <2>12
<1>12. (k \in LiveIn(c) \/ Seen(q, k) # {}) <=> C # {}
  BY <1>3, <1>6, <1>7
<1> QED BY <1>5, <1>10, <1>11, <1>12

\* The promised listing has one row for every key that ever existed.
LEMMA ListingLemma ==
    ASSUME HistoryAssumption, NEW c
    PROVE  /\ IsFiniteSet(Promise!Existed(c)) /\ Promise!Existed(c) \in SUBSET Nat
           /\ Promise!Existed(c) \in SUBSET Keys
           /\ Cardinality(Promise!Existed(c)) \in Nat
           /\ Promise!Listing(c) = [i \in 1 .. Cardinality(Promise!Existed(c)) |->
                                      Promise!Row(c, Rising(Promise!Existed(c))[i])]
           /\ Len(Promise!Listing(c)) = Cardinality(Promise!Existed(c))
           /\ DOMAIN Promise!Listing(c) = 1 .. Cardinality(Promise!Existed(c))
<1> DEFINE E == Promise!Existed(c)
<1>1. E \in SUBSET Keys /\ E \in SUBSET Nat
  BY DEF Promise!Existed, HistoryAssumption
<1>2. IsFiniteSet(E) /\ Cardinality(E) \in Nat
  BY <1>1, FS_Subset, FS_CardinalityType DEF HistoryAssumption
<1>3. Promise!Listing(c) = [i \in 1 .. Cardinality(E) |-> Promise!Row(c, Rising(E)[i])]
  BY SameWords DEF Promise!Listing
<1> HIDE DEF E
<1>4. Len(Promise!Listing(c)) = Cardinality(E) /\ DOMAIN Promise!Listing(c) = 1 .. Cardinality(E)
  BY <1>2, <1>3
<1> QED BY <1>1, <1>2, <1>3, <1>4 DEF E

\* One sequence after another, place by place.
LEMMA JoinLemma ==
    ASSUME NEW S, NEW s \in Seq(S), NEW t \in Seq(S), NEW m \in Nat, NEW n \in Nat, m = Len(s), n = Len(t)
    PROVE  /\ s \o t \in [1 .. m + n -> S]
           /\ \A i \in 1 .. m + n : (s \o t)[i] = IF i <= m THEN s[i] ELSE t[i - m]
<1>1. s \o t \in Seq(S) /\ Len(s \o t) = m + n
  OBVIOUS
<1>2. \A i \in 1 .. m + n : (s \o t)[i] = IF i <= m THEN s[i] ELSE t[i - m]
  OBVIOUS
<1> PICK u : u = s \o t
  OBVIOUS
<1>4. u \in Seq(S) /\ Len(u) = m + n
  BY <1>1
<1> PICK j : j = m + n
  OBVIOUS
<1>5. u \in [1 .. j -> S]
  <2>1. j \in Nat /\ Len(u) = j
    BY <1>4
  <2>2. u \in Seq(S)
    BY <1>4
  <2>3. DOMAIN u = 1 .. j
    BY ONLY <2>1, <2>2
  <2> QED BY ONLY <2>1, <2>2, <2>3
<1> QED BY <1>5, <1>2

\* A page is what of the listing follows the rows there are.
LEMMA PageLemma ==
    ASSUME HistoryAssumption, LineInv, commits \in Seq(Commits),
           NEW q, q.index.head \in Ids, q.index = Walked(q.index.head), q.at \in LineOf(q.index.head),
           NEW m \in 0 .. Len(Promise!Listing(q.at)),
           m = 0 => q.after = 0, m # 0 => q.after = Rising(Promise!Existed(q.at))[m],
           NEW n \in 0 .. Len(Rest(q))
    PROVE  /\ Len(Rest(q)) = Len(Promise!Listing(q.at)) - m
           /\ m + n \in m .. Len(Promise!Listing(q.at))
           /\ SubSeq(Promise!Listing(q.at), 1, m) \o [i \in 1 .. n |-> Row(q, Rest(q)[i])]
                = SubSeq(Promise!Listing(q.at), 1, m + n)
           /\ \A i \in 1 .. n : Row(q, Rest(q)[i]) \in [key : Keys, state : {"active", "archived", "retracted"},
                                  text : Texts, version : Ids, versions : Nat]
<1> DEFINE c == q.at
           E == Promise!Existed(c)
           all == Promise!Listing(c)
           N == Cardinality(E)
           T == {k \in E : k > q.after}
           rows == SubSeq(all, 1, m)
<1>1. /\ IsFiniteSet(E) /\ E \in SUBSET Nat /\ E \in SUBSET Keys /\ N \in Nat
      /\ all = [i \in 1 .. N |-> Promise!Row(c, Rising(E)[i])] /\ Len(all) = N
  BY ListingLemma
<1>2. Rest(q) = Rising(T)
  <2>1. {k \in Keys : k > q.after /\ (k \in LiveIn(q.at) \/ Seen(q, k) # {})} = T
    BY <1>1, RowLemma
  <2> QED BY <2>1 DEF Rest
<1>3. /\ Rising(E) \in Seq(E) /\ Len(Rising(E)) = N /\ DOMAIN Rising(E) = 1 .. N
      /\ \A i \in 1 .. N : Rising(E)[i] \in E
  <2>1. Rising(E) \in Seq(E) /\ Len(Rising(E)) = N
    BY <1>1, RisingLemma
  <2> HIDE DEF E
  <2> QED BY <2>1
<1>4. \A k \in E : k > 0
  BY <1>1 DEF HistoryAssumption
<1>5. m \in 0 .. N
  BY <1>1
<1>6. q.after \in Nat /\ (IF m = 0 THEN \A k \in E : k > q.after ELSE q.after = Nth(E, m))
  <2>1. CASE m = 0
    BY <2>1, <1>4
  <2>2. CASE m # 0
    <3>1. m \in 1 .. N
      <4> HIDE DEF N
      <4> QED BY <1>1, <1>5, <2>2
    <3>2. q.after = Rising(E)[m] /\ Rising(E)[m] = Nth(E, m)
      BY <3>1, <2>2 DEF Rising
    <3> QED BY <3>1, <3>2, <2>2, <1>1, <1>3
  <2> QED BY <2>1, <2>2
<1>7. IsFiniteSet(T) /\ Cardinality(T) = N - m /\ \A i \in 1 .. N - m : Rising(T)[i] = Rising(E)[m + i]
  <2> HIDE DEF E
  <2>1. m \in 0 .. Cardinality(E)
    BY <1>5
  <2> DEFINE a == q.after
  <2>2. a \in Nat /\ IF m = 0 THEN \A k \in E : k > a ELSE a = Nth(E, m)
    BY <1>6
  <2> HIDE DEF a
  <2>3. LET U == {k \in E : k > a}
        IN /\ IsFiniteSet(U) /\ Cardinality(U) = Cardinality(E) - m
           /\ \A i \in 1 .. Cardinality(E) - m : Rising(U)[i] = Rising(E)[m + i]
    <3>1. E \in SUBSET Nat /\ IsFiniteSet(E) /\ a \in Nat
      BY <1>1, <2>2
    <3>2. IF m = 0 THEN \A k \in E : k > a ELSE a = Nth(E, m)
      BY <2>2
    <3> QED BY ONLY <3>1, <3>2, <2>1, RestLemma
  <2> QED BY <2>3 DEF a
<1>8. Len(Rest(q)) = N - m
  <2>1. T \in SUBSET Nat
    BY <1>1
  <2> HIDE DEF T
  <2> QED BY <2>1, <1>2, <1>7, RisingLemma
<1> DEFINE page == [i \in 1 .. n |-> Row(q, Rest(q)[i])]
<1>9. ASSUME NEW i \in 1 .. n
      PROVE  /\ m + i \in 1 .. N /\ Row(q, Rest(q)[i]) = all[m + i]
             /\ Row(q, Rest(q)[i]) \in [key : Keys, state : {"active", "archived", "retracted"},
                                  text : Texts, version : Ids, versions : Nat]
  <2>1. m + i \in 1 .. N /\ i \in 1 .. N - m
    <3> HIDE DEF N
    <3> QED BY <1>1, <1>5, <1>8
  <2>2. Rest(q)[i] = Rising(E)[m + i] /\ Rising(E)[m + i] \in E
    BY <2>1, <1>2, <1>3, <1>7
  <2> DEFINE k == Rising(E)[m + i]
  <2>3. k \in Keys /\ k \in E
    BY <2>2, <1>1
  <2>4. all[m + i] = Promise!Row(c, k)
    BY <2>1, <1>1
  <2> HIDE DEF k, all
  <2>5. /\ Row(q, k) = Promise!Row(c, k)
        /\ Row(q, k) \in [key : Keys, state : {"active", "archived", "retracted"},
                                  text : Texts, version : Ids, versions : Nat]
    BY <2>3, RowLemma
  <2> QED BY <2>1, <2>2, <2>4, <2>5 DEF k
<1>10. m + n \in m .. N /\ n \in 0 .. N - m /\ m + n \in 0 .. N
  <2> HIDE DEF N
  <2> QED BY <1>1, <1>5, <1>8
<1>11. rows \o page = SubSeq(all, 1, m + n)
  <2> HIDE DEF all, N, page, rows
  <2>0. N \in Nat /\ m \in Nat /\ n \in Nat /\ m <= N /\ m + n <= N /\ m + n \in Nat
    BY <1>1, <1>5, <1>10
  <2>1. ASSUME NEW j \in 0 .. N
        PROVE  SubSeq(all, 1, j) = [i \in 1 .. j |-> all[i]]
    <3>1. Len(all) = N
      BY <1>1 DEF all
    <3> QED BY <3>1, <2>0
  <2>2. rows = [i \in 1 .. m |-> all[i]]
    <3>1. rows = SubSeq(all, 1, m)
      BY DEF rows
    <3> QED BY <3>1, <2>1, <1>5
  <2>3. page = [i \in 1 .. n |-> all[m + i]]
    BY <1>9 DEF page
  <2>4. Len(rows) = m /\ Len(page) = n
    BY <2>0, <2>2, <2>3
  <2>5. /\ rows \o page = [i \in 1 .. m + n |-> (rows \o page)[i]]
        /\ \A i \in 1 .. m + n : (rows \o page)[i] = IF i <= m THEN rows[i] ELSE page[i - m]
    <3> DEFINE X == {all[i] : i \in 1 .. N}
    <3>1. \A i \in 1 .. m : i \in 1 .. N
      BY <2>0
    <3>2. \A i \in 1 .. n : m + i \in 1 .. N
      BY <2>0
    <3>3. rows \in Seq(X)
      <4>1. \A i \in 1 .. m : all[i] \in X
        BY <3>1
      <4> HIDE DEF X
      <4>2. rows \in [1 .. m -> X]
        BY <2>2, <4>1
      <4> QED BY ONLY <2>0, <4>2
    <3>4. page \in Seq(X)
      <4>1. \A i \in 1 .. n : all[m + i] \in X
        BY <3>2
      <4> HIDE DEF X
      <4>2. page \in [1 .. n -> X]
        BY <2>3, <4>1
      <4> QED BY ONLY <2>0, <4>2
    <3> HIDE DEF X
    <3>5. rows \in Seq(X) /\ page \in Seq(X) /\ m \in Nat /\ n \in Nat /\ m = Len(rows) /\ n = Len(page)
      BY <2>0, <2>4, <3>3, <3>4
    <3> PICK A, r, p : A = X /\ r = rows /\ p = page
      OBVIOUS
    <3>6. r \in Seq(A) /\ p \in Seq(A) /\ m \in Nat /\ n \in Nat /\ m = Len(r) /\ n = Len(p)
      BY <3>5
    <3>7. r \o p \in [1 .. m + n -> A]
      BY ONLY <3>6, JoinLemma
    <3>8. \A i \in 1 .. m + n : (r \o p)[i] = IF i <= m THEN r[i] ELSE p[i - m]
      BY ONLY <3>6, JoinLemma
    <3> PICK u, j : u = r \o p /\ j = m + n
      OBVIOUS
    <3>9. u = [i \in 1 .. j |-> u[i]]
      <4>1. u \in [1 .. j -> A]
        BY <3>7
      <4> QED BY ONLY <4>1
    <3> QED BY <3>8, <3>9
  <2>6. \A i \in 1 .. m + n : (IF i <= m THEN rows[i] ELSE page[i - m]) = all[i]
    <3> SUFFICES ASSUME NEW i \in 1 .. m + n PROVE (IF i <= m THEN rows[i] ELSE page[i - m]) = all[i]
      OBVIOUS
    <3>1. CASE i <= m
      <4>1. i \in 1 .. m
        BY <3>1, <2>0
      <4> QED BY <4>1, <3>1, <2>2
    <3>2. CASE ~(i <= m)
      <4>1. i - m \in 1 .. n /\ m + (i - m) = i
        BY <3>2, <2>0
      <4> QED BY <4>1, <3>2, <2>3
    <3> QED BY <3>1, <3>2
  <2>7. SubSeq(all, 1, m + n) = [i \in 1 .. m + n |-> all[i]]
    BY <2>1, <1>10
  <2> PICK u, j, f : u = rows \o page /\ j = m + n /\ f = all
    OBVIOUS
  <2>8. u = [i \in 1 .. j |-> u[i]] /\ \A i \in 1 .. j : u[i] = f[i]
    BY <2>5, <2>6
  <2>9. u = [i \in 1 .. j |-> f[i]]
    BY ONLY <2>8
  <2> QED BY <2>7, <2>9
<1> QED BY <1>1, <1>8, <1>9, <1>10, <1>11

-----------------------------------------------------------------------------
(* The invariant *)

Pages(i) == [pc : {"idle", "index", "build", "answer", "refused", "failed"},
             at : Ids, after : Nat, limit : Limits \union {0}, index : i, moved : BOOLEAN]
Rows == [key : Keys, state : {"active", "archived", "retracted"},
         text : Texts, version : Ids, versions : Nat]
Exports == [at : Ids, rows : Seq(Rows), complete : BOOLEAN]

\* A client asks on from the rows it has, which are the beginning of its
\* listing; what it is answered from covers what HEAD covered.
PageOk(q, g, h) ==
    /\ q.pc # "failed"
    /\ q.pc # "idle" =>
         /\ q.at = g.at /\ q.at # 0 /\ ~g.complete
         /\ q.after = IF g.rows = <<>> THEN 0 ELSE Last(g.rows).key
    /\ q.pc = "answer" /\ ~q.moved /\ q.at \in LineOf(h) => q.at \in LineOf(q.index.head)
    /\ q.pc = "refused" /\ ~q.moved => q.at \notin LineOf(h)
    /\ g.at = 0 => g.rows = <<>>
    /\ g.at # 0 =>
         /\ Len(g.rows) <= Len(Promise!Listing(g.at))
         /\ g.rows = SubSeq(Promise!Listing(g.at), 1, Len(g.rows))

PageInv(e) == PageOk(exp[e], got[e], head)

\* Every index there is is a walk.
WalksInv == index = Walked(index.head) /\ \A e \in Clients : exp[e].index = Walked(exp[e].index.head)

HistInv == TypeOK /\ LineInv /\ WalksInv /\ \A e \in Clients : PageInv(e)

\* The type invariant by the sets named above.
LEMMA TypeParts ==
    TypeOK <=> /\ commits \in Seq(Commits)
               /\ head \in Ids /\ rewrites \in 0 .. MaxRewrites
               /\ index \in Indexes
               /\ exp \in [Clients -> Pages(Indexes)]
               /\ \A e \in Clients : exp[e].pc = "build" <=> lock = e
               /\ got \in [Clients -> Exports]
  BY DEF TypeOK, Commits, Pages, Rows, Exports, Ids

\* Commits are only added: what there is of the old ones stands.
LEMMA OldCommits ==
    ASSUME commits \in Seq(Commits), LineInv, NEW x, commits' = Append(commits, x), NEW c \in Ids
    PROVE  /\ TextOf(c)' = TextOf(c) /\ LineOf(c)' = LineOf(c) /\ FlatIn(c)' = FlatIn(c)
           /\ Parent(c)' = Parent(c)
           /\ \A k : Changes(c, k)' = Changes(c, k)
           /\ Walked(c)' = Walked(c)
<1>1. Len(commits) \in Nat /\ DOMAIN commits = 1 .. Len(commits) /\ Ids = 0 .. Len(commits)
  BY DEF Ids
<1>2. \A d \in DOMAIN commits : commits'[d] = commits[d] /\ d # 0
  BY <1>1
<1>3. \A d \in Ids : d = 0 \/ d \in DOMAIN commits
  BY <1>1
<1>4. \A d \in Ids : TextOf(d)' = TextOf(d) /\ LineOf(d)' = LineOf(d) /\ FlatIn(d)' = FlatIn(d)
  BY <1>2, <1>3 DEF TextOf, LineOf, FlatIn, Gone
<1>5. \A d \in Ids : Parent(d)' = Parent(d)
  <2> SUFFICES ASSUME NEW d \in Ids PROVE Parent(d)' = Parent(d)
    OBVIOUS
  <2>1. LineOf(d)' = LineOf(d)
    BY <1>4
  <2> QED BY <2>1 DEF Parent
<1>6. ASSUME NEW k PROVE Changes(c, k)' = Changes(c, k)
  <2>1. Changes(c, k)' = {d \in LineOf(c)' : TextOf(d)'[k] # (TextOf(Parent(d))[k])'}
    BY DEF Changes
  <2>2. ASSUME NEW d \in LineOf(c)
        PROVE  TextOf(d)' = TextOf(d) /\ TextOf(Parent(d))' = TextOf(Parent(d))
    <3> DEFINE p == Parent(d)
    <3>1. d \in DOMAIN commits /\ d \in Ids
      BY LineLemma
    <3>2. p \in Ids
      BY <3>1, ParentLemma DEF Ids
    <3>3. p' = p
      BY <3>1, <1>5
    <3> HIDE DEF p
    <3>4. (IF p = 0 THEN Gone ELSE commits[p].text)' = TextOf(p)
      <4>1. p = 0 \/ p \in DOMAIN commits
        BY <3>2, <1>3
      <4> QED BY <4>1, <3>3, <1>2 DEF TextOf, Gone
    <3> QED BY <3>1, <3>4, <1>4 DEF p, TextOf
  <2> QED BY <2>1, <2>2, <1>4 DEF Changes
<1>7. Walked(c)' = Walked(c)
  BY <1>6 DEF Walked
<1> QED BY <1>4, <1>5, <1>6, <1>7

\* The listing of an old commit stands when a commit is added.
LEMMA OldListing ==
    ASSUME HistoryAssumption, commits \in Seq(Commits), LineInv, NEW x, commits' = Append(commits, x),
           NEW c \in DOMAIN commits
    PROVE  Promise!Listing(c)' = Promise!Listing(c)
<1>1. Len(commits) \in Nat /\ DOMAIN commits = 1 .. Len(commits)
  OBVIOUS
<1>2. \A d \in DOMAIN commits : commits'[d] = commits[d]
  BY <1>1
<1> DEFINE L == commits[c].line
<1>3. commits'[c].line = L /\ L \in SUBSET DOMAIN commits /\ L \in SUBSET Nat /\ IsFiniteSet(L)
  <2>1. c # 0 /\ c \in Ids
    BY <1>1 DEF Ids
  <2>2. L = LineOf(c)
    BY <2>1 DEF LineOf
  <2> QED BY <2>1, <2>2, <1>2, LineLemma
<1> HIDE DEF L
<1>4. ASSUME NEW d, NEW k PROVE Promise!Before(c, d, k)' = Promise!Before(c, d, k)
  <2> DEFINE S == {a \in L : a < d}
             m == Promise!Max(S)
  <2>1. S # {} => m \in DOMAIN commits
    <3>1. S \in SUBSET L /\ S \in SUBSET Nat
      BY <1>3
    <3>2. IsFiniteSet(S)
      <4> HIDE DEF S
      <4> QED BY <3>1, <1>3, FS_Subset
    <3> HIDE DEF S
    <3>3. S # {} => Max(S) \in S
      BY <3>1, <3>2, ExtremesLemma
    <3> QED BY <3>1, <3>3, <1>3, SameWords
  <2>2. Promise!Before(c, d, k) = IF S = {} THEN NoText ELSE commits[m].text[k]
    BY DEF Promise!Before, L
  <2>3. Promise!Before(c, d, k)' = IF S = {} THEN NoText ELSE commits'[m].text[k]
    BY <1>3 DEF Promise!Before
  <2> HIDE DEF S, m
  <2> QED BY <2>1, <2>2, <2>3, <1>2
<1>5. ASSUME NEW k PROVE Promise!ChangedAt(c, k)' = Promise!ChangedAt(c, k)
  <2>1. Promise!ChangedAt(c, k) = {d \in L : commits[d].text[k] # Promise!Before(c, d, k)}
    BY DEF Promise!ChangedAt, L
  <2>2. Promise!ChangedAt(c, k)' = {d \in L : commits'[d].text[k] # Promise!Before(c, d, k)'}
    BY <1>3 DEF Promise!ChangedAt
  <2> QED BY <2>1, <2>2, <1>2, <1>3, <1>4
<1>6. ASSUME NEW k \in Keys PROVE Promise!WrittenAt(c, k)' = Promise!WrittenAt(c, k)
  <2> DEFINE C == Promise!ChangedAt(c, k)
  <2>1. C \in SUBSET DOMAIN commits
    BY <1>3 DEF Promise!ChangedAt, L
  <2>2. {d \in C' : commits'[d].text[k] # NoText} = {d \in C : commits[d].text[k] # NoText}
    BY <2>1, <1>2, <1>5
  <2> HIDE DEF C
  <2> QED BY <2>2 DEF Promise!WrittenAt, C
<1>7. Promise!Existed(c)' = Promise!Existed(c)
  BY <1>5 DEF Promise!Existed
<1>8. ASSUME NEW k \in Promise!Existed(c) PROVE Promise!Row(c, k)' = Promise!Row(c, k)
  <2>1. k \in Keys /\ Promise!ChangedAt(c, k) # {}
    BY DEF Promise!Existed
  <2> DEFINE w == Promise!WrittenAt(c, k)
             C == Promise!ChangedAt(c, k)
  <2>2. w \in DOMAIN commits /\ w' = w /\ C' = C
    <3>1. w = Max(Writes(c, k)) /\ C = Changes(c, k)
      BY <2>1, PromisedChanges
    <3>2. c \in Ids
      BY <1>1 DEF Ids
    <3>3. Max(Writes(c, k)) \in Writes(c, k)
      BY <2>1, <3>1, <3>2, NewestWrite
    <3>4. Writes(c, k) \in SUBSET DOMAIN commits
      BY <3>2, ChangesType, LineLemma
    <3> QED BY <2>1, <3>1, <3>3, <3>4, <1>5, <1>6
  <2> HIDE DEF w, C
  <2>3. commits'[w'] = commits[w] /\ commits'[c] = commits[c]
    BY <2>2, <1>2
  <2> QED BY <2>2, <2>3 DEF Promise!Row, w, C
<1> DEFINE E == Promise!Existed(c)
<1>9. Promise!Listing(c) = [i \in 1 .. Promise!Cardinality(E) |-> Promise!Row(c, Promise!Rising(E)[i])]
  BY DEF Promise!Listing
<1>10. Promise!Listing(c)' = [i \in 1 .. Promise!Cardinality(E) |-> Promise!Row(c, Promise!Rising(E)[i])']
  BY <1>7 DEF Promise!Listing
<1>11. \A i \in 1 .. Promise!Cardinality(E) : Promise!Rising(E)[i] \in E
  <2>1. IsFiniteSet(E) /\ E \in SUBSET Nat
    BY ListingLemma
  <2> HIDE DEF E
  <2>2. Rising(E) \in Seq(E) /\ Len(Rising(E)) = Cardinality(E)
    BY <2>1, RisingLemma
  <2>3. Promise!Cardinality(E) = Cardinality(E) /\ Promise!Rising(E) = Rising(E)
    BY SameWords
  <2> QED BY <2>2, <2>3
<1>12. \A i \in 1 .. Promise!Cardinality(E) :
         Promise!Row(c, Promise!Rising(E)[i])' = Promise!Row(c, Promise!Rising(E)[i])
  <2> SUFFICES ASSUME NEW i \in 1 .. Promise!Cardinality(E)
               PROVE  Promise!Row(c, Promise!Rising(E)[i])' = Promise!Row(c, Promise!Rising(E)[i])
    OBVIOUS
  <2> DEFINE k == Promise!Rising(E)[i]
  <2>1. k \in E /\ k' = k
    BY <1>7, <1>11
  <2>2. PICK j : j = k
    OBVIOUS
  <2>3. Promise!Row(c, j)' = Promise!Row(c, j)
    BY <1>8, <2>1, <2>2
  <2>4. Promise!Row(c, k)' = Promise!Row(c, j)'
    BY <2>1, <2>2 DEF Promise!Row, Promise!WrittenAt, Promise!ChangedAt, Promise!Before
  <2> QED BY <2>2, <2>3, <2>4
<1> HIDE DEF E
<1> QED BY <1>9, <1>10, <1>12

-----------------------------------------------------------------------------
(* The first state *)

\* A pair and one more.
LEMMA AppendThird == ASSUME NEW x, NEW y, NEW z PROVE Append(<<x, y>>, z) = <<x, y, z>>
<1>1. <<x, y>> \in Seq({x, y, z}) /\ Len(<<x,y>>) = 2
  OBVIOUS
<1>2. Append(<<x, y>>, z) \in Seq({x, y, z}) /\ Len(Append(<<x, y>>, z)) = 3
  BY <1>1
<1>3. Append(<<x, y>>, z) = [i \in 1 .. 3 |-> Append(<<x, y>>, z)[i]]
  BY <1>2
<1>5. <<x, y, z>> = [i \in 1 .. 3 |-> <<x, y, z>>[i]]
  OBVIOUS
<1>4. Append(<<x, y>>, z)[1] = x /\ Append(<<x, y>>, z)[2] = y /\ Append(<<x, y>>, z)[3] = z
  BY <1>1
<1>6. \A i \in 1 .. 3 : i = 1 \/ i = 2 \/ i = 3
  OBVIOUS
<1>7. \A i \in 1 .. 3 : Append(<<x, y>>, z)[i] = <<x, y, z>>[i]
  BY <1>4, <1>6
<1> DEFINE s == Append(<<x, y>>, z)
           t == <<x, y, z>>
<1> HIDE DEF s, t
<1>8. s = t
  BY <1>3, <1>5, <1>7 DEF s, t
<1> QED BY <1>8 DEF s, t

\* The migrated canon, no index read and no export asked for.
LEMMA InitInv == HistoryAssumption /\ Init => HistInv
<1> SUFFICES ASSUME HistoryAssumption, Init PROVE HistInv
  OBVIOUS
<1> DEFINE closed == {k \in Keys \ Knowledge : Legacy[k] \in Closed}
           flat == {k \in Keys : Legacy[k] # NoText}
           last == [k \in Keys |-> IF k \in closed THEN NoText ELSE Legacy[k]]
<1>1. \/ commits = <<>>
      \/ commits = << [line |-> {1}, text |-> Legacy, flat |-> flat],
                      [line |-> {1, 2}, text |-> Legacy, flat |-> {}] >>
      \/ commits = << [line |-> {1}, text |-> Legacy, flat |-> flat],
                      [line |-> {1, 2}, text |-> Legacy, flat |-> {}],
                      [line |-> {1, 2, 3}, flat |-> {}, text |-> last] >>
  <2> DEFINE a == [line |-> {1}, text |-> Legacy, flat |-> flat]
             b == [line |-> {1, 2}, text |-> Legacy, flat |-> {}]
             c == [line |-> {1, 2, 3}, flat |-> {}, text |-> last]
  <2>1. commits = IF Legacy = Gone THEN <<>>
                  ELSE IF closed = {} THEN <<a, b>> ELSE Append(<<a, b>>, c)
    BY Zenon DEF Init, Migrated
  <2> HIDE DEF a, b, c, closed
  <2>2. Append(<<a, b>>, c) = <<a, b, c>>
    BY AppendThird
  <2>3. commits = <<>> \/ commits = <<a, b>> \/ commits = <<a, b, c>>
    BY <2>1, <2>2
  <2> QED BY <2>3 DEF a, b, c
<1>2. /\ Legacy \in [Keys -> Texts \union {NoText}] /\ flat \in SUBSET Keys
      /\ last \in [Keys -> Texts \union {NoText}]
  BY DEF HistoryAssumption
<1> HIDE DEF flat, last
<1>3. commits \in Seq(Commits) /\ Len(commits) \in {0, 2, 3}
  <2>1. CASE commits = <<>>
    BY <2>1
  <2>2. CASE commits = << [line |-> {1}, text |-> Legacy, flat |-> flat],
                      [line |-> {1, 2}, text |-> Legacy, flat |-> {}] >>
    <3>1. Len(commits) = 2
      BY <2>2
    <3>2. {1} \in SUBSET (0 .. 2) /\ {1, 2} \in SUBSET (0 .. 2)
      OBVIOUS
    <3>3. Commits = [line : SUBSET (0 .. 2), text : [Keys -> Texts \union {NoText}], flat : SUBSET Keys]
      BY <3>1 DEF Commits
    <3>4. [line |-> {1}, text |-> Legacy, flat |-> flat] \in Commits /\ [line |-> {1, 2}, text |-> Legacy, flat |-> {}] \in Commits
      BY <3>2, <3>3, <1>2
    <3> QED BY <3>1, <3>4, <2>2
  <2>3. CASE commits = << [line |-> {1}, text |-> Legacy, flat |-> flat],
                      [line |-> {1, 2}, text |-> Legacy, flat |-> {}],
                      [line |-> {1, 2, 3}, flat |-> {}, text |-> last] >>
    <3>1. Len(commits) = 3
      BY <2>3
    <3>2. {1} \in SUBSET (0 .. 3) /\ {1, 2} \in SUBSET (0 .. 3) /\ {1, 2, 3} \in SUBSET (0 .. 3)
      OBVIOUS
    <3>3. Commits = [line : SUBSET (0 .. 3), text : [Keys -> Texts \union {NoText}], flat : SUBSET Keys]
      BY <3>1 DEF Commits
    <3>4. /\ [line |-> {1}, text |-> Legacy, flat |-> flat] \in Commits
          /\ [line |-> {1, 2}, text |-> Legacy, flat |-> {}] \in Commits
          /\ [line |-> {1, 2, 3}, flat |-> {}, text |-> last] \in Commits
      BY <3>2, <3>3, <1>2
    <3> QED BY <3>1, <3>4, <2>3
  <2> QED BY <1>1, <2>1, <2>2, <2>3
<1>4. /\ \A c \in DOMAIN commits : LineOf(c) = 1 .. c /\ c \in 1 .. 3 /\ 1 \in DOMAIN commits
      /\ \A c \in DOMAIN commits : c # 1 => FlatIn(c) = {}
      /\ 2 \in DOMAIN commits => TextOf(2) = TextOf(1)
      /\ head # 1 /\ (head = 0 \/ head \in DOMAIN commits)
  <2>1. 1 .. 1 = {1} /\ 1 .. 2 = {1, 2} /\ 1 .. 3 = {1, 2, 3}
    OBVIOUS
  <2>2. head = Len(commits)
    BY DEF Init
  <2>3. CASE commits = <<>>
    <3>1. DOMAIN commits = {} /\ head = 0
      BY <2>2, <2>3
    <3> QED BY <3>1
  <2>4. CASE commits = << [line |-> {1}, text |-> Legacy, flat |-> flat],
                      [line |-> {1, 2}, text |-> Legacy, flat |-> {}] >>
    <3>1. DOMAIN commits = {1, 2} /\ head = 2
      BY <2>1, <2>2, <2>4
    <3>2. commits[1].line = 1 .. 1 /\ commits[2].line = 1 .. 2 /\ commits[2].flat = {} /\ commits[2].text = commits[1].text
      BY <2>1, <2>4
    <3> QED BY <3>1, <3>2 DEF LineOf, FlatIn, TextOf
  <2>5. CASE commits = << [line |-> {1}, text |-> Legacy, flat |-> flat],
                      [line |-> {1, 2}, text |-> Legacy, flat |-> {}],
                      [line |-> {1, 2, 3}, flat |-> {}, text |-> last] >>
    <3>1. DOMAIN commits = {1, 2, 3} /\ head = 3
      BY <2>1, <2>2, <2>5
    <3>2. /\ commits[1].line = 1 .. 1 /\ commits[2].line = 1 .. 2 /\ commits[3].line = 1 .. 3
          /\ commits[2].flat = {} /\ commits[3].flat = {} /\ commits[2].text = commits[1].text
      BY <2>1, <2>5
    <3> QED BY <3>1, <3>2 DEF LineOf, FlatIn, TextOf
  <2> QED BY <1>1, <2>3, <2>4, <2>5
<1>5. LineInv
  <2>1. FlatIn(head) = {}
    BY <1>4 DEF FlatIn
  <2>2. ASSUME NEW c \in DOMAIN commits
        PROVE  /\ c \in LineOf(c) /\ LineOf(c) \subseteq 1 .. c
               /\ \A d \in LineOf(c) : LineOf(d) = {a \in LineOf(c) : a <= d}
    <3>1. LineOf(c) = 1 .. c /\ c \in 1 .. 3
      BY <1>4
    <3>2. \A d \in 1 .. c : d \in DOMAIN commits
      BY <1>3, <3>1
    <3>3. \A d \in 1 .. c : LineOf(d) = 1 .. d
      BY <3>2, <1>4
    <3>4. \A d \in 1 .. c : 1 .. d = {a \in 1 .. c : a <= d}
      BY <3>1
    <3> QED BY <3>1, <3>3, <3>4
  <2>3. ASSUME NEW c \in DOMAIN commits, FlatIn(Parent(c)) # {} PROVE TextOf(c) = TextOf(Parent(c))
    <3>0. c \in 1 .. 3 /\ LineOf(c) = 1 .. c
      BY <1>4
    <3>1. CASE c = 1
      <4>1. LineOf(c) = {c}
        BY <3>0, <3>1
      <4>2. Parent(c) = 0
        BY <4>1 DEF Parent
      <4> QED BY <4>2, <2>3 DEF FlatIn
    <3>2. CASE c # 1
      <4> DEFINE D == LineOf(c) \ {c}
                 p == c - 1
      <4>1. p \in D /\ D \in SUBSET Nat /\ \A d \in D : d <= p
        BY <3>0, <3>2
      <4>2. LineOf(c) # {c}
        BY <4>1
      <4> HIDE DEF D, p
      <4>3. Max(D) = p
        BY <4>1, MaxIs
      <4>4. Parent(c) = p
        BY <4>2, <4>3 DEF Parent, D
      <4>5. p \in DOMAIN commits
        BY <1>3, <3>0, <3>2 DEF p
      <4>6. p = 1
        BY <4>4, <4>5, <1>4, <2>3
      <4>7. c = 2
        BY <4>6, <3>0 DEF p
      <4> QED BY <4>4, <4>6, <4>7, <1>4
    <3> QED BY <3>1, <3>2
  <2> QED BY <2>1, <2>2, <2>3 DEF LineInv
<1>6. 0 \in Ids /\ head \in Ids
  BY <1>3 DEF Ids, Init
<1>7. NoIndex \in Indexes /\ NoIndex = Walked(0) /\ NoIndex.head = 0
  <2>1. LineOf(0) = {}
    BY DEF LineOf
  <2>2. \A k : Changes(0, k) = {}
    BY <2>1 DEF Changes
  <2>3. Falling({}) = <<>>
    <3>1. Len(Falling({})) = 0 /\ Falling({}) \in Seq({})
      BY FallingLemma, FS_EmptySet
    <3> DEFINE s == Falling({})
    <3> HIDE DEF s
    <3>2. s = <<>>
      BY <3>1 DEF s
    <3> QED BY <3>2 DEF s
  <2>4. NoIndex = Walked(0)
    BY <2>2, <2>3 DEF NoIndex, Walked
  <2>5. NoIndex \in Indexes /\ NoIndex.head = 0
    BY <1>6 DEF NoIndex, Indexes
  <2> QED BY <2>4, <2>5
<1>8. NoPage \in Pages(Indexes) /\ NoExport \in Exports
  BY <1>6, <1>7 DEF NoPage, NoExport, Pages, Exports
<1>9. TypeOK
  <2>1. \A e \in Clients : ~(exp[e].pc = "build") /\ lock # e
    BY DEF Init, NoPage, HistoryAssumption
  <2>2. rewrites \in 0 .. MaxRewrites
    BY DEF Init, HistoryAssumption
  <2> QED BY <1>3, <1>6, <1>7, <1>8, <2>1, <2>2, TypeParts DEF Init
<1>10. WalksInv
  BY <1>7 DEF Init, NoPage, WalksInv
<1>11. \A e \in Clients : PageInv(e)
  BY DEF Init, PageInv, PageOk, NoPage, NoExport
<1> QED BY <1>5, <1>9, <1>10, <1>11 DEF HistInv

-----------------------------------------------------------------------------
(* A commit *)

\* A commit on HEAD: the history grows by one, and all else stands.
LEMMA CommitLine ==
    ASSUME HistoryAssumption, TypeOK, LineInv, NEW k \in Keys, NEW t \in Texts \union {NoText}, Commit(k, t)
    PROVE  /\ LineInv' /\ Len(commits') = Len(commits) + 1 /\ head' = Len(commits) + 1
           /\ LineOf(head)' = LineOf(head) \union {Len(commits) + 1}
           /\ commits' \in Seq(Commits') /\ Ids \in SUBSET Ids' /\ head' \in Ids'
<1> PICK n : n = Len(commits) + 1
  OBVIOUS
<1> PICK h : h = head
  OBVIOUS
<1> DEFINE x == [line |-> LineOf(h) \union {n}, text |-> [TextOf(h) EXCEPT ![k] = t], flat |-> {}]
<1>1. commits' = Append(commits, x) /\ head' = Len(commits')
  BY DEF Commit
<1>2. commits \in Seq(Commits) /\ h \in Ids /\ FlatIn(h) = {}
  BY TypeParts DEF LineInv
<1> HIDE DEF x
<1>3. /\ Len(commits) \in Nat /\ DOMAIN commits = 1 .. Len(commits) /\ Ids = 0 .. Len(commits)
      /\ Len(commits') = n /\ DOMAIN commits' = 1 .. n /\ n \in Nat /\ n # 0 /\ n \notin Ids
      /\ commits'[n] = x /\ \A c \in DOMAIN commits : commits'[c] = commits[c] /\ c # n /\ c \in Ids
  BY <1>1, <1>2 DEF Ids
<1>4. \A c \in Ids : /\ TextOf(c)' = TextOf(c) /\ LineOf(c)' = LineOf(c) /\ FlatIn(c)' = FlatIn(c)
                     /\ Parent(c)' = Parent(c)
  BY <1>1, <1>2, OldCommits
<1>5. LineOf(n)' = LineOf(h) \union {n} /\ TextOf(n)' = [TextOf(h) EXCEPT ![k] = t] /\ FlatIn(n)' = {}
  BY <1>3 DEF x, LineOf, TextOf, FlatIn
<1>6. \A c \in DOMAIN commits' : c = n \/ c \in DOMAIN commits
  BY <1>3
<1>7. /\ LineOf(h) \in SUBSET Ids /\ LineOf(h) \in SUBSET Nat /\ LineOf(h) \in SUBSET DOMAIN commits
      /\ \A d \in LineOf(h) : d <= h /\ d # 0 /\ LineOf(d) = {a \in LineOf(h) : a <= d}
      /\ h # 0 => h \in LineOf(h)
      /\ h = 0 => LineOf(h) = {}
  BY <1>2, LineLemma DEF LineOf
<1>8. h \in Nat /\ h < n
  BY <1>2, <1>3
<1>9. Parent(n)' = h
  <2> DEFINE D == (LineOf(h) \union {n}) \ {n}
  <2>1. D = LineOf(h)
    BY <1>3, <1>7
  <2>2. h # 0 => Max(D) = h
    BY <2>1, <1>7, MaxIs
  <2>3. LineOf(h) \union {n} = {n} <=> h = 0
    BY <1>7, <1>8
  <2>4. Parent(n)' = IF LineOf(n)' = {n} THEN 0 ELSE Max(LineOf(n)' \ {n})
    BY DEF Parent
  <2> QED BY <2>2, <2>3, <2>4, <1>5
<1>10. ASSUME NEW c \in DOMAIN commits'
       PROVE  /\ c \in LineOf(c)' /\ LineOf(c)' \subseteq 1 .. c
              /\ \A d \in LineOf(c)' : LineOf(d)' = {a \in LineOf(c)' : a <= d}
              /\ (FlatIn(Parent(c)) # {} => TextOf(c) = TextOf(Parent(c)))'
  <2>1. CASE c = n
    <3>1. LineOf(h) \union {n} \subseteq 1 .. n
      BY <1>7, <1>8
    <3>2. ASSUME NEW d \in LineOf(h) \union {n}
          PROVE  LineOf(d)' = {a \in LineOf(h) \union {n} : a <= d}
      <4>1. CASE d = n
        BY <3>1, <4>1, <1>5
      <4>2. CASE d # n
        <5>1. d \in LineOf(h) /\ d \in Ids /\ d \in Nat
          BY <4>2, <1>7
        <5>2. ~(n <= d)
          BY <5>1, <1>7, <1>8
        <5>3. LineOf(d)' = {a \in LineOf(h) : a <= d}
          BY <5>1, <1>4, <1>7
        <5> QED BY <5>2, <5>3
      <4> QED BY <4>1, <4>2
    <3>3. (FlatIn(Parent(c)))' = {}
      <4>1. (IF h = 0 THEN {} ELSE commits[h].flat)' = {}
        BY <1>2, <1>4 DEF FlatIn
      <4> QED BY <4>1, <2>1, <1>9 DEF FlatIn
    <3> QED BY <2>1, <3>1, <3>2, <3>3, <1>5
  <2>2. CASE c \in DOMAIN commits
    <3>1. c \in Ids
      BY <2>2, <1>3
    <3>2. /\ c \in LineOf(c) /\ LineOf(c) \subseteq 1 .. c
          /\ \A d \in LineOf(c) : LineOf(d) = {a \in LineOf(c) : a <= d}
      BY <2>2 DEF LineInv
    <3>3. LineOf(c) \in SUBSET Ids /\ LineOf(c)' = LineOf(c)
      BY <3>1, <1>2, <1>4, LineLemma
    <3>4. \A d \in LineOf(c) : LineOf(d)' = LineOf(d)
      BY <3>3, <1>4
    <3> PICK p : p = Parent(c)
      OBVIOUS
    <3>5. p \in Ids /\ Parent(c)' = p
      BY <2>2, <3>1, <1>2, <1>4, ParentLemma DEF Ids
    <3>6. FlatIn(p) # {} => TextOf(c) = TextOf(p)
      BY <2>2 DEF LineInv
    <3>7. FlatIn(p)' # {} => TextOf(c)' = TextOf(p)'
      BY <3>1, <3>5, <3>6, <1>4
    <3>8. (FlatIn(Parent(c)) # {} => TextOf(c) = TextOf(Parent(c)))'
      BY <3>5, <3>7 DEF FlatIn, TextOf
    <3> QED BY <3>2, <3>3, <3>4, <3>8
  <2> QED BY <2>1, <2>2, <1>6
<1>11. FlatIn(head)' = {}
  BY <1>1, <1>3, <1>5 DEF FlatIn
<1>12. LineInv'
  BY <1>10, <1>11 DEF LineInv
<1>13. Ids' = 0 .. n /\ Ids \in SUBSET Ids' /\ head' \in Ids'
  BY <1>1, <1>3 DEF Ids
<1>14. commits' \in Seq(Commits')
  <2>1. Commits' = [line : SUBSET (0 .. n), text : [Keys -> Texts \union {NoText}], flat : SUBSET Keys]
    BY <1>3 DEF Commits
  <2>2. Commits \in SUBSET Commits'
    <3>1. SUBSET (0 .. Len(commits)) \subseteq SUBSET (0 .. n)
      BY <1>3
    <3> QED BY <2>1, <3>1 DEF Commits
  <2>3. x \in Commits'
    <3>1. LineOf(h) \union {n} \in SUBSET (0 .. n)
      BY <1>3, <1>7
    <3>2. TextOf(h) \in [Keys -> Texts \union {NoText}]
      <4>1. CASE h = 0
        BY <4>1 DEF TextOf, Gone
      <4>2. CASE h # 0
        <5>1. h \in DOMAIN commits
          BY <4>2, <1>2, <1>3
        <5>2. commits[h] \in Commits
          BY <5>1, <1>2
        <5> QED BY <4>2, <5>2 DEF Commits, TextOf
      <4> QED BY <4>1, <4>2
    <3> QED BY <2>1, <3>1, <3>2 DEF x
  <2>4. commits \in Seq(Commits')
    BY <2>2, <1>2
  <2> QED BY <2>3, <2>4, <1>1
<1> QED BY <1>1, <1>3, <1>5, <1>12, <1>13, <1>14 DEF LineOf

\* A sequence over a set is one over a greater set.
LEMMA SeqMono ==
    ASSUME NEW A, NEW B, A \in SUBSET B
    PROVE  Seq(A) \in SUBSET Seq(B)
  OBVIOUS

\* TypeParts, of the state after a step.
LEMMA NextTypeParts ==
    ASSUME commits' \in Seq(Commits'), head' \in Ids', rewrites' \in 0 .. MaxRewrites, index' \in Indexes',
           exp' \in [Clients -> Pages(Indexes)'], got' \in [Clients -> Exports'],
           \A e \in Clients : exp'[e].pc = "build" <=> lock' = e
    PROVE  TypeOK'
  BY DEF TypeOK, Commits, Pages, Rows, Exports, Ids

\* The listing of the commit an export has is that of the commit itself.
LEMMA ListingAt ==
    ASSUME NEW e, NEW g, got'[e] = g
    PROVE  Promise!Listing(got[e].at)' = Promise!Listing(g.at)'
  BY DEF Promise!Listing, Promise!Row, Promise!WrittenAt, Promise!ChangedAt, Promise!Before, Promise!Existed

\* Every index remains the walk it was, every export the listing it was.
LEMMA CommitStep ==
    ASSUME HistoryAssumption, HistInv, NEW k \in Keys, NEW t \in Texts \union {NoText}, Commit(k, t)
    PROVE  HistInv'
<1>1. /\ commits \in Seq(Commits) /\ head \in Ids /\ rewrites \in 0 .. MaxRewrites /\ index \in Indexes
      /\ exp \in [Clients -> Pages(Indexes)] /\ \A e \in Clients : exp[e].pc = "build" <=> lock = e
      /\ got \in [Clients -> Exports]
  BY TypeParts DEF HistInv
<1>2. /\ TypeOK /\ LineInv /\ index = Walked(index.head)
      /\ \A e \in Clients : exp[e].index = Walked(exp[e].index.head) /\ PageInv(e)
  BY DEF HistInv, WalksInv
<1>3. UNCHANGED <<index, lock, exp, got, rewrites>>
  BY DEF Commit
<1>4. /\ LineInv' /\ Len(commits') = Len(commits) + 1 /\ head' = Len(commits) + 1
      /\ LineOf(head)' = LineOf(head) \union {Len(commits) + 1}
      /\ commits' \in Seq(Commits') /\ Ids \in SUBSET Ids' /\ head' \in Ids'
  BY <1>2, CommitLine
<1>5. TypeOK'
  <2>1. Seq(Ids) \in SUBSET Seq(Ids')
    BY <1>4, SeqMono
  <2>2. Indexes \in SUBSET Indexes'
    BY <1>4, <2>1 DEF Indexes
  <2>3. Pages(Indexes) \in SUBSET Pages(Indexes)'
    BY <1>4, <2>2 DEF Pages
  <2>4. Rows \in SUBSET Rows'
    BY <1>4 DEF Rows
  <2>5. Seq(Rows) \in SUBSET Seq(Rows')
    BY <2>4, SeqMono
  <2>6. Exports \in SUBSET Exports'
    BY <1>4, <2>5 DEF Exports
  <2>7. exp' \in [Clients -> Pages(Indexes)'] /\ got' \in [Clients -> Exports'] /\ index' \in Indexes'
    BY <1>1, <1>3, <2>2, <2>3, <2>6
  <2>8. \A e \in Clients : exp'[e].pc = "build" <=> lock' = e
    BY <1>1, <1>3
  <2>9. rewrites' \in 0 .. MaxRewrites
    BY <1>1, <1>3
  <2> QED BY <1>4, <2>7, <2>8, <2>9, NextTypeParts
<1> PICK x : commits' = Append(commits, x)
  BY DEF Commit
<1>6. \A c \in Ids : Walked(c)' = Walked(c) /\ LineOf(c)' = LineOf(c)
  BY <1>1, <1>2, OldCommits
<1>7. \A c \in DOMAIN commits : Promise!Listing(c)' = Promise!Listing(c)
  BY <1>1, <1>2, OldListing
<1>8. \A c \in Ids : (c # 0 => c \in DOMAIN commits) /\ c # Len(commits) + 1
  BY <1>1 DEF Ids
<1>9. WalksInv'
  <2> PICK ix : ix = index
    OBVIOUS
  <2> PICK g : g = index.head
    OBVIOUS
  <2>1. g \in Ids /\ ix = Walked(g)
    BY <1>1, <1>2 DEF Indexes
  <2>2. Walked(index.head)' = Walked(g)'
    BY <1>3 DEF Walked
  <2>3. index' = Walked(index.head)'
    BY <2>1, <2>2, <1>3, <1>6
  <2>4. ASSUME NEW e \in Clients PROVE exp'[e].index = Walked(exp[e].index.head)'
    <3> PICK f : f = exp[e].index.head
      OBVIOUS
    <3>1. f \in Ids /\ exp[e].index = Walked(f)
      BY <1>1, <1>2 DEF Indexes, Pages
    <3>2. Walked(exp[e].index.head)' = Walked(f)'
      BY <1>3 DEF Walked
    <3> QED BY <3>1, <3>2, <1>3, <1>6
  <2> QED BY <2>3, <2>4 DEF WalksInv
<1>10. ASSUME NEW e \in Clients PROVE PageInv(e)'
  <2> PICK q : q = exp[e]
    OBVIOUS
  <2> PICK g : g = got[e]
    OBVIOUS
  <2>1. exp'[e] = q /\ got'[e] = g
    BY <1>3
  <2>2. q.at \in Ids /\ g.at \in Ids /\ q.index.head \in Ids
    BY <1>1 DEF Pages, Exports, Indexes
  <2>3. q.at \in LineOf(head)' <=> q.at \in LineOf(head)
    BY <2>2, <1>4, <1>8
  <2>4. LineOf(exp[e].index.head)' = LineOf(q.index.head)
    <3>1. LineOf(exp[e].index.head)' = LineOf(q.index.head)'
      BY <2>1 DEF LineOf
    <3> QED BY <3>1, <2>2, <1>6
  <2>5. g.at # 0 => Promise!Listing(g.at)' = Promise!Listing(g.at)
    BY <2>2, <1>7, <1>8
  <2>6. g.at # 0 => Promise!Listing(got[e].at)' = Promise!Listing(g.at)
    <3>1. Promise!Listing(got[e].at)' = Promise!Listing(g.at)'
      BY <2>1, ListingAt
    <3> QED BY <3>1, <2>5
  <2>7. PageInv(e)
    BY <1>2
  <2> QED BY <2>1, <2>3, <2>4, <2>6, <2>7 DEF PageInv, PageOk
<1> QED BY <1>4, <1>5, <1>9, <1>10 DEF HistInv

\* Without a new commit what is read off the commits stands.
LEMMA SameCommits ==
    ASSUME commits' = commits
    PROVE  /\ Ids' = Ids /\ Commits' = Commits /\ Indexes' = Indexes /\ Rows' = Rows /\ Exports' = Exports
           /\ Pages(Indexes)' = Pages(Indexes)
           /\ \A c : /\ LineOf(c)' = LineOf(c) /\ Walked(c)' = Walked(c)
                     /\ Promise!Listing(c)' = Promise!Listing(c)
<1>1. Ids' = Ids /\ Commits' = Commits /\ Rows' = Rows
  BY DEF Ids, Commits, Rows
<1>2. Indexes' = Indexes /\ Exports' = Exports
  BY <1>1 DEF Indexes, Exports
<1>3. Pages(Indexes)' = Pages(Indexes)
  BY <1>1, <1>2 DEF Pages
<1>4. \A c : LineOf(c)' = LineOf(c)
  BY DEF LineOf
<1>5. \A c : Walked(c)' = Walked(c)
  BY DEF Walked, Changes, TextOf, Parent, LineOf
<1>6. \A c : Promise!Listing(c)' = Promise!Listing(c)
  BY DEF Promise!Listing, Promise!Row, Promise!WrittenAt, Promise!ChangedAt, Promise!Before, Promise!Existed
<1> QED BY <1>1, <1>2, <1>3, <1>4, <1>5, <1>6

\* What a step without a new commit has to keep.
LEMMA StepParts ==
    ASSUME HistInv, commits' = commits, head' \in Ids, FlatIn(head') = {}, rewrites' \in 0 .. MaxRewrites,
           index' \in Indexes, index' = Walked(index'.head),
           exp' \in [Clients -> Pages(Indexes)], got' \in [Clients -> Exports],
           \A e \in Clients : exp'[e].pc = "build" <=> lock' = e,
           \A e \in Clients : exp'[e].index = Walked(exp'[e].index.head),
           \A e \in Clients : PageOk(exp'[e], got'[e], head')
    PROVE  HistInv'
<1>1. /\ Ids' = Ids /\ Commits' = Commits /\ Indexes' = Indexes /\ Exports' = Exports
      /\ Pages(Indexes)' = Pages(Indexes)
      /\ \A c : /\ LineOf(c)' = LineOf(c) /\ Walked(c)' = Walked(c)
                /\ Promise!Listing(c)' = Promise!Listing(c)
  BY SameCommits
<1>2. TypeOK'
  <2>1. commits' \in Seq(Commits')
    BY <1>1, TypeParts DEF HistInv
  <2> QED BY <1>1, <2>1, NextTypeParts
<1>3. LineInv'
  BY ZenonT(60) DEF HistInv, LineInv, LineOf, FlatIn, TextOf, Parent
<1>4. WalksInv'
  <2>1. \A c : Walked(c)' = Walked(c)
    BY <1>1
  <2>2. Walked(index.head)' = Walked(index'.head)
    BY DEF Walked, Changes, TextOf, Parent, LineOf
  <2>3. \A e \in Clients : Walked(exp[e].index.head)' = Walked(exp'[e].index.head)
    BY DEF Walked, Changes, TextOf, Parent, LineOf
  <2> QED BY <2>2, <2>3 DEF WalksInv
<1>5. ASSUME NEW e \in Clients PROVE PageInv(e)'
  <2> PICK g : g = got'[e]
    OBVIOUS
  <2>4. got'[e] = g
    OBVIOUS
  <2>3. Promise!Listing(got[e].at)' = Promise!Listing(g.at)'
    BY <2>4, ListingAt
  <2>1. Promise!Listing(got[e].at)' = Promise!Listing(got'[e].at)
    BY <1>1, <2>3
  <2>2. LineOf(head)' = LineOf(head') /\ LineOf(exp[e].index.head)' = LineOf(exp'[e].index.head)
    BY DEF LineOf
  <2> QED BY <2>1, <2>2 DEF PageInv, PageOk
<1> QED BY <1>2, <1>3, <1>4, <1>5 DEF HistInv

-----------------------------------------------------------------------------
(* The other steps *)

\* The parts of the invariant the steps below need.
LEMMA InvParts ==
    ASSUME HistInv
    PROVE  /\ commits \in Seq(Commits) /\ head \in Ids /\ rewrites \in 0 .. MaxRewrites
           /\ index \in Indexes /\ index.head \in Ids /\ index = Walked(index.head)
           /\ exp \in [Clients -> Pages(Indexes)] /\ got \in [Clients -> Exports]
           /\ \A e \in Clients : exp[e].pc = "build" <=> lock = e
           /\ LineInv /\ FlatIn(head) = {}
           /\ \A e \in Clients :
                /\ exp[e] \in Pages(Indexes) /\ got[e] \in Exports
                /\ exp[e].index = Walked(exp[e].index.head) /\ exp[e].index.head \in Ids
                /\ PageOk(exp[e], got[e], head)
<1>1. /\ commits \in Seq(Commits) /\ head \in Ids /\ rewrites \in 0 .. MaxRewrites /\ index \in Indexes
      /\ exp \in [Clients -> Pages(Indexes)] /\ \A e \in Clients : exp[e].pc = "build" <=> lock = e
      /\ got \in [Clients -> Exports]
  BY TypeParts DEF HistInv
<1>2. index.head \in Ids /\ \A e \in Clients : exp[e].index.head \in Ids
  BY <1>1 DEF Indexes, Pages
<1>3. index = Walked(index.head) /\ \A e \in Clients : exp[e].index = Walked(exp[e].index.head)
  BY DEF HistInv, WalksInv
<1>4. \A e \in Clients : PageOk(exp[e], got[e], head)
  BY DEF HistInv, PageInv
<1>5. LineInv /\ FlatIn(head) = {}
  BY DEF HistInv, LineInv
<1> QED BY <1>1, <1>2, <1>3, <1>4, <1>5

\* A step of one client, which leaves HEAD where it is.
LEMMA ClientStep ==
    ASSUME HistInv, NEW e \in Clients, NEW q \in Pages(Indexes), NEW g \in Exports,
           commits' = commits, head' = head, rewrites' = rewrites,
           index' \in Indexes, index' = Walked(index'.head),
           exp' = [exp EXCEPT ![e] = q], got' = [got EXCEPT ![e] = g],
           q.index = Walked(q.index.head), PageOk(q, g, head),
           \A f \in Clients : exp'[f].pc = "build" <=> lock' = f
    PROVE  HistInv'
<1>1. /\ head \in Ids /\ rewrites \in 0 .. MaxRewrites
      /\ exp \in [Clients -> Pages(Indexes)] /\ got \in [Clients -> Exports]
      /\ FlatIn(head) = {}
      /\ \A f \in Clients : exp[f].index = Walked(exp[f].index.head) /\ PageOk(exp[f], got[f], head)
  BY InvParts
<1>2. exp' \in [Clients -> Pages(Indexes)] /\ got' \in [Clients -> Exports]
  BY <1>1
<1>3. \A f \in Clients : (f = e /\ exp'[f] = q /\ got'[f] = g) \/ (exp'[f] = exp[f] /\ got'[f] = got[f])
  BY <1>1
<1>4. \A f \in Clients : exp'[f].index = Walked(exp'[f].index.head)
  BY <1>1, <1>3
<1>5. \A f \in Clients : PageOk(exp'[f], got'[f], head')
  <2>1. \A f \in Clients : PageOk(exp'[f], got'[f], head)
    BY <1>1, <1>3
  <2> QED BY <2>1
<1>6. head' \in Ids /\ FlatIn(head') = {} /\ rewrites' \in 0 .. MaxRewrites
  BY <1>1
<1> QED BY <1>2, <1>4, <1>5, <1>6, StepParts

\* Whoever is asking is marked, so that it may be refused.
LEMMA MoveStep ==
    ASSUME HistoryAssumption, HistInv, NEW c \in DOMAIN commits, MoveHead(c)
    PROVE  HistInv'
<1>1. /\ exp' = [e \in Clients |-> [exp[e] EXCEPT !.moved = @ \/ exp[e].pc # "idle"]]
      /\ head' = c /\ FlatIn(c) = {} /\ rewrites < MaxRewrites /\ rewrites' = rewrites + 1
      /\ UNCHANGED <<commits, index, lock, got>>
  BY DEF MoveHead
<1>2. /\ commits \in Seq(Commits) /\ rewrites \in 0 .. MaxRewrites /\ MaxRewrites \in Nat
      /\ index \in Indexes /\ index = Walked(index.head) /\ got \in [Clients -> Exports]
      /\ \A e \in Clients : exp[e].pc = "build" <=> lock = e
      /\ \A e \in Clients :
           exp[e] \in Pages(Indexes) /\ exp[e].index = Walked(exp[e].index.head) /\ PageOk(exp[e], got[e], head)
  BY InvParts DEF HistoryAssumption
<1>3. ASSUME NEW e \in Clients
      PROVE  /\ exp'[e] \in Pages(Indexes) /\ exp'[e].index = exp[e].index /\ exp'[e].pc = exp[e].pc
             /\ exp'[e].at = exp[e].at /\ exp'[e].after = exp[e].after
             /\ exp[e].pc # "idle" => exp'[e].moved
  <2> PICK q : q = exp[e]
    OBVIOUS
  <2>1. exp'[e] = [q EXCEPT !.moved = q.moved \/ q.pc # "idle"]
    BY <1>1
  <2>2. q \in Pages(Indexes)
    BY <1>2
  <2>3. [q EXCEPT !.moved = q.moved \/ q.pc # "idle"] =
        [pc |-> q.pc, at |-> q.at, after |-> q.after, limit |-> q.limit, index |-> q.index,
         moved |-> q.moved \/ q.pc # "idle"]
    BY <2>2 DEF Pages
  <2>4. (q.moved \/ q.pc # "idle") \in BOOLEAN /\ (q.pc # "idle" => (q.moved \/ q.pc # "idle"))
    OBVIOUS
  <2> QED BY <2>1, <2>2, <2>3, <2>4, ZenonT(60) DEF Pages
<1>4. \A e \in Clients : PageOk(exp'[e], got'[e], c)
  BY <1>1, <1>2, <1>3, SMTT(30) DEF PageOk
<1>5. head' \in Ids /\ FlatIn(head') = {} /\ rewrites' \in 0 .. MaxRewrites
  BY <1>1, <1>2 DEF Ids
<1>6. exp' \in [Clients -> Pages(Indexes)]
  BY <1>1, <1>3
<1>7. \A e \in Clients : exp'[e].pc = "build" <=> lock' = e
  BY <1>1, <1>2, <1>3, SMTT(30)
<1>8. \A e \in Clients : exp'[e].index = Walked(exp'[e].index.head)
  BY <1>2, <1>3
<1>9. commits' = commits /\ index' \in Indexes /\ index' = Walked(index'.head) /\ got' \in [Clients -> Exports]
  BY <1>1, <1>2
<1>10. \A e \in Clients : PageOk(exp'[e], got'[e], head')
  BY <1>1, <1>4
<1> QED BY <1>5, <1>6, <1>7, <1>8, <1>9, <1>10, StepParts

\* A page with two of its fields replaced.
LEMMA PageExcept ==
    ASSUME NEW i, NEW q \in Pages(i), NEW p, NEW ix
    PROVE  [[q EXCEPT !.pc = p] EXCEPT !.index = ix] =
             [pc |-> p, at |-> q.at, after |-> q.after, limit |-> q.limit, index |-> ix, moved |-> q.moved]
<1> DEFINE r == [pc |-> p, at |-> q.at, after |-> q.after, limit |-> q.limit, index |-> q.index, moved |-> q.moved]
<1>1. [q EXCEPT !.pc = p] = r
  BY DEF Pages
<1>2. [r EXCEPT !.index = ix] =
        [pc |-> p, at |-> q.at, after |-> q.after, limit |-> q.limit, index |-> ix, moved |-> q.moved]
  OBVIOUS
<1> HIDE DEF r
<1> QED BY <1>1, <1>2

\* A hit answers from an index of HEAD itself.
LEMMA LookUpStep ==
    ASSUME HistoryAssumption, HistInv, NEW e \in Clients, LookUp(e)
    PROVE  HistInv'
<1> PICK q : q = exp[e]
  OBVIOUS
<1> PICK g : g = got[e]
  OBVIOUS
<1>1. /\ q \in Pages(Indexes) /\ g \in Exports /\ PageOk(q, g, head) /\ q.index = Walked(q.index.head)
      /\ index \in Indexes /\ index = Walked(index.head)
      /\ exp \in [Clients -> Pages(Indexes)] /\ got \in [Clients -> Exports]
      /\ \A f \in Clients : exp[f].pc = "build" <=> lock = f
  BY InvParts
<1>2. /\ q.pc = "index" /\ lock = Nobody
      /\ UNCHANGED <<commits, head, index, got, rewrites>>
  BY DEF LookUp
<1>3. got' = [got EXCEPT ![e] = g]
  BY <1>1, <1>2
<1>4. e # Nobody /\ Nobody \notin Clients
  BY DEF HistoryAssumption
<1>5. CASE index.head = head
  <2> DEFINE r == [pc |-> "answer", at |-> q.at, after |-> q.after, limit |-> q.limit, index |-> index, moved |-> q.moved]
  <2>1. exp' = [exp EXCEPT ![e].pc = "answer", ![e].index = index] /\ lock' = lock
    BY <1>5 DEF LookUp
  <2>2. [[q EXCEPT !.pc = "answer"] EXCEPT !.index = index] = r
    BY <1>1, PageExcept
  <2>3. exp' = [exp EXCEPT ![e] = [[q EXCEPT !.pc = "answer"] EXCEPT !.index = index]]
    BY <1>1, <2>1
  <2>4. exp' = [exp EXCEPT ![e] = r]
    BY <2>2, <2>3
  <2>5. r \in Pages(Indexes) /\ r.index = index
    BY <1>1 DEF Pages
  <2>6. PageOk(r, g, head)
    BY <1>1, <1>2, <1>5 DEF PageOk
  <2>7. \A f \in Clients : exp'[f].pc = "build" <=> lock' = f
    BY <1>1, <1>2, <1>4, <2>1
  <2>8. r.index = Walked(r.index.head)
    BY <1>1
  <2> HIDE DEF r
  <2>9. index' \in Indexes /\ index' = Walked(index'.head) /\ commits' = commits /\ head' = head /\ rewrites' = rewrites
    BY <1>1, <1>2
  <2> QED BY <1>1, <1>3, <2>4, <2>5, <2>6, <2>7, <2>8, <2>9, ClientStep
<1>6. CASE index.head # head
  <2> DEFINE r == [pc |-> "build", at |-> q.at, after |-> q.after, limit |-> q.limit, index |-> q.index, moved |-> q.moved]
  <2>1. exp' = [exp EXCEPT ![e].pc = "build"] /\ lock' = e
    BY <1>6 DEF LookUp
  <2>2. [q EXCEPT !.pc = "build"] = r
    BY <1>1 DEF Pages
  <2>4. exp' = [exp EXCEPT ![e] = r]
    BY <1>1, <2>1, <2>2
  <2>5. r \in Pages(Indexes)
    BY <1>1 DEF Pages
  <2>6. PageOk(r, g, head)
    BY <1>1, <1>2 DEF PageOk
  <2>7. \A f \in Clients : exp'[f].pc = "build" <=> lock' = f
    BY <1>1, <1>2, <1>4, <2>1
  <2>8. r.index = Walked(r.index.head)
    BY <1>1
  <2> HIDE DEF r
  <2>9. index' \in Indexes /\ index' = Walked(index'.head) /\ commits' = commits /\ head' = head /\ rewrites' = rewrites
    BY <1>1, <1>2
  <2> QED BY <1>1, <1>3, <2>4, <2>5, <2>6, <2>7, <2>8, <2>9, ClientStep
<1> QED BY <1>5, <1>6

\* The index built is the walk to HEAD, whatever was known before.
LEMMA BuildStep ==
    ASSUME HistoryAssumption, HistInv, NEW e \in Clients, Build(e)
    PROVE  HistInv'
<1> PICK q : q = exp[e]
  OBVIOUS
<1> PICK g : g = got[e]
  OBVIOUS
<1> PICK ix : ix = Extended(index, head)
  OBVIOUS
<1>1. /\ q \in Pages(Indexes) /\ g \in Exports /\ PageOk(q, g, head) /\ q.index = Walked(q.index.head)
      /\ index \in Indexes /\ index.head \in Ids /\ index = Walked(index.head) /\ head \in Ids
      /\ exp \in [Clients -> Pages(Indexes)] /\ got \in [Clients -> Exports]
      /\ \A f \in Clients : exp[f].pc = "build" <=> lock = f
      /\ LineInv /\ commits \in Seq(Commits)
  BY InvParts
<1>2. /\ q.pc = "build" /\ index' = ix /\ lock' = Nobody
      /\ exp' = [exp EXCEPT ![e].pc = "answer", ![e].index = ix]
      /\ UNCHANGED <<commits, head, got, rewrites>>
  BY DEF Build
<1>3. got' = [got EXCEPT ![e] = g]
  BY <1>1, <1>2
<1>4. Nobody \notin Clients
  BY DEF HistoryAssumption
<1>5. ix = Walked(head)
  BY <1>1, ExtendedLemma
<1>6. ix \in Indexes /\ ix.head = head
  BY <1>1, <1>5, WalkedType DEF Walked
<1> DEFINE r == [pc |-> "answer", at |-> q.at, after |-> q.after, limit |-> q.limit, index |-> ix, moved |-> q.moved]
<1>7. [[q EXCEPT !.pc = "answer"] EXCEPT !.index = ix] = r
  BY <1>1, PageExcept
<1>8. exp' = [exp EXCEPT ![e] = [[q EXCEPT !.pc = "answer"] EXCEPT !.index = ix]]
  BY <1>1, <1>2
<1>9. exp' = [exp EXCEPT ![e] = r]
  BY <1>7, <1>8
<1>10. r \in Pages(Indexes) /\ r.index = Walked(r.index.head)
  BY <1>1, <1>5, <1>6 DEF Pages
<1>11. PageOk(r, g, head)
  BY <1>1, <1>2, <1>6 DEF PageOk
<1>12. \A f \in Clients : exp'[f].pc = "build" <=> lock' = f
  BY <1>1, <1>2, <1>4
<1> HIDE DEF r
<1>13. index' \in Indexes /\ index' = Walked(index'.head) /\ commits' = commits /\ head' = head /\ rewrites' = rewrites
  BY <1>2, <1>5, <1>6
<1> QED BY <1>1, <1>3, <1>9, <1>10, <1>11, <1>12, <1>13, ClientStep

\* No index is the walk of no commit.
LEMMA NoIndexLemma ==
    0 \in Ids => NoIndex \in Indexes /\ NoIndex = Walked(0) /\ NoIndex.head = 0
<1> SUFFICES ASSUME 0 \in Ids PROVE NoIndex \in Indexes /\ NoIndex = Walked(0) /\ NoIndex.head = 0
  OBVIOUS
<1>1. LineOf(0) = {}
  BY DEF LineOf
<1>2. \A k : Changes(0, k) = {}
  BY <1>1 DEF Changes
<1>3. Falling({}) = <<>>
  <2>1. Len(Falling({})) = 0 /\ Falling({}) \in Seq({})
    BY FallingLemma, FS_EmptySet
  <2> DEFINE s == Falling({})
  <2> HIDE DEF s
  <2>2. s = <<>>
    BY <2>1 DEF s
  <2> QED BY <2>2 DEF s
<1>4. NoIndex = Walked(0)
  BY <1>2, <1>3 DEF NoIndex, Walked
<1>5. NoIndex \in Indexes /\ NoIndex.head = 0
  BY DEF NoIndex, Indexes
<1> QED BY <1>4, <1>5

\* A new export keeps the promise: it is the promise's Begin.
LEMMA AskStep ==
    ASSUME HistoryAssumption, HistInv, NEW e \in Clients, NEW limit \in Limits, Ask(e, limit)
    PROVE  HistInv' /\ Promise!Begin(e)
<1>1. PICK c \in DOMAIN commits \union {head} :
         /\ exp' = [exp EXCEPT ![e] = IF c = 0 THEN NoPage ELSE Asked(c, 0, limit)]
         /\ got' = [got EXCEPT ![e] = [at |-> c, rows |-> <<>>, complete |-> (c = 0)]]
  BY DEF Ask
<1>2. exp[e].pc = "idle" /\ UNCHANGED <<commits, head, index, lock, rewrites>>
  BY DEF Ask
<1>3. /\ index \in Indexes /\ index = Walked(index.head) /\ head \in Ids /\ commits \in Seq(Commits)
      /\ exp \in [Clients -> Pages(Indexes)] /\ got \in [Clients -> Exports]
      /\ \A f \in Clients : exp[f].pc = "build" <=> lock = f
  BY InvParts
<1>4. 0 \in Ids /\ c \in Ids /\ (c = 0 \/ c \in DOMAIN commits)
  BY <1>3 DEF Ids
<1>5. NoIndex \in Indexes /\ NoIndex = Walked(0) /\ NoIndex.head = 0
  BY <1>4, NoIndexLemma
<1> DEFINE r == IF c = 0 THEN NoPage ELSE Asked(c, 0, limit)
           g == [at |-> c, rows |-> <<>>, complete |-> (c = 0)]
<1>6. exp' = [exp EXCEPT ![e] = r] /\ got' = [got EXCEPT ![e] = g]
  BY <1>1
<1>7. r \in Pages(Indexes) /\ g \in Exports /\ r.index = Walked(r.index.head)
  BY <1>4, <1>5 DEF Pages, Exports, NoPage, Asked
<1>8. PageOk(r, g, head)
  <2>1. c # 0 => Len(Promise!Listing(c)) \in Nat /\ <<>> = SubSeq(Promise!Listing(c), 1, 0)
    <3>1. Len(Promise!Listing(c)) \in Nat
      BY ListingLemma
    <3> QED BY <3>1
  <2>2. c # 0 => /\ Len(g.rows) <= Len(Promise!Listing(g.at))
                 /\ g.rows = SubSeq(Promise!Listing(g.at), 1, Len(g.rows))
    BY <2>1
  <2>3. /\ r.pc # "failed" /\ r.pc # "answer" /\ r.pc # "refused"
        /\ r.pc # "idle" => c # 0 /\ r.at = c /\ r.after = 0
    BY DEF NoPage, Asked
  <2> QED BY <2>2, <2>3 DEF PageOk
<1>9. \A f \in Clients : exp'[f].pc = "build" <=> lock' = f
  <2>1. r.pc # "build"
    BY DEF NoPage, Asked
  <2> HIDE DEF r
  <2>2. \A f \in Clients : exp'[f] = IF f = e THEN r ELSE exp[f]
    BY <1>3, <1>6
  <2> QED BY <1>2, <1>3, <2>1, <2>2
<1>10. index' \in Indexes /\ index' = Walked(index'.head) /\ commits' = commits /\ head' = head /\ rewrites' = rewrites
  BY <1>2, <1>3
<1>11. HistInv'
  <2> HIDE DEF r, g
  <2> QED BY <1>6, <1>7, <1>8, <1>9, <1>10, ClientStep
<1>12. Promise!Begin(e)
  <2>1. c \in DOMAIN commits \union {0}
    BY <1>4
  <2> QED BY <1>1, <1>2, <2>1 DEF Promise!Begin
<1> QED BY <1>11, <1>12

\* The next page is asked for after the last row of a beginning.
LEMMA AskNextStep ==
    ASSUME HistoryAssumption, HistInv, NEW e \in Clients, NEW limit \in Limits, AskNext(e, limit)
    PROVE  HistInv'
<1> PICK g : g = got[e]
  OBVIOUS
<1>1. /\ exp[e].pc = "idle" /\ g.rows # <<>> /\ ~g.complete
      /\ exp' = [exp EXCEPT ![e] = Asked(g.at, Last(g.rows).key, limit)]
      /\ UNCHANGED <<commits, head, index, lock, got, rewrites>>
  BY DEF AskNext
<1>3. /\ index \in Indexes /\ index = Walked(index.head) /\ head \in Ids /\ commits \in Seq(Commits)
      /\ exp \in [Clients -> Pages(Indexes)] /\ got \in [Clients -> Exports]
      /\ \A f \in Clients : exp[f].pc = "build" <=> lock = f
      /\ g \in Exports /\ PageOk(exp[e], g, head)
  BY InvParts
<1>4. 0 \in Ids /\ g.at \in Ids
  BY <1>3 DEF Ids, Exports
<1>5. NoIndex \in Indexes /\ NoIndex = Walked(0) /\ NoIndex.head = 0
  BY <1>4, NoIndexLemma
<1>6. Last(g.rows).key \in Nat
  <2>1. g.rows \in Seq(Rows) /\ g.rows # <<>>
    BY <1>1, <1>3 DEF Exports
  <2>2. Last(g.rows) \in Rows
    BY <2>1 DEF Last
  <2> QED BY <2>2 DEF Rows, HistoryAssumption
<1> DEFINE r == Asked(g.at, Last(g.rows).key, limit)
<1>7. exp' = [exp EXCEPT ![e] = r] /\ got' = [got EXCEPT ![e] = g]
  BY <1>1, <1>3
<1>8. r \in Pages(Indexes) /\ r.index = Walked(r.index.head)
  BY <1>4, <1>5, <1>6 DEF Pages, Asked
<1>9. PageOk(r, g, head)
  BY <1>1, <1>3 DEF PageOk, Asked
<1>10. \A f \in Clients : exp'[f].pc = "build" <=> lock' = f
  <2>1. r.pc # "build"
    BY DEF Asked
  <2> HIDE DEF r
  <2>2. \A f \in Clients : exp'[f] = IF f = e THEN r ELSE exp[f]
    BY <1>3, <1>7
  <2> QED BY <1>1, <1>3, <2>1, <2>2
<1>11. index' \in Indexes /\ index' = Walked(index'.head) /\ commits' = commits /\ head' = head /\ rewrites' = rewrites
  BY <1>1, <1>3
<1> HIDE DEF r
<1> QED BY <1>3, <1>7, <1>8, <1>9, <1>10, <1>11, ClientStep

\* A client that got an error keeps the rows it has.
LEMMA RetryStep ==
    ASSUME HistoryAssumption, HistInv, NEW e \in Clients, Retry(e)
    PROVE  HistInv'
<1> PICK g : g = got[e]
  OBVIOUS
<1>1. /\ exp[e].pc \in {"refused", "failed"} /\ exp' = [exp EXCEPT ![e] = NoPage]
      /\ UNCHANGED <<commits, head, index, lock, got, rewrites>>
  BY DEF Retry
<1>3. /\ index \in Indexes /\ index = Walked(index.head) /\ head \in Ids /\ commits \in Seq(Commits)
      /\ exp \in [Clients -> Pages(Indexes)] /\ got \in [Clients -> Exports]
      /\ \A f \in Clients : exp[f].pc = "build" <=> lock = f
      /\ g \in Exports /\ PageOk(exp[e], g, head)
  BY InvParts
<1>4. 0 \in Ids
  BY <1>3 DEF Ids
<1>5. NoIndex \in Indexes /\ NoIndex = Walked(0) /\ NoIndex.head = 0
  BY <1>4, NoIndexLemma
<1>7. got' = [got EXCEPT ![e] = g]
  BY <1>1, <1>3
<1>8. NoPage \in Pages(Indexes) /\ NoPage.index = Walked(NoPage.index.head) /\ NoPage.pc = "idle"
  BY <1>4, <1>5 DEF Pages, NoPage
<1>9. PageOk(NoPage, g, head)
  BY <1>3, <1>8 DEF PageOk
<1>10. \A f \in Clients : exp'[f].pc = "build" <=> lock' = f
  <2>2. \A f \in Clients : exp'[f] = IF f = e THEN NoPage ELSE exp[f]
    BY <1>1, <1>3
  <2> QED BY <1>1, <1>3, <1>8, <2>2
<1>11. index' \in Indexes /\ index' = Walked(index'.head) /\ commits' = commits /\ head' = head /\ rewrites' = rewrites
  BY <1>1, <1>3
<1> QED BY <1>1, <1>3, <1>7, <1>8, <1>9, <1>10, <1>11, ClientStep

\* What is left to hand over is counted.
LEMMA RestType ==
    ASSUME HistoryAssumption, NEW q
    PROVE  Len(Rest(q)) \in Nat
<1> DEFINE T == {k \in Keys : k > q.after /\ (k \in LiveIn(q.at) \/ Seen(q, k) # {})}
<1>1. T \in SUBSET Keys /\ T \in SUBSET Nat
  BY DEF HistoryAssumption
<1>2. IsFiniteSet(T)
  BY <1>1, FS_Subset DEF HistoryAssumption
<1>3. Rest(q) = Rising(T)
  BY DEF Rest
<1> HIDE DEF T
<1> QED BY <1>1, <1>2, <1>3, RisingLemma, FS_CardinalityType

\* A page is no longer than what is left.
LEMMA PageSize ==
    ASSUME NEW a \in Nat, NEW b \in Nat
    PROVE  (IF a = 0 THEN b ELSE Min({a, b})) \in 0 .. b
<1>1. {a, b} \in SUBSET Nat /\ IsFiniteSet({a, b}) /\ {a, b} # {}
  <2>1. IsFiniteSet({a, b})
    <3>1. IsFiniteSet({a}) /\ IsFiniteSet({b})
      BY FS_Singleton
    <3>2. {a, b} = {a} \union {b}
      OBVIOUS
    <3> QED BY <3>1, <3>2, FS_Union
  <2> QED BY <2>1
<1>2. Min({a, b}) \in {a, b} /\ \A k \in {a, b} : Min({a, b}) <= k
  BY <1>1, ExtremesLemma
<1> DEFINE m == Min({a, b})
<1> HIDE DEF m
<1>3. m \in Nat /\ m <= b
  BY <1>2 DEF m
<1>4. m \in 0 .. b
  BY <1>3
<1> QED BY <1>4 DEF m

\* A page with its state replaced.
LEMMA PagePc ==
    ASSUME NEW i, NEW q \in Pages(i), NEW p
    PROVE  [q EXCEPT !.pc = p] =
             [pc |-> p, at |-> q.at, after |-> q.after, limit |-> q.limit, index |-> q.index, moved |-> q.moved]
  BY DEF Pages

\* A page handed over continues the listing: it is the promise's HandOver.
LEMMA AnswerStep ==
    ASSUME HistoryAssumption, HistInv, NEW e \in Clients, Answer(e)
    PROVE  HistInv' /\ (got' = got \/ Promise!HandOver(e))
<1> PICK q : q = exp[e]
  OBVIOUS
<1> PICK g : g = got[e]
  OBVIOUS
<1> DEFINE n == IF q.limit = 0 THEN Len(Rest(q)) ELSE Min({q.limit, Len(Rest(q))})
           page == [i \in 1 .. n |-> Row(q, Rest(q)[i])]
           all == Promise!Listing(q.at)
           m == Len(g.rows)
<1>1. /\ q \in Pages(Indexes) /\ g \in Exports /\ PageOk(q, g, head) /\ q.index = Walked(q.index.head)
      /\ q.index.head \in Ids /\ head \in Ids
      /\ index \in Indexes /\ index = Walked(index.head) /\ commits \in Seq(Commits) /\ LineInv
      /\ exp \in [Clients -> Pages(Indexes)] /\ got \in [Clients -> Exports]
      /\ \A f \in Clients : exp[f].pc = "build" <=> lock = f
  BY InvParts
<1>2. q.pc = "answer" /\ UNCHANGED <<commits, head, index, lock, rewrites>>
  BY DEF Answer
<1>3. index' \in Indexes /\ index' = Walked(index'.head) /\ commits' = commits /\ head' = head /\ rewrites' = rewrites
  BY <1>1, <1>2
<1>4. \/ ~Covered(q) /\ exp' = [exp EXCEPT ![e].pc = "refused"] /\ UNCHANGED got
      \/ Covered(q) /\ \E k \in Keys : Contradicted(q, k)
      \/ /\ Covered(q) /\ exp' = [exp EXCEPT ![e] = NoPage]
         /\ got' = [got EXCEPT ![e] = [at |-> g.at, rows |-> g.rows \o page, complete |-> (n = Len(Rest(q)))]]
  BY ZenonT(60) DEF Answer
<1> HIDE DEF n
<1>5. CASE ~Covered(q) /\ exp' = [exp EXCEPT ![e].pc = "refused"] /\ UNCHANGED got
  <2> DEFINE r == [q EXCEPT !.pc = "refused"]
  <2>1. r = [pc |-> "refused", at |-> q.at, after |-> q.after, limit |-> q.limit, index |-> q.index, moved |-> q.moved]
    BY <1>1, PagePc
  <2>2. exp' = [exp EXCEPT ![e] = r] /\ got' = [got EXCEPT ![e] = g]
    BY <1>1, <1>5
  <2> HIDE DEF r
  <2>3. r \in Pages(Indexes) /\ r.index = Walked(r.index.head)
    BY <1>1, <2>1 DEF Pages
  <2>4. PageOk(r, g, head)
    BY <1>1, <1>2, <1>5, <2>1 DEF PageOk, Covered
  <2>5. \A f \in Clients : exp'[f].pc = "build" <=> lock' = f
    <3>1. r.pc = "refused"
      BY <2>1
    <3>2. \A f \in Clients : exp'[f] = IF f = e THEN r ELSE exp[f]
      BY <1>1, <2>2
    <3> QED BY <1>1, <1>2, <3>1, <3>2
  <2>6. HistInv'
    BY <1>1, <1>3, <2>2, <2>3, <2>4, <2>5, ClientStep
  <2> QED BY <2>6, <1>5
<1>6. CASE Covered(q) /\ \E k \in Keys : Contradicted(q, k)
  <2>1. q.at \in LineOf(q.index.head)
    BY <1>6 DEF Covered
  <2>2. \A k \in Keys : ~Contradicted(q, k)
    BY <1>1, <2>1, RowLemma
  <2> QED BY <1>6, <2>2
<1>7. CASE /\ Covered(q) /\ exp' = [exp EXCEPT ![e] = NoPage]
           /\ got' = [got EXCEPT ![e] = [at |-> g.at, rows |-> g.rows \o page, complete |-> (n = Len(Rest(q)))]]
  <2>1. q.at \in LineOf(q.index.head)
    BY <1>7 DEF Covered
  <2>2. /\ q.at = g.at /\ q.at # 0 /\ ~g.complete
        /\ q.after = IF g.rows = <<>> THEN 0 ELSE Last(g.rows).key
        /\ m <= Len(all) /\ g.rows = SubSeq(all, 1, m)
    BY <1>1, <1>2 DEF PageOk
  <2>3. g.rows \in Seq(Rows) /\ m \in Nat
    BY <1>1 DEF Exports
  <2>4. /\ Len(all) \in Nat /\ Len(all) = Cardinality(Promise!Existed(q.at)) /\ DOMAIN all = 1 .. Len(all)
        /\ \A i \in 1 .. Len(all) : all[i] = Promise!Row(q.at, Rising(Promise!Existed(q.at))[i])
    <3>1. /\ Len(all) \in Nat /\ Len(all) = Cardinality(Promise!Existed(q.at))
          /\ all = [i \in 1 .. Cardinality(Promise!Existed(q.at)) |-> Promise!Row(q.at, Rising(Promise!Existed(q.at))[i])]
      BY ListingLemma
    <3> HIDE DEF all
    <3> QED BY <3>1
  <2>5. m \in 0 .. Len(all)
    <3> HIDE DEF m, all
    <3> QED BY <2>2, <2>3, <2>4
  <2>6. q.after = IF m = 0 THEN 0 ELSE Rising(Promise!Existed(q.at))[m]
    <3>1. CASE g.rows = <<>>
      BY <3>1, <2>2
    <3>2. CASE g.rows # <<>>
      <4>1. m # 0
        BY <3>2, <2>3
      <4> HIDE DEF m, all
      <4>2. m \in 1 .. Len(all) /\ m \in Nat
        BY <4>1, <2>4, <2>5
      <4>3. SubSeq(all, 1, m)[m] = all[m]
        BY <4>2, <2>4
      <4>4. Last(g.rows) = g.rows[m]
        BY DEF Last, m
      <4>5. Last(g.rows) = Promise!Row(q.at, Rising(Promise!Existed(q.at))[m])
        BY <4>2, <4>3, <4>4, <2>2, <2>4
      <4>6. Last(g.rows).key = Rising(Promise!Existed(q.at))[m]
        BY <4>5 DEF Promise!Row
      <4> QED BY <4>1, <4>6, <2>2, <3>2
    <3> QED BY <3>1, <3>2
  <2>7. n \in 0 .. Len(Rest(q)) /\ Len(Rest(q)) \in Nat
    <3>1. Len(Rest(q)) \in Nat
      BY RestType
    <3>2. q.limit \in Nat
      <4>1. q \in Pages(Indexes)
        BY <1>1
      <4>2. q.limit \in Limits \union {0}
        BY <4>1 DEF Pages
      <4>3. Limits \subseteq Nat
        BY DEF HistoryAssumption
      <4>4. \A l \in Limits \union {0} : l \in Nat
        BY <4>3
      <4> QED BY <4>2, <4>4
    <3> QED BY <3>1, <3>2, PageSize DEF n
  <2>8. /\ Len(Rest(q)) = Len(all) - m
        /\ m + n \in m .. Len(all)
        /\ g.rows \o page = SubSeq(all, 1, m + n)
        /\ \A i \in 1 .. n : Row(q, Rest(q)[i]) \in Rows
    <3>1. m \in 0 .. Len(Promise!Listing(q.at)) /\ g.rows = SubSeq(Promise!Listing(q.at), 1, m)
      BY <2>2, <2>5
    <3>2. /\ LineInv /\ commits \in Seq(Commits) /\ q.index.head \in Ids
          /\ q.index = Walked(q.index.head) /\ n \in 0 .. Len(Rest(q))
      BY <1>1, <2>7
    <3> PICK j : j = m
      OBVIOUS
    <3>3. j \in 0 .. Len(Promise!Listing(q.at))
      BY <3>1
    <3>4. (j = 0 => q.after = 0) /\ (j # 0 => q.after = Rising(Promise!Existed(q.at))[j])
      BY <2>6
    <3> HIDE DEF m, all, page
    <3>5. /\ Len(Rest(q)) = Len(Promise!Listing(q.at)) - j
          /\ j + n \in j .. Len(Promise!Listing(q.at))
          /\ SubSeq(Promise!Listing(q.at), 1, j) \o [i \in 1 .. n |-> Row(q, Rest(q)[i])]
               = SubSeq(Promise!Listing(q.at), 1, j + n)
          /\ \A i \in 1 .. n : Row(q, Rest(q)[i]) \in
               [key : Keys, state : {"active", "archived", "retracted"},
                text : Texts, version : Ids, versions : Nat]
      BY ONLY HistoryAssumption, <2>1, <3>2, <3>3, <3>4, PageLemma, Zenon
    <3> QED BY <3>1, <3>5 DEF Rows, m, all, page
  <2> DEFINE r == [at |-> g.at, rows |-> g.rows \o page, complete |-> (n = Len(Rest(q)))]
  <2>9. g.rows \o page \in Seq(Rows)
    <3>1. page \in Seq(Rows)
      <4>1. n \in Nat
        BY <2>7
      <4>2. page \in [1 .. n -> Rows]
        BY <2>8
      <4> HIDE DEF page
      <4> QED BY <4>1, <4>2
    <3> HIDE DEF page
    <3> QED BY <2>3, <3>1
  <2>10. r \in Exports
    BY <2>9, <1>1 DEF Exports
  <2>11. Len(g.rows \o page) = m + n /\ m + n \in 0 .. Len(all) /\ m + n \in Nat
    <3> HIDE DEF all, page, m
    <3>1. m + n \in 0 .. Len(all) /\ m + n \in Nat
      BY <2>3, <2>4, <2>5, <2>7, <2>8
    <3> PICK j : j = m + n
      OBVIOUS
    <3>2. SubSeq(all, 1, j) = [i \in 1 .. j |-> all[i]] /\ j \in Nat
      BY <3>1, <2>4
    <3>3. Len(SubSeq(all, 1, j)) = j
      BY <3>2
    <3>4. g.rows \o page = SubSeq(all, 1, j)
      BY <2>8
    <3> QED BY <3>1, <3>3, <3>4
  <2>12. 0 \in Ids
    BY <1>1 DEF Ids
  <2>13. NoIndex \in Indexes /\ NoIndex = Walked(0) /\ NoIndex.head = 0
    BY <2>12, NoIndexLemma
  <2>14. NoPage \in Pages(Indexes) /\ NoPage.index = Walked(NoPage.index.head) /\ NoPage.pc = "idle"
    BY <2>12, <2>13 DEF Pages, NoPage
  <2>15. PageOk(NoPage, r, head)
    <3>1. r.rows = SubSeq(Promise!Listing(r.at), 1, Len(r.rows)) /\ Len(r.rows) <= Len(Promise!Listing(r.at)) /\ r.at # 0
      <4>1. r.at = q.at /\ r.rows = g.rows \o page
        BY <2>2
      <4>2. m + n <= Len(all)
        <5> HIDE DEF all, m
        <5> QED BY <2>11
      <4> HIDE DEF r, page, m
      <4> QED BY <4>1, <4>2, <2>2, <2>8, <2>11
    <3> HIDE DEF r
    <3> QED BY <3>1, <2>14 DEF PageOk
  <2>16. \A f \in Clients : exp'[f].pc = "build" <=> lock' = f
    <3>1. \A f \in Clients : exp'[f] = IF f = e THEN NoPage ELSE exp[f]
      BY <1>1, <1>7
    <3> QED BY <1>1, <1>2, <2>14, <3>1
  <2>17. HistInv'
    <3>1. exp' = [exp EXCEPT ![e] = NoPage] /\ got' = [got EXCEPT ![e] = r]
      BY <1>7
    <3> HIDE DEF r
    <3> QED BY <3>1, <1>1, <1>3, <2>10, <2>14, <2>15, <2>16, ClientStep
  <2>18. Promise!HandOver(e)
    <3>1. n = Len(Rest(q)) <=> m + n = Len(all)
      <4> HIDE DEF m, all
      <4> QED BY <2>3, <2>4, <2>7, <2>8
    <3>2. m + n \in Len(got[e].rows) .. Len(all)
      BY <2>8
    <3>3. got' = [got EXCEPT ![e] = [at |-> got[e].at, rows |-> SubSeq(all, 1, m + n), complete |-> (m + n = Len(all))]]
      <4>1. r = [at |-> got[e].at, rows |-> SubSeq(all, 1, m + n), complete |-> (m + n = Len(all))]
        BY <3>1, <2>8
      <4>2. got' = [got EXCEPT ![e] = r]
        BY <1>7
      <4> HIDE DEF r
      <4> QED BY <4>1, <4>2
    <3>4. got[e].at # 0 /\ ~got[e].complete /\ all = Promise!Listing(got[e].at)
      BY <2>2
    <3> HIDE DEF all, m
    <3> QED BY <3>2, <3>3, <3>4, <1>2 DEF Promise!HandOver
  <2> QED BY <2>17, <2>18
<1> QED BY <1>4, <1>5, <1>6, <1>7

-----------------------------------------------------------------------------
(* What holds of every behaviour *)

\* A step keeps the invariant and is one of the promise, or none there.
LEMMA NextStep ==
    ASSUME HistoryAssumption, HistInv, [Next]_vars
    PROVE  HistInv' /\ [Promise!Next]_<<commits, got>>
<1>1. ASSUME NEW k \in Keys, NEW t \in Texts \union {NoText}, Commit(k, t)
      PROVE  HistInv' /\ [Promise!Next]_<<commits, got>>
  <2>1. HistInv'
    BY <1>1, CommitStep
  <2>2. PICK x : commits' = Append(commits, x) /\ got' = got
    BY <1>1 DEF Commit
  <2>3. commits \in Seq(Commits)
    BY InvParts
  <2>4. Promise!IsPrefix(commits, commits')
    BY <2>2, <2>3 DEF Promise!IsPrefix
  <2>5. Promise!Write
    BY <2>2, <2>4 DEF Promise!Write
  <2> QED BY <2>1, <2>5 DEF Promise!Next
<1>2. ASSUME NEW c \in DOMAIN commits, MoveHead(c)
      PROVE  HistInv' /\ [Promise!Next]_<<commits, got>>
  BY <1>2, MoveStep DEF MoveHead
<1>3. ASSUME NEW e \in Clients, NEW limit \in Limits, Ask(e, limit)
      PROVE  HistInv' /\ [Promise!Next]_<<commits, got>>
  BY <1>3, AskStep DEF Promise!Next
<1>4. ASSUME NEW e \in Clients, NEW limit \in Limits, AskNext(e, limit)
      PROVE  HistInv' /\ [Promise!Next]_<<commits, got>>
  BY <1>4, AskNextStep DEF AskNext
<1>5. ASSUME NEW e \in Clients, LookUp(e)
      PROVE  HistInv' /\ [Promise!Next]_<<commits, got>>
  BY <1>5, LookUpStep DEF LookUp
<1>6. ASSUME NEW e \in Clients, Build(e)
      PROVE  HistInv' /\ [Promise!Next]_<<commits, got>>
  BY <1>6, BuildStep DEF Build
<1>7. ASSUME NEW e \in Clients, Answer(e)
      PROVE  HistInv' /\ [Promise!Next]_<<commits, got>>
  <2>1. HistInv' /\ (got' = got \/ Promise!HandOver(e)) /\ commits' = commits
    BY <1>7, AnswerStep DEF Answer
  <2> QED BY <2>1 DEF Promise!Next
<1>8. ASSUME NEW e \in Clients, Retry(e)
      PROVE  HistInv' /\ [Promise!Next]_<<commits, got>>
  BY <1>8, RetryStep DEF Retry
<1>9. ASSUME UNCHANGED vars
      PROVE  HistInv' /\ [Promise!Next]_<<commits, got>>
  <2>1. /\ commits' = commits /\ head' = head /\ index' = index /\ lock' = lock
        /\ exp' = exp /\ got' = got /\ rewrites' = rewrites
    BY <1>9 DEF vars
  <2>2. HistInv'
    BY <2>1, InvParts, StepParts
  <2> QED BY <2>1, <2>2
<1> QED BY <1>1, <1>2, <1>3, <1>4, <1>5, <1>6, <1>7, <1>8, <1>9 DEF Next

\* The invariant holds of every behaviour.
LEMMA InvHolds == Spec => []HistInv
<1>1. Init => HistInv
  BY InitInv, HistoryAssumption
<1>2. HistInv /\ [Next]_vars => HistInv'
  BY NextStep, HistoryAssumption
<1> QED BY <1>1, <1>2, PTL DEF Spec

\* Every variable keeps its type, and whoever builds the index holds its lock
\* (AppState::history_index).
THEOREM HistoryTyped == Spec => []TypeOK
<1>1. HistInv => TypeOK
  BY DEF HistInv
<1> QED BY <1>1, InvHolds, PTL

\* The cached index, and every copy of it that a request was given, is what a
\* walk from nothing gives, however often it was extended and over whatever
\* HEAD was moved to (Store::history_index).
THEOREM IndexStaysHistory == Spec => []IndexIsHistory
<1>1. HistInv => IndexIsHistory
  <2> SUFFICES ASSUME HistInv, NEW ix, ix = index \/ \E e \in Clients : ix = exp[e].index
               PROVE  ix = Extended(NoIndex, ix.head)
    BY DEF IndexIsHistory
  <2>1. /\ commits \in Seq(Commits) /\ LineInv
        /\ ix = Walked(ix.head) /\ ix.head \in Ids
    BY InvParts
  <2> QED BY <2>1, WalkedLemma
<1> QED BY <1>1, InvHolds, PTL

\* No export fails on a contradiction of index and tree; one is refused only
\* for a HEAD moved by hand (export.rs build).
THEOREM ExportsFailForCause == Spec => []FailsForCause
<1>1. HistInv => FailsForCause
  BY InvParts DEF FailsForCause, PageOk
<1> QED BY <1>1, InvHolds, PTL

\* The diff of the two newest versions shows the last change of a key and
\* nothing older (main.rs diff).
THEOREM DiffStaysTrue == Spec => []DiffTellsTheLastChange
<1>1. HistInv => DiffTellsTheLastChange
  <2> SUFFICES ASSUME HistInv, NEW k \in Keys, DefaultSides(index, k) # <<>>
               PROVE  LET s == DefaultSides(index, k)
                      IN /\ HasSide(index, k, s[1]) /\ HasSide(index, k, s[2])
                         /\ Side(k, s[1]) # Side(k, s[2])
                         /\ Side(k, s[2]).text = TextOf(index.head)[k]
                         /\ \A c \in LineOf(index.head) :
                              Change(c, k) # "none" => c \in {s[1], s[2]} \/ c < s[1]
    BY DEF DiffTellsTheLastChange
  <2> PICK h : h = index.head
    OBVIOUS
  <2> DEFINE C == Changes(h, k)
             v == index.versions[k]
  <2>1. commits \in Seq(Commits) /\ LineInv /\ h \in Ids /\ index = Walked(h)
    BY InvParts
  <2>2. v = Falling(C)
    BY <2>1 DEF Walked
  <2>3. IsFiniteSet(C) /\ C \in SUBSET Nat /\ C \in SUBSET LineOf(h) /\ LineOf(h) \in SUBSET DOMAIN commits
    BY <2>1, ChangesType, LineLemma
  <2> HIDE DEF C
  <2>4. v \in Seq(C) /\ FallingSeq(v) /\ \A c \in C : \E i \in DOMAIN v : v[i] = c
    <3>1. /\ Falling(C) \in Seq(C) /\ Len(Falling(C)) = Cardinality(C) /\ FallingSeq(Falling(C))
          /\ \A c \in C : \E i \in 1 .. Cardinality(C) : Falling(C)[i] = c
      BY <2>3, FallingLemma
    <3> HIDE DEF v
    <3> QED BY <3>1, <2>2
  <2>5. ~(Len(v) < 2) /\ DefaultSides(index, k) = <<v[2], v[1]>>
    BY DEF DefaultSides
  <2> HIDE DEF v
  <2>6. Len(v) \in Nat /\ DOMAIN v = 1 .. Len(v) /\ 1 \in DOMAIN v /\ 2 \in DOMAIN v
    BY <2>4, <2>5
  <2> PICK a, b : a = v[2] /\ b = v[1]
    OBVIOUS
  <2>7. a \in C /\ b \in C /\ a < b /\ a \in Nat /\ b \in Nat
    <3>1. a \in C /\ b \in C
      <4>1. v[1] \in C /\ v[2] \in C
        BY <2>4, <2>6
      <4> QED BY <4>1
    <3>2. a \in Nat /\ b \in Nat
      BY <3>1, <2>3
    <3>3. v[1] > v[2]
      <4>1. 1 \in 1 .. Len(v) /\ 2 \in 1 .. Len(v)
        BY <2>6
      <4> QED BY ONLY <4>1, <2>6, <2>4 DEF FallingSeq
    <3> QED BY <3>1, <3>2, <3>3
  <2>8. \A c \in C : c = b \/ c = a \/ c < a
    <3> SUFFICES ASSUME NEW c \in C PROVE c = b \/ c = a \/ c < a
      OBVIOUS
    <3>1. PICK i \in DOMAIN v : v[i] = c
      BY <2>4
    <3>2. i = 1 \/ i = 2 \/ 2 < i
      BY <2>6
    <3>3. 2 < i => v[2] > v[i]
      BY <2>4, <2>6 DEF FallingSeq
    <3>4. c \in Nat
      BY <2>3
    <3> QED BY <3>1, <3>2, <3>3, <3>4, <2>7
  <2>9. HasSide(index, k, a) /\ HasSide(index, k, b)
    <3>1. a \in Range(v) /\ b \in Range(v)
      BY <2>6 DEF Range
    <3> QED BY <3>1 DEF HasSide, v
  <2>10. \A c : Side(k, c).text = TextOf(c)[k]
    BY DEF Side
  <2>11. Max(C) = b
    <3>1. \A c \in C : c <= b
      <4> SUFFICES ASSUME NEW c \in C PROVE c <= b
        OBVIOUS
      <4>1. c \in Nat /\ (c = b \/ c = a \/ c < a)
        BY <2>3, <2>8
      <4> QED BY <4>1, <2>7
    <3> QED BY <3>1, <2>3, <2>7, MaxIs
  <2>12. TextOf(b)[k] = TextOf(h)[k]
    <3>1. C # {}
      BY <2>7
    <3> QED BY <3>1, <2>1, <2>11, NewestChange DEF C
  <2>13. TextOf(a)[k] # TextOf(b)[k]
    <3> PICK p : p = Parent(b)
      OBVIOUS
    <3>1. TextOf(b)[k] # TextOf(p)[k] /\ b \in LineOf(h) /\ b \in DOMAIN commits
      BY <2>3, <2>7 DEF C, Changes
    <3>2. p \in Ids /\ LineOf(p) = LineOf(b) \ {b}
      BY <2>1, <3>1, ParentLemma DEF Ids
    <3>3. LineOf(b) = {c \in LineOf(h) : c <= b}
      BY <2>1, <3>1, LineLemma
    <3>4. Changes(p, k) = C \ {b}
      <4>1. \A c \in C : c <= b
        BY <2>3, <2>7, <2>8
      <4> QED BY <4>1, <3>2, <3>3 DEF C, Changes
    <3>5. a \in C \ {b} /\ \A c \in C \ {b} : c <= a
      <4>1. a # b
        BY <2>7
      <4>2. \A c \in C : c \in Nat
        BY <2>3
      <4> QED BY <4>1, <4>2, <2>7, <2>8
    <3>6. Max(C \ {b}) = a
      BY <2>3, <3>5, MaxIs
    <3>7. TextOf(p)[k] = TextOf(a)[k]
      <4>1. Changes(p, k) # {} /\ Max(Changes(p, k)) = a
        BY <3>4, <3>5, <3>6
      <4> QED BY <4>1, <2>1, <3>2, NewestChange
    <3> QED BY <3>1, <3>7
  <2>14. \A c \in LineOf(h) : Change(c, k) # "none" => c \in C
    <3> SUFFICES ASSUME NEW c \in LineOf(h), Change(c, k) # "none" PROVE c \in C
      OBVIOUS
    <3>1. c \in DOMAIN commits
      BY <2>3
    <3> QED BY <3>1, <2>1, ChangeLemma DEF C, Changes
  <2>15. <<a, b>>[1] = a /\ <<a, b>>[2] = b
    OBVIOUS
  <2>16. DefaultSides(index, k) = <<a, b>>
    BY <2>5
  <2>17. Side(k, a) # Side(k, b) /\ Side(k, b).text = TextOf(index.head)[k]
    BY <2>10, <2>12, <2>13
  <2>18. \A c \in LineOf(index.head) : Change(c, k) # "none" => c \in {a, b} \/ c < a
    BY <2>8, <2>14
  <2> QED BY <2>9, <2>15, <2>16, <2>17, <2>18
<1> QED BY <1>1, InvHolds, PTL

\* Whatever pages a client gets are the beginning of one listing of one commit
\* (export.rs: "no key is skipped or repeated between pages"): History
\* implements ExportPromise.
THEOREM PagesKeepSnapshot == Spec => KeepsSnapshot
<1>1. Init => Promise!Init
  BY DEF Init, Promise!Init, NoExport, Promise!NoExport
<1>2. HistInv /\ [Next]_vars => [Promise!Next]_<<commits, got>>
  BY NextStep, HistoryAssumption
<1> QED BY <1>1, <1>2, InvHolds, PTL DEF Spec, KeepsSnapshot, Promise!Spec
=============================================================================
