----------------------------- MODULE RankLemmas -----------------------------
(***************************************************************************)
(* The order of a finite set whose elements have different numbers: what   *)
(* the models say with "the oldest row", "the last id" or "the positions   *)
(* in their order".  The rank of an element is the number of elements up   *)
(* to it.  That a first, a last and an n-th element exist follows from the *)
(* cardinalities, without an induction.                                    *)
(***************************************************************************)
EXTENDS Integers, FiniteSets, FiniteSetTheorems, TLAPS

Rank(key, S, x) == Cardinality({y \in S : key[y] <= key[x]})

\* key numbers the elements of a finite set, none like another.
Numbers(key, S) ==
  /\ IsFiniteSet(S)
  /\ \A x \in S : key[x] \in Nat
  /\ \A x, y \in S : key[x] = key[y] => x = y

\* An element counts itself and at most the whole set.
LEMMA RankBounds ==
  ASSUME NEW key, NEW S, Numbers(key, S), NEW x \in S
  PROVE  /\ Rank(key, S, x) \in Nat /\ Rank(key, S, x) >= 1
         /\ Rank(key, S, x) <= Cardinality(S)
         /\ IsFiniteSet({y \in S : key[y] <= key[x]})
<1> DEFINE T == {y \in S : key[y] <= key[x]}
<1>1. T \in SUBSET S /\ x \in T /\ IsFiniteSet(S)
  BY DEF Numbers
<1> HIDE DEF T
<1>2. IsFiniteSet(T) /\ Cardinality(T) <= Cardinality(S)
  BY <1>1, FS_Subset
<1>3. Cardinality(T) \in Nat /\ Cardinality(S) \in Nat /\ Cardinality(T) # 0
  BY <1>1, <1>2, FS_CardinalityType, FS_EmptySet
<1>4. Cardinality(T) \in Nat /\ Cardinality(T) >= 1 /\ Cardinality(T) <= Cardinality(S)
  BY <1>2, <1>3
<1>5. QED
  BY <1>2, <1>4 DEF T, Rank

\* A smaller number has a smaller rank.
LEMMA RankIsMonotone ==
  ASSUME NEW key, NEW S, Numbers(key, S), NEW x \in S, NEW y \in S, key[x] < key[y]
  PROVE  Rank(key, S, x) < Rank(key, S, y)
<1> DEFINE T(z) == {u \in S : key[u] <= key[z]}
<1>1. T(x) \in SUBSET T(y) /\ y \in T(y) /\ y \notin T(x)
  BY DEF Numbers
<1>2. IsFiniteSet(T(y)) /\ IsFiniteSet(T(x))
  BY RankBounds
<1>3. Rank(key, S, x) = Cardinality(T(x)) /\ Rank(key, S, y) = Cardinality(T(y))
  BY DEF Rank
<1> HIDE DEF T
<1>4. /\ Cardinality(T(x)) <= Cardinality(T(y))
      /\ Cardinality(T(y)) = Cardinality(T(x)) => T(y) = T(x)
      /\ Cardinality(T(x)) \in Nat /\ Cardinality(T(y)) \in Nat
  BY <1>1, <1>2, FS_Subset, FS_CardinalityType
<1>5. QED
  BY <1>1, <1>3, <1>4

\* Ranks tell elements apart.
LEMMA RankIsInjective ==
  ASSUME NEW key, NEW S, Numbers(key, S), NEW x \in S, NEW y \in S,
         Rank(key, S, x) = Rank(key, S, y)
  PROVE  x = y
<1>1. key[x] \in Nat /\ key[y] \in Nat /\ (key[x] = key[y] => x = y)
  BY DEF Numbers
<1>2. Rank(key, S, x) \in Nat
  BY RankBounds
<1>3. key[x] < key[y] => Rank(key, S, x) < Rank(key, S, y)
  BY RankIsMonotone
<1>4. key[y] < key[x] => Rank(key, S, y) < Rank(key, S, x)
  BY RankIsMonotone
<1>5. QED
  BY <1>1, <1>2, <1>3, <1>4

\* Every rank is taken.
LEMMA RankIsOnto ==
  ASSUME NEW key, NEW S, Numbers(key, S), NEW n \in 1..Cardinality(S)
  PROVE  \E x \in S : Rank(key, S, x) = n
<1> DEFINE f == [x \in S |-> Rank(key, S, x)]
           N == 1..Cardinality(S)
<1>1. IsFiniteSet(S) /\ Cardinality(S) \in Nat
  BY FS_CardinalityType DEF Numbers
<1>2. IsFiniteSet(N) /\ Cardinality(N) = Cardinality(S)
  BY <1>1, FS_Interval
<1>3. f \in [S -> N]
  <2>1. \A x \in S : Rank(key, S, x) \in Nat /\ Rank(key, S, x) >= 1
                       /\ Rank(key, S, x) <= Cardinality(S)
    BY RankBounds
  <2>2. QED
    BY <1>1, <2>1
<1>4. \A x, y \in S : f[x] = f[y] => x = y
  BY RankIsInjective
<1>5. f \in Injection(S, N)
  BY <1>3, <1>4 DEF Injection, IsInjective
<1> HIDE DEF N, f
<1>6. f \in Surjection(S, N)
  BY <1>2, <1>5, FS_Injection
<1>7. \E x \in S : f[x] = n
  BY <1>6 DEF Surjection, N
<1>8. QED
  BY <1>7 DEF f

\* A set that is not empty has a first element, which ranks first.
LEMMA FirstExists ==
  ASSUME NEW key, NEW S, Numbers(key, S), S # {}
  PROVE  \E x \in S : Rank(key, S, x) = 1 /\ \A y \in S : key[x] <= key[y]
<1>1. 1 \in 1..Cardinality(S)
  <2>1. IsFiniteSet(S)
    BY DEF Numbers
  <2>2. Cardinality(S) \in Nat /\ Cardinality(S) # 0
    BY <2>1, FS_CardinalityType, FS_EmptySet
  <2>3. QED
    BY <2>2
<1>2. PICK x \in S : Rank(key, S, x) = 1
  BY <1>1, RankIsOnto
<1>3. ASSUME NEW y \in S PROVE key[x] <= key[y]
  <2>1. Rank(key, S, y) >= 1 /\ Rank(key, S, y) \in Nat
    BY RankBounds, <1>1
  <2>2. ~(Rank(key, S, y) < Rank(key, S, x))
    BY <1>2, <2>1
  <2>3. key[x] \in Nat /\ key[y] \in Nat
    BY DEF Numbers
  <2>4. key[y] < key[x] => Rank(key, S, y) < Rank(key, S, x)
    BY RankIsMonotone
  <2>5. QED
    BY <2>2, <2>3, <2>4
<1>4. QED
  BY <1>2, <1>3

\* And a last one, whose number is at least the number of elements, if
\* numbers start at one.
LEMMA LastExists ==
  ASSUME NEW key, NEW S, Numbers(key, S), S # {}
  PROVE  \E x \in S : Rank(key, S, x) = Cardinality(S) /\ \A y \in S : key[y] <= key[x]
<1>1. Cardinality(S) \in 1..Cardinality(S) /\ Cardinality(S) \in Nat
  <2>1. IsFiniteSet(S)
    BY DEF Numbers
  <2>2. Cardinality(S) \in Nat /\ Cardinality(S) # 0
    BY <2>1, FS_CardinalityType, FS_EmptySet
  <2>3. QED
    BY <2>2
<1>2. PICK x \in S : Rank(key, S, x) = Cardinality(S)
  BY <1>1, RankIsOnto
<1>3. ASSUME NEW y \in S PROVE key[y] <= key[x]
  <2>1. Rank(key, S, y) <= Cardinality(S) /\ Rank(key, S, y) \in Nat
    BY RankBounds, <1>1
  <2>2. ~(Rank(key, S, x) < Rank(key, S, y))
    BY <1>1, <1>2, <2>1
  <2>3. key[x] \in Nat /\ key[y] \in Nat
    BY DEF Numbers
  <2>4. key[x] < key[y] => Rank(key, S, x) < Rank(key, S, y)
    BY RankIsMonotone
  <2>5. QED
    BY <2>2, <2>3, <2>4
<1>4. QED
  BY <1>2, <1>3

\* Different positive numbers are at least as large as they are many.
LEMMA LastIsLarge ==
  ASSUME NEW key, NEW S, Numbers(key, S), S # {}, \A x \in S : key[x] > 0
  PROVE  \E x \in S : key[x] >= Cardinality(S)
<1>1. PICK x \in S : \A y \in S : key[y] <= key[x]
  BY LastExists
<1> DEFINE f == [y \in S |-> key[y]]
           N == 1..key[x]
<1>2. key[x] \in Nat /\ IsFiniteSet(S)
  BY DEF Numbers
<1>3. f \in [S -> N] /\ \A y, z \in S : f[y] = f[z] => y = z
  BY <1>1 DEF Numbers
<1>4. \A k \in Nat : IsFiniteSet(1..k) /\ Cardinality(1..k) = k
  BY FS_Interval
<1>5. IsFiniteSet(N) /\ Cardinality(N) = key[x]
  BY <1>2, <1>4
<1> HIDE DEF N, f
<1>6. f \in Injection(S, N)
  BY <1>3 DEF Injection, IsInjective
<1>7. Cardinality(S) <= key[x]
  BY <1>5, <1>6, FS_Injection
<1>8. QED
  BY <1>2, <1>7, FS_CardinalityType
=============================================================================
