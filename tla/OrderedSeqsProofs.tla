-------------------------- MODULE OrderedSeqsProofs --------------------------
(***************************************************************************)
(* Facts about the operators of OrderedSeqs, cited by name in the proofs   *)
(* about the modules that use them.                                        *)
(***************************************************************************)
EXTENDS OrderedSeqs, FiniteSetTheorems, SequenceTheorems, WellFoundedInduction, TLAPS

\* Induction on the natural numbers for a set rather than a predicate (the
\* library's theorem takes an operator).
LEMMA SetInduction ==
    ASSUME NEW S, 0 \in S, \A n \in Nat : n \in S => n + 1 \in S
    PROVE  Nat \subseteq S
<1> DEFINE T == Nat \ S
<1>1. SUFFICES ASSUME T # {} PROVE FALSE
  OBVIOUS
<1>2. PICK m \in T : \A k \in T : ~(<<k, m>> \in OpToRel(<, Nat))
  BY <1>1, NatLessThanWellFounded, WFMin
<1>3. \A k \in T : ~(k < m)
  BY <1>2 DEF OpToRel
<1>4. m \in Nat /\ m # 0 /\ m \notin S
  OBVIOUS
<1>5. m - 1 \in Nat /\ m - 1 < m
  BY <1>4
<1>6. m - 1 \in S
  BY <1>3, <1>5
<1>7. (m - 1) + 1 \in S
  BY <1>5, <1>6
<1> QED
  BY <1>4, <1>7

\* A nonempty set of natural numbers has a smallest element.
LEMMA SmallestExists ==
    ASSUME NEW S \in SUBSET Nat, S # {}
    PROVE  \E m \in S : \A n \in S : m <= n
<1>1. PICK m \in S : \A n \in S : ~(<<n, m>> \in OpToRel(<, Nat))
  BY NatLessThanWellFounded, WFMin
<1>2. \A n \in S : ~(n < m)
  BY <1>1 DEF OpToRel
<1> QED
  BY <1>2

\* Whether g lists the values of iterating step from init, up to the n-th.
Iterates(V, n, init, step, g) ==
    /\ g \in [0..n -> V]
    /\ g[0] = init
    /\ \A i \in 1..n : g[i] = step[<<g[i - 1], i>>]

\* A step function can be iterated n times: the sequence of values exists.
\* This is what gives the recursive functions of the models their values.
LEMMA IterationExists ==
    ASSUME NEW V, NEW n \in Nat, NEW init \in V, NEW step \in [V \X (1..n) -> V]
    PROVE  \E g : Iterates(V, n, init, step, g)
<1> DEFINE Upto(m, g) == /\ g \in [0..m -> V]
                         /\ g[0] = init
                         /\ \A i \in 1..m : g[i] = step[<<g[i - 1], i>>]
           S == {m \in Nat : m <= n => \E g : Upto(m, g)}
<1>1. 0 \in S
  <2>1. Upto(0, [i \in 0..0 |-> init])
    OBVIOUS
  <2> QED BY <2>1
<1>2. ASSUME NEW m \in Nat, m \in S PROVE m + 1 \in S
  <2>1. SUFFICES ASSUME m + 1 <= n PROVE \E g : Upto(m + 1, g)
    OBVIOUS
  <2>2. PICK g : Upto(m, g)
    BY <1>2, <2>1
  <2> DEFINE next == step[<<g[m], m + 1>>]
             h == [i \in 0..(m + 1) |-> IF i = m + 1 THEN next ELSE g[i]]
  <2>3. next \in V
    BY <2>1, <2>2
  <2> HIDE DEF next
  <2>4. h \in [0..(m + 1) -> V] /\ h[0] = init
    BY <2>2, <2>3
  <2>5. \A i \in 0..m : h[i] = g[i]
    OBVIOUS
  <2>6. h[m + 1] = next /\ h[m] = g[m]
    BY <2>5
  <2>7. \A i \in 1..(m + 1) : h[i] = step[<<h[i - 1], i>>]
    <3>1. TAKE i \in 1..(m + 1)
    <3>2. CASE i = m + 1
      <4>1. (m + 1) - 1 = m
        OBVIOUS
      <4> QED BY <2>6, <3>2, <4>1 DEF next
    <3>3. CASE i \in 1..m
      BY <2>2, <2>5, <3>3
    <3> QED BY <3>2, <3>3
  <2> QED BY <2>4, <2>7
<1>3. n \in S
  <2> HIDE DEF S
  <2> QED BY <1>1, <1>2, SetInduction
<1> QED
  BY <1>3 DEF Iterates

\* The prefix exists: PrefixLen is in range, lies inside T and cannot be longer.
LEMMA PrefixLenProperties ==
    ASSUME NEW T, NEW n \in Nat
    PROVE  /\ PrefixLen(T, n) \in 0..n
           /\ 1..PrefixLen(T, n) \subseteq T
           /\ PrefixLen(T, n) < n => (PrefixLen(T, n) + 1) \notin T
<1> DEFINE Good(m) == m \in 0..n /\ 1..m \subseteq T /\ (m < n => (m + 1) \notin T)
           S == {m \in Nat : m <= n => 1..m \subseteq T}
<1>1. SUFFICES \E m \in 0..n : Good(m)
  BY DEF PrefixLen
<1>2. SUFFICES ASSUME \A m \in 0..n : ~Good(m) PROVE FALSE
  OBVIOUS
<1>3. 0 \in S
  OBVIOUS
<1>4. ASSUME NEW m \in Nat, m \in S PROVE m + 1 \in S
  <2>1. SUFFICES ASSUME m + 1 <= n PROVE 1..(m + 1) \subseteq T
    OBVIOUS
  <2>2. m \in 0..n /\ m < n /\ 1..m \subseteq T
    BY <1>4, <2>1
  <2>3. m + 1 \in T
    BY <1>2, <2>2
  <2> QED
    BY <2>2, <2>3
<1>5. n \in S
  <2> HIDE DEF S
  <2> QED BY <1>3, <1>4, SetInduction
<1>6. 1..n \subseteq T
  BY <1>5
<1> QED
  BY <1>2, <1>6

\* R, a set of pairs, is a strict total order of K.
StrictOrder(K, R) ==
    /\ \A x \in K : <<x, x>> \notin R
    /\ \A x, y \in K : x # y => <<x, y>> \in R \/ <<y, x>> \in R
    /\ \A x, y, z \in K : <<x, y>> \in R /\ <<y, z>> \in R => <<x, z>> \in R

\* The interval 1..n has n elements.
LEMMA IntervalFinite ==
    ASSUME NEW n \in Nat
    PROVE  IsFiniteSet(1..n) /\ Cardinality(1..n) = n
<1>1. 1 \in Int /\ n \in Int /\ (IF 1 > n THEN 0 ELSE n - 1 + 1) = n
  OBVIOUS
<1> QED
  BY <1>1, FS_Interval

\* How many elements of K are before x.
Rank(K, R, x) == Cardinality({y \in K : <<y, x>> \in R})

\* In a finite, strictly ordered set a later element has a higher rank.
LEMMA RankProperties ==
    ASSUME NEW K, IsFiniteSet(K), NEW R, StrictOrder(K, R)
    PROVE  /\ \A x \in K : Rank(K, R, x) \in 0..(Cardinality(K) - 1)
           /\ \A x, y \in K : <<x, y>> \in R => Rank(K, R, x) < Rank(K, R, y)
           /\ \A x, y \in K : Rank(K, R, x) = Rank(K, R, y) => x = y
<1> DEFINE Below(x) == {y \in K : <<y, x>> \in R}
           n == Cardinality(K)
<1>1. n \in Nat
  BY FS_CardinalityType
<1>2. \A x \in K : Below(x) \in SUBSET K /\ x \notin Below(x)
  BY DEF StrictOrder
<1>3. \A x, y \in K : <<x, y>> \in R => Below(x) \in SUBSET Below(y) /\ x \in Below(y)
  BY DEF StrictOrder
<1>4. \A x \in K : Rank(K, R, x) = Cardinality(Below(x))
  BY DEF Rank
<1> HIDE DEF Below
<1>5. \A x \in K : IsFiniteSet(Below(x)) /\ Cardinality(Below(x)) \in 0..(n - 1)
  <2>1. TAKE x \in K
  <2>2. IsFiniteSet(Below(x)) /\ Cardinality(Below(x)) <= n /\ Cardinality(Below(x)) # n
    BY <1>2, FS_Subset
  <2>3. Cardinality(Below(x)) \in Nat
    BY <2>2, FS_CardinalityType
  <2> QED
    BY <1>1, <2>2, <2>3
<1>6. ASSUME NEW x \in K, NEW y \in K, <<x, y>> \in R
      PROVE  Cardinality(Below(x)) < Cardinality(Below(y))
  <2>1. Below(x) # Below(y) /\ Below(x) \in SUBSET Below(y) /\ IsFiniteSet(Below(y))
    BY <1>2, <1>3, <1>5, <1>6
  <2>2. /\ Cardinality(Below(x)) <= Cardinality(Below(y))
        /\ Cardinality(Below(x)) # Cardinality(Below(y))
    BY <2>1, FS_Subset
  <2>3. Cardinality(Below(x)) \in Nat /\ Cardinality(Below(y)) \in Nat
    BY <1>5
  <2> QED
    BY <2>2, <2>3
<1>7. ASSUME NEW x \in K, NEW y \in K, x # y
      PROVE  Cardinality(Below(x)) # Cardinality(Below(y))
  <2>1. Cardinality(Below(x)) \in Int /\ Cardinality(Below(y)) \in Int
    BY <1>1, <1>5
  <2>2. <<x, y>> \in R \/ <<y, x>> \in R
    BY <1>7 DEF StrictOrder
  <2> QED
    BY <1>6, <2>1, <2>2
<1>8. \A x, y \in K : Cardinality(Below(x)) = Cardinality(Below(y)) => x = y
  BY <1>7
<1> QED
  BY <1>4, <1>5, <1>6, <1>8

\* Every rank below the cardinality of a finite, strictly ordered set is taken.
LEMMA NthProperties ==
    ASSUME NEW K, IsFiniteSet(K), NEW R, StrictOrder(K, R),
           NEW k \in 1..Cardinality(K)
    PROVE  /\ Nth(K, R, k) \in K
           /\ Rank(K, R, Nth(K, R, k)) = k - 1
<1> DEFINE n == Cardinality(K)
           rank == [x \in K |-> Rank(K, R, x) + 1]
<1>1. SUFFICES \E x \in K : Rank(K, R, x) = k - 1
  BY DEF Nth, Rank
<1>2. n \in Nat
  BY FS_CardinalityType
<1>3. /\ \A x \in K : Rank(K, R, x) \in 0..(n - 1)
      /\ \A x, y \in K : Rank(K, R, x) = Rank(K, R, y) => x = y
  BY RankProperties
<1>4. rank \in [K -> 1..n]
  BY <1>2, <1>3
<1>5. ASSUME NEW x \in K, NEW y \in K, rank[x] = rank[y] PROVE x = y
  <2>1. Rank(K, R, x) + 1 = Rank(K, R, y) + 1
    BY <1>5
  <2> QED
    BY <1>2, <1>3, <2>1
<1>6. rank \in Injection(K, 1..n)
  <2> HIDE DEF rank
  <2> QED BY <1>4, <1>5 DEF Injection, IsInjective
<1>7. IsFiniteSet(1..n) /\ Cardinality(1..n) = n
  BY <1>2, IntervalFinite
<1>8. rank \in Surjection(K, 1..n)
  <2> HIDE DEF rank
  <2> QED BY <1>6, <1>7, FS_Injection
<1>9. PICK x \in K : rank[x] = k
  <2> HIDE DEF rank
  <2> QED BY <1>8 DEF Surjection
<1>10. Rank(K, R, x) + 1 = k /\ Rank(K, R, x) \in Nat
  BY <1>2, <1>3, <1>9
<1> QED
  BY <1>10

\* Nth lists the elements in their order, and every one of them.
LEMMA NthOrder ==
    ASSUME NEW K, IsFiniteSet(K), NEW R, StrictOrder(K, R)
    PROVE  /\ \A j, k \in 1..Cardinality(K) :
                  j < k => <<Nth(K, R, j), Nth(K, R, k)>> \in R
           /\ \A x \in K : \E k \in 1..Cardinality(K) : Nth(K, R, k) = x
<1> DEFINE n == Cardinality(K)
<1>1. n \in Nat
  BY FS_CardinalityType
<1>2. /\ \A x \in K : Rank(K, R, x) \in 0..(n - 1)
      /\ \A x, y \in K : <<x, y>> \in R => Rank(K, R, x) < Rank(K, R, y)
      /\ \A x, y \in K : Rank(K, R, x) = Rank(K, R, y) => x = y
  BY RankProperties
<1>3. \A k \in 1..n : Nth(K, R, k) \in K /\ Rank(K, R, Nth(K, R, k)) = k - 1
  BY NthProperties
<1>5. ASSUME NEW j \in 1..n, NEW k \in 1..n, j < k
      PROVE  <<Nth(K, R, j), Nth(K, R, k)>> \in R
  <2> DEFINE x == Nth(K, R, j)
             y == Nth(K, R, k)
  <2>1. x \in K /\ y \in K /\ Rank(K, R, x) = j - 1 /\ Rank(K, R, y) = k - 1
    BY <1>3
  <2> HIDE DEF x, y
  <2>2. x # y /\ <<y, x>> \notin R
    BY <1>1, <1>2, <1>5, <2>1
  <2>3. <<x, y>> \in R
    BY <2>1, <2>2 DEF StrictOrder
  <2> QED BY <2>3 DEF x, y
<1>6. ASSUME NEW x \in K PROVE \E k \in 1..n : Nth(K, R, k) = x
  <2> DEFINE k == Rank(K, R, x) + 1
  <2>1. k \in 1..n
    BY <1>1, <1>2
  <2>2. Rank(K, R, Nth(K, R, k)) = Rank(K, R, x) /\ Nth(K, R, k) \in K
    BY <1>1, <1>2, <1>3, <2>1
  <2> QED
    BY <1>2, <2>1, <2>2
<1> QED
  BY <1>5, <1>6

\* A set of positions of a sequence is finite and no larger than the sequence.
LEMMA DomainFinite ==
    ASSUME NEW T, NEW s \in Seq(T), NEW K \in SUBSET (DOMAIN s)
    PROVE  IsFiniteSet(K) /\ Cardinality(K) \in Nat /\ Cardinality(K) <= Len(s)
<1>1. DOMAIN s = 1..Len(s) /\ Len(s) \in Nat
  OBVIOUS
<1>2. IsFiniteSet(1..Len(s)) /\ Cardinality(1..Len(s)) = Len(s)
  BY IntervalFinite
<1> QED
  BY <1>1, <1>2, FS_Subset, FS_CardinalityType

\* Filter gives a sequence of the same type, not longer, with elements of S only.
LEMMA FilterProperties ==
    ASSUME NEW T, NEW s \in Seq(T), NEW S
    PROVE  /\ Filter(s, S) \in Seq(T)
           /\ Len(Filter(s, S)) <= Len(s)
           /\ Elems(Filter(s, S)) \subseteq S
<1> DEFINE K == {i \in DOMAIN s : s[i] \in S}
           R == {p \in K \X K : p[1] < p[2]}
<1>1. IsFiniteSet(K) /\ Cardinality(K) \in Nat /\ Cardinality(K) <= Len(s)
  BY DomainFinite
<1>2. K \subseteq Nat
  OBVIOUS
<1>3. StrictOrder(K, R)
  BY <1>2 DEF StrictOrder
<1>4. \A k \in 1..Cardinality(K) : Nth(K, R, k) \in K
  <2> HIDE DEF K, R
  <2> QED BY <1>1, <1>3, NthProperties
<1>5. Filter(s, S) = [k \in 1..Cardinality(K) |-> s[Nth(K, R, k)]]
  BY DEF Filter
<1>6. \A k \in 1..Cardinality(K) : s[Nth(K, R, k)] \in T \cap S
  BY <1>4
<1> HIDE DEF K, R
<1>7. Filter(s, S) \in [1..Cardinality(K) -> T]
  BY <1>5, <1>6
<1>8. Filter(s, S) \in Seq(T) /\ Len(Filter(s, S)) = Cardinality(K)
  BY <1>1, <1>7
<1> QED
  BY <1>1, <1>5, <1>6, <1>8 DEF Elems

\* Filter keeps the order: its elements are those of s at increasing positions,
\* which are all the positions of elements of S.
LEMMA FilterPositions ==
    ASSUME NEW T, NEW s \in Seq(T), NEW S
    PROVE  \E pos \in [DOMAIN Filter(s, S) -> {i \in DOMAIN s : s[i] \in S}] :
               /\ \A k \in DOMAIN Filter(s, S) : Filter(s, S)[k] = s[pos[k]]
               /\ \A j, k \in DOMAIN Filter(s, S) : j < k => pos[j] < pos[k]
               /\ \A i \in DOMAIN s : s[i] \in S =>
                      \E k \in DOMAIN Filter(s, S) : pos[k] = i
<1> DEFINE K == {i \in DOMAIN s : s[i] \in S}
           R == {p \in K \X K : p[1] < p[2]}
           n == Cardinality(K)
           pos == [k \in 1..n |-> Nth(K, R, k)]
<1>1. IsFiniteSet(K) /\ n \in Nat
  BY DomainFinite
<1>2. K \subseteq Nat
  OBVIOUS
<1>3. StrictOrder(K, R)
  BY <1>2 DEF StrictOrder
<1>4. Filter(s, S) = [k \in 1..n |-> s[Nth(K, R, k)]]
  BY DEF Filter
<1>5. \A x, y \in K : <<x, y>> \in R => x < y
  OBVIOUS
<1>6. \A i \in DOMAIN s : s[i] \in S => i \in K
  OBVIOUS
<1> HIDE DEF K, R, n
<1>7. \A k \in 1..n : Nth(K, R, k) \in K
  BY <1>1, <1>3, NthProperties DEF n
<1>8. /\ \A j, k \in 1..n : j < k => <<Nth(K, R, j), Nth(K, R, k)>> \in R
      /\ \A x \in K : \E k \in 1..n : Nth(K, R, k) = x
  BY <1>1, <1>3, NthOrder DEF n
<1>9. pos \in [DOMAIN Filter(s, S) -> K] /\ DOMAIN Filter(s, S) = 1..n
  BY <1>4, <1>7
<1>10. /\ \A k \in DOMAIN Filter(s, S) : Filter(s, S)[k] = s[pos[k]]
       /\ \A j, k \in DOMAIN Filter(s, S) : j < k => pos[j] < pos[k]
       /\ \A i \in DOMAIN s : s[i] \in S => \E k \in DOMAIN Filter(s, S) : pos[k] = i
  BY <1>4, <1>5, <1>6, <1>7, <1>8, <1>9
<1> HIDE DEF pos
<1>11. pos \in [DOMAIN Filter(s, S) -> {i \in DOMAIN s : s[i] \in S}]
  BY <1>9 DEF K
<1> QED
  BY <1>10, <1>11

\* The elements of Filter are those of s in S.
LEMMA FilterElems ==
    ASSUME NEW T, NEW s \in Seq(T), NEW S
    PROVE  Elems(Filter(s, S)) = Elems(s) \cap S
<1>1. PICK pos \in [DOMAIN Filter(s, S) -> {i \in DOMAIN s : s[i] \in S}] :
          /\ \A k \in DOMAIN Filter(s, S) : Filter(s, S)[k] = s[pos[k]]
          /\ \A i \in DOMAIN s : s[i] \in S => \E k \in DOMAIN Filter(s, S) : pos[k] = i
  BY FilterPositions
<1>2. \A k \in DOMAIN Filter(s, S) : Filter(s, S)[k] \in Elems(s) \cap S
  BY <1>1 DEF Elems
<1>3. \A i \in DOMAIN s : s[i] \in S => \E k \in DOMAIN Filter(s, S) : Filter(s, S)[k] = s[i]
  BY <1>1
<1> QED
  BY <1>2, <1>3 DEF Elems

\* Sorting keeps the type and the length of a sequence.
LEMMA StableSortType ==
    ASSUME NEW T, NEW s \in Seq(T), NEW key \in [DOMAIN s -> Int]
    PROVE  StableSort(s, key) \in Seq(T) /\ Len(StableSort(s, key)) = Len(s)
<1> DEFINE K == DOMAIN s
           R == {p \in K \X K : \/ key[p[1]] < key[p[2]]
                                \/ key[p[1]] = key[p[2]] /\ p[1] < p[2]}
<1>1. K = 1..Len(s) /\ Len(s) \in Nat
  OBVIOUS
<1>2. IsFiniteSet(K) /\ Cardinality(K) = Len(s)
  BY <1>1, IntervalFinite
<1>3. StrictOrder(K, R)
  BY <1>1 DEF StrictOrder
<1>4. \A k \in K : Nth(K, R, k) \in K
  <2> HIDE DEF K, R
  <2> QED BY <1>1, <1>2, <1>3, NthProperties
<1>5. StableSort(s, key) = [k \in K |-> s[Nth(K, R, k)]]
  BY DEF StableSort
<1>6. StableSort(s, key) \in [1..Len(s) -> T]
  <2>1. \A k \in K : s[Nth(K, R, k)] \in T
    BY <1>4
  <2> HIDE DEF R
  <2> QED BY <1>1, <1>5, <2>1
<1> QED
  BY <1>1, <1>6

\* The permutation pos of the positions of s sorts s by key, equal keys keeping
\* their order.
SortsBy(s, key, pos) ==
    /\ pos \in [DOMAIN s -> DOMAIN s]
    /\ \A k \in DOMAIN s : StableSort(s, key)[k] = s[pos[k]]
    /\ \A j, k \in DOMAIN s :
           j < k => \/ key[pos[j]] < key[pos[k]]
                    \/ key[pos[j]] = key[pos[k]] /\ pos[j] < pos[k]
    /\ \A i \in DOMAIN s : \E k \in DOMAIN s : pos[k] = i

\* A sorted sequence is a rearrangement of the sequence by such positions.
LEMMA StableSortPositions ==
    ASSUME NEW T, NEW s \in Seq(T), NEW key \in [DOMAIN s -> Int]
    PROVE  \E pos : SortsBy(s, key, pos)
<1> DEFINE K == DOMAIN s
           R == {p \in K \X K : \/ key[p[1]] < key[p[2]]
                                \/ key[p[1]] = key[p[2]] /\ p[1] < p[2]}
           pos == [k \in K |-> Nth(K, R, k)]
<1>1. K = 1..Len(s) /\ Len(s) \in Nat
  OBVIOUS
<1>2. IsFiniteSet(K) /\ Cardinality(K) = Len(s)
  BY <1>1, IntervalFinite
<1>3. StrictOrder(K, R)
  BY <1>1 DEF StrictOrder
<1>4. StableSort(s, key) = [k \in K |-> s[Nth(K, R, k)]]
  BY DEF StableSort
<1>5. ASSUME NEW x \in K, NEW y \in K, <<x, y>> \in R
      PROVE  \/ key[x] < key[y]
             \/ key[x] = key[y] /\ x < y
  BY <1>5
<1> HIDE DEF K, R
<1>6. \A k \in K : Nth(K, R, k) \in K
  BY <1>1, <1>2, <1>3, NthProperties
<1>7. /\ \A j, k \in K : j < k => <<Nth(K, R, j), Nth(K, R, k)>> \in R
      /\ \A x \in K : \E k \in K : Nth(K, R, k) = x
  <2>1. 1..Cardinality(K) = K
    BY <1>1, <1>2
  <2>2. /\ \A j, k \in 1..Cardinality(K) :
               j < k => <<Nth(K, R, j), Nth(K, R, k)>> \in R
        /\ \A x \in K : \E k \in 1..Cardinality(K) : Nth(K, R, k) = x
    BY <1>2, <1>3, NthOrder
  <2> QED BY <2>1, <2>2
<1>8. pos \in [K -> K] /\ \A k \in K : StableSort(s, key)[k] = s[pos[k]]
  BY <1>4, <1>6
<1>9. \A j, k \in K :
          j < k => \/ key[pos[j]] < key[pos[k]]
                   \/ key[pos[j]] = key[pos[k]] /\ pos[j] < pos[k]
  BY <1>5, <1>6, <1>7
<1>10. \A i \in K : \E k \in K : pos[k] = i
  BY <1>7
<1> HIDE DEF pos
<1> QED
  BY <1>8, <1>9, <1>10 DEF K, SortsBy

\* Dropping a prefix keeps the type of a sequence.
LEMMA DropFirstType ==
    ASSUME NEW T, NEW s \in Seq(T), NEW n \in 0..Len(s)
    PROVE  DropFirst(s, n) \in Seq(T)
BY DEF DropFirst

\* The elements of a prefix and of the rest.
LEMMA PrefixElems ==
    ASSUME NEW T, NEW s \in Seq(T), NEW n \in 0..Len(s)
    PROVE  /\ SubSeq(s, 1, n) \in Seq(T) /\ DOMAIN SubSeq(s, 1, n) = 1..n
           /\ \A i \in 1..n : SubSeq(s, 1, n)[i] = s[i]
           /\ Elems(SubSeq(s, 1, n)) = {s[i] : i \in 1..n}
           /\ DropFirst(s, n) \in Seq(T) /\ DOMAIN DropFirst(s, n) = 1..(Len(s) - n)
           /\ \A i \in 1..(Len(s) - n) : DropFirst(s, n)[i] = s[n + i]
           /\ Elems(DropFirst(s, n)) = {s[i] : i \in (n + 1)..Len(s)}
<1> DEFINE p == SubSeq(s, 1, n)
           d == DropFirst(s, n)
<1>1. Len(s) \in Nat /\ n \in Nat
  OBVIOUS
<1>2. p \in Seq(T) /\ DOMAIN p = 1..n /\ \A i \in 1..n : p[i] = s[i]
  BY <1>1
<1>3. /\ d \in Seq(T) /\ DOMAIN d = 1..(Len(s) - n)
      /\ \A i \in 1..(Len(s) - n) : d[i] = s[n + i]
  BY <1>1 DEF DropFirst
<1> HIDE DEF p, d
<1>4. Elems(p) = {s[i] : i \in 1..n}
  BY <1>2 DEF Elems
<1>5. ASSUME NEW x \in Elems(d) PROVE x \in {s[i] : i \in (n + 1)..Len(s)}
  <2>1. PICK i \in 1..(Len(s) - n) : x = s[n + i]
    BY <1>3, <1>5 DEF Elems
  <2> QED BY <1>1, <2>1
<1>6. ASSUME NEW j \in (n + 1)..Len(s) PROVE s[j] \in Elems(d)
  <2>1. j - n \in 1..(Len(s) - n) /\ n + (j - n) = j
    BY <1>1
  <2> QED BY <1>3, <2>1 DEF Elems
<1> QED
  BY <1>2, <1>3, <1>4, <1>5, <1>6 DEF p, d

\* Removing one position keeps the type of a sequence.
LEMMA RemoveIndexType ==
    ASSUME NEW T, NEW s \in Seq(T), NEW i \in DOMAIN s
    PROVE  RemoveIndex(s, i) \in Seq(T)
BY DEF RemoveIndex

\* What is left when one position is removed.
LEMMA RemoveIndexElems ==
    ASSUME NEW T, NEW s \in Seq(T), NEW i \in DOMAIN s
    PROVE  /\ Elems(RemoveIndex(s, i)) \subseteq Elems(s)
           /\ Elems(s) \subseteq Elems(RemoveIndex(s, i)) \cup {s[i]}
<1> DEFINE r == RemoveIndex(s, i)
<1>1. /\ Len(s) \in Nat /\ i \in 1..Len(s) /\ DOMAIN s = 1..Len(s)
      /\ r \in Seq(T) /\ Len(r) = Len(s) - 1 /\ DOMAIN r = 1..(Len(s) - 1)
      /\ \A k \in 1..(Len(s) - 1) : r[k] = IF k < i THEN s[k] ELSE s[k + 1]
  <2> DEFINE before == SubSeq(s, 1, i - 1)
             after == SubSeq(s, i + 1, Len(s))
  <2>1. Len(s) \in Nat /\ i \in 1..Len(s) /\ DOMAIN s = 1..Len(s)
    OBVIOUS
  <2>2. /\ before \in Seq(T) /\ Len(before) = i - 1
        /\ \A k \in 1..(i - 1) : before[k] = s[k]
    BY <2>1
  <2>3. /\ after \in Seq(T) /\ Len(after) = Len(s) - i
        /\ \A k \in 1..(Len(s) - i) : after[k] = s[i + k]
    BY <2>1
  <2>4. r = before \o after
    BY DEF RemoveIndex
  <2> HIDE DEF before, after, r
  <2>5. /\ r \in Seq(T) /\ Len(r) = Len(before) + Len(after)
        /\ \A k \in 1..(Len(before) + Len(after)) :
               r[k] = IF k <= Len(before) THEN before[k] ELSE after[k - Len(before)]
    BY <2>2, <2>3, <2>4, ConcatProperties
  <2>8. /\ Len(r) = Len(s) - 1 /\ DOMAIN r = 1..(Len(s) - 1)
        /\ \A k \in 1..(i - 1) : r[k] = before[k]
        /\ \A k \in i..(Len(s) - 1) : r[k] = after[k - (i - 1)]
    <3>1. Len(r) = Len(s) - 1 /\ Len(before) = i - 1 /\ Len(before) + Len(after) = Len(s) - 1
      BY <2>1, <2>2, <2>3, <2>5
    <3>2. DOMAIN r = 1..Len(r)
      BY <2>5
    <3>3. ASSUME NEW k \in 1..(i - 1) PROVE r[k] = before[k]
      BY <2>1, <2>5, <3>1
    <3>4. ASSUME NEW k \in i..(Len(s) - 1) PROVE r[k] = after[k - (i - 1)]
      BY <2>1, <2>5, <3>1
    <3> QED BY <3>1, <3>2, <3>3, <3>4
  <2>6. \A k \in i..(Len(s) - 1) :
            k - (i - 1) \in 1..(Len(s) - i) /\ i + (k - (i - 1)) = k + 1
    BY <2>1
  <2>7. \A k \in 1..(Len(s) - 1) :
            IF k < i THEN k \in 1..(i - 1) ELSE k \in i..(Len(s) - 1)
    BY <2>1
  <2>9. ASSUME NEW k \in 1..(Len(s) - 1) PROVE r[k] = IF k < i THEN s[k] ELSE s[k + 1]
    <3>1. CASE k < i
      BY <2>2, <2>7, <2>8, <3>1
    <3>2. CASE ~(k < i)
      <4>1. k \in i..(Len(s) - 1) /\ r[k] = after[k - (i - 1)]
        BY <2>7, <2>8, <3>2
      <4>2. after[k - (i - 1)] = s[k + 1]
        BY <2>3, <2>6, <4>1
      <4> QED BY <3>2, <4>1, <4>2
    <3> QED BY <3>1, <3>2
  <2> QED BY <2>1, <2>5, <2>8, <2>9
<1> HIDE DEF r
<1>2. \A k \in DOMAIN r : \E m \in DOMAIN s : r[k] = s[m]
  BY <1>1
<1>3. ASSUME NEW m \in DOMAIN s, m # i PROVE \E k \in DOMAIN r : r[k] = s[m]
  <2>1. CASE m < i
    BY <1>1, <2>1
  <2>2. CASE m > i
    <3>1. m - 1 \in 1..(Len(s) - 1) /\ ~(m - 1 < i) /\ (m - 1) + 1 = m
      BY <1>1, <2>2
    <3> QED BY <1>1, <3>1
  <2> QED BY <1>1, <1>3, <2>1, <2>2
<1> QED
  BY <1>2, <1>3 DEF Elems, r

\* What is in a sequence after an element is appended.
LEMMA AppendElems ==
    ASSUME NEW T, NEW s \in Seq(T), NEW x \in T
    PROVE  Append(s, x) \in Seq(T) /\ Elems(Append(s, x)) = Elems(s) \cup {x}
<1>1. /\ Append(s, x) \in Seq(T)
      /\ DOMAIN Append(s, x) = 1..(Len(s) + 1) /\ DOMAIN s = 1..Len(s) /\ Len(s) \in Nat
      /\ \A k \in DOMAIN s : Append(s, x)[k] = s[k]
      /\ Append(s, x)[Len(s) + 1] = x
  OBVIOUS
<1>2. \A k \in DOMAIN Append(s, x) : k \in DOMAIN s \/ k = Len(s) + 1
  BY <1>1
<1>3. Len(s) + 1 \in DOMAIN Append(s, x) /\ DOMAIN s \subseteq DOMAIN Append(s, x)
  BY <1>1
<1> QED
  BY <1>1, <1>2, <1>3 DEF Elems

\* What is in the concatenation of two sequences.
LEMMA ConcatElems ==
    ASSUME NEW T, NEW s \in Seq(T), NEW t \in Seq(T)
    PROVE  s \o t \in Seq(T) /\ Elems(s \o t) = Elems(s) \cup Elems(t)
<1>1. /\ s \o t \in Seq(T) /\ Len(s) \in Nat /\ Len(t) \in Nat
      /\ DOMAIN (s \o t) = 1..(Len(s) + Len(t))
      /\ DOMAIN s = 1..Len(s) /\ DOMAIN t = 1..Len(t)
      /\ \A k \in 1..Len(s) : (s \o t)[k] = s[k]
      /\ \A k \in 1..Len(t) : (s \o t)[Len(s) + k] = t[k]
  OBVIOUS
<1>2. ASSUME NEW k \in DOMAIN (s \o t) PROVE (s \o t)[k] \in Elems(s) \cup Elems(t)
  <2>1. CASE k \in 1..Len(s)
    BY <1>1, <2>1 DEF Elems
  <2>2. CASE k > Len(s)
    <3>1. k - Len(s) \in 1..Len(t) /\ Len(s) + (k - Len(s)) = k
      BY <1>1, <1>2, <2>2
    <3>2. (s \o t)[k] = t[k - Len(s)]
      BY <1>1, <3>1
    <3> QED BY <1>1, <3>1, <3>2 DEF Elems
  <2> QED BY <1>1, <1>2, <2>1, <2>2
<1>3. \A k \in DOMAIN s : k \in DOMAIN (s \o t) /\ (s \o t)[k] = s[k]
  BY <1>1
<1>4. \A k \in DOMAIN t : Len(s) + k \in DOMAIN (s \o t) /\ (s \o t)[Len(s) + k] = t[k]
  BY <1>1
<1>5. Elems(s) \subseteq Elems(s \o t) /\ Elems(t) \subseteq Elems(s \o t)
  BY <1>3, <1>4 DEF Elems
<1>6. Elems(s \o t) \subseteq Elems(s) \cup Elems(t)
  BY <1>2 DEF Elems
<1> QED
  BY <1>1, <1>5, <1>6

\* PositionOf gives a position at which the element is.
LEMMA PositionOfProperties ==
    ASSUME NEW T, NEW s \in Seq(T), NEW x \in Elems(s)
    PROVE  PositionOf(x, s) \in DOMAIN s /\ s[PositionOf(x, s)] = x
BY DEF PositionOf, Elems

\* The elements of a sequence over T are in T.
LEMMA ElemsType ==
    ASSUME NEW T, NEW s \in Seq(T)
    PROVE  Elems(s) \subseteq T
BY DEF Elems

\* Filter repeats nothing that is not repeated already.
LEMMA FilterInjective ==
    ASSUME NEW T, NEW s \in Seq(T), NEW S, Injective(s)
    PROVE  Injective(Filter(s, S))
<1> DEFINE f == Filter(s, S)
<1>1. PICK pos \in [DOMAIN f -> {i \in DOMAIN s : s[i] \in S}] :
          /\ \A k \in DOMAIN f : f[k] = s[pos[k]]
          /\ \A j, k \in DOMAIN f : j < k => pos[j] < pos[k]
  BY FilterPositions
<1>2. f \in Seq(T)
  BY FilterProperties
<1>3. \A k \in DOMAIN f : k \in Int
  BY <1>2
<1> HIDE DEF f
<1>4. SUFFICES ASSUME NEW j \in DOMAIN f, NEW k \in DOMAIN f, f[j] = f[k] PROVE j = k
  BY DEF Injective, f
<1>5. pos[j] \in DOMAIN s /\ pos[k] \in DOMAIN s /\ s[pos[j]] = s[pos[k]]
  BY <1>1, <1>4
<1>6. pos[j] = pos[k]
  BY <1>5 DEF Injective
<1>7. pos[j] \in Int
  BY <1>5
<1>8. ~(j < k) /\ ~(k < j)
  BY <1>1, <1>4, <1>6, <1>7
<1> QED
  BY <1>3, <1>4, <1>8

\* The prefix and the rest of a sequence without repetition have nothing in common.
LEMMA PrefixInjective ==
    ASSUME NEW T, NEW s \in Seq(T), NEW n \in 0..Len(s), Injective(s)
    PROVE  /\ Injective(SubSeq(s, 1, n)) /\ Injective(DropFirst(s, n))
           /\ {s[i] : i \in 1..n} \cap Elems(DropFirst(s, n)) = {}
<1> DEFINE p == SubSeq(s, 1, n)
           d == DropFirst(s, n)
<1>1. /\ DOMAIN p = 1..n /\ \A i \in 1..n : p[i] = s[i]
      /\ DOMAIN d = 1..(Len(s) - n) /\ \A i \in 1..(Len(s) - n) : d[i] = s[n + i]
      /\ Elems(d) = {s[i] : i \in (n + 1)..Len(s)}
  BY PrefixElems
<1>2. DOMAIN s = 1..Len(s) /\ Len(s) \in Nat /\ n \in Nat /\ n <= Len(s)
  OBVIOUS
<1> HIDE DEF p, d
<1>3. Injective(p)
  BY <1>1, <1>2 DEF Injective
<1>4. Injective(d)
  <2>1. SUFFICES ASSUME NEW i \in DOMAIN d, NEW j \in DOMAIN d, d[i] = d[j] PROVE i = j
    BY DEF Injective
  <2>2. n + i \in DOMAIN s /\ n + j \in DOMAIN s /\ s[n + i] = s[n + j]
    BY <1>1, <1>2, <2>1
  <2>3. n + i = n + j
    BY <2>2 DEF Injective
  <2> QED BY <1>1, <1>2, <2>3
<1>5. {s[i] : i \in 1..n} \cap Elems(d) = {}
  <2>1. SUFFICES ASSUME NEW i \in 1..n, NEW j \in (n + 1)..Len(s), s[i] = s[j] PROVE FALSE
    BY <1>1
  <2> QED BY <1>2, <2>1 DEF Injective
<1> QED
  BY <1>3, <1>4, <1>5 DEF p, d

\* One sequence without repetition after another that has nothing in common with it.
LEMMA ConcatInjective ==
    ASSUME NEW T, NEW s \in Seq(T), NEW t \in Seq(T), Injective(s), Injective(t),
           Elems(s) \cap Elems(t) = {}
    PROVE  Injective(s \o t)
<1> DEFINE st == s \o t
<1>1. /\ Len(s) \in Nat /\ Len(t) \in Nat /\ DOMAIN st = 1..(Len(s) + Len(t))
      /\ DOMAIN s = 1..Len(s) /\ DOMAIN t = 1..Len(t)
      /\ \A k \in 1..Len(s) : st[k] = s[k]
      /\ \A k \in 1..Len(t) : st[Len(s) + k] = t[k]
  OBVIOUS
<1> HIDE DEF st
<1>2. \A k \in DOMAIN st : k \in DOMAIN s \/ (k - Len(s) \in DOMAIN t /\ k = Len(s) + (k - Len(s)))
  BY <1>1
<1>3. SUFFICES ASSUME NEW i \in DOMAIN st, NEW j \in DOMAIN st, st[i] = st[j] PROVE i = j
  BY DEF Injective, st
<1>4. \A k \in DOMAIN s : st[k] \in Elems(s) /\ st[k] = s[k]
  BY <1>1 DEF Elems
<1>5. \A k \in DOMAIN t : st[Len(s) + k] \in Elems(t) /\ st[Len(s) + k] = t[k]
  BY <1>1 DEF Elems
<1>6. CASE i \in DOMAIN s /\ j \in DOMAIN s
  BY <1>3, <1>4, <1>6 DEF Injective
<1>7. CASE i - Len(s) \in DOMAIN t /\ j - Len(s) \in DOMAIN t
  <2>1. t[i - Len(s)] = t[j - Len(s)]
    BY <1>1, <1>3, <1>5, <1>7
  <2>2. i - Len(s) = j - Len(s)
    BY <1>7, <2>1 DEF Injective
  <2> QED BY <1>1, <1>3, <2>2
<1>8. \A k, m : (k \in DOMAIN s /\ m \in DOMAIN t) => st[k] # st[Len(s) + m]
  BY <1>4, <1>5
<1>9. ASSUME NEW k \in DOMAIN st, NEW m \in DOMAIN st, st[k] = st[m],
             k \in DOMAIN s, m - Len(s) \in DOMAIN t
      PROVE  FALSE
  <2>1. m = Len(s) + (m - Len(s))
    BY <1>1, <1>9
  <2> DEFINE x == m - Len(s)
  <2>2. x \in DOMAIN t /\ st[m] = st[Len(s) + x]
    BY <1>9, <2>1
  <2> HIDE DEF x
  <2> QED BY <1>8, <1>9, <2>2
<1> QED
  BY <1>2, <1>3, <1>6, <1>7, <1>9

\* How many values a function that repeats none has on a finite set.
LEMMA ImageCardinality ==
    ASSUME NEW D, IsFiniteSet(D), NEW f, \A i, j \in D : f[i] = f[j] => i = j
    PROVE  Cardinality({f[i] : i \in D}) = Cardinality(D)
<1> DEFINE T == {f[i] : i \in D}
           g == [i \in D |-> f[i]]
<1>1. g \in [D -> T] /\ (\A i, j \in D : g[i] = g[j] => i = j)
      /\ (\A t \in T : \E i \in D : g[i] = t)
  OBVIOUS
<1>2. g \in Bijection(D, T)
  <2> HIDE DEF g, T
  <2> QED BY <1>1 DEF Bijection, Injection, Surjection, IsInjective
<1>3. ExistsBijection(D, T)
  BY <1>2 DEF ExistsBijection
<1> HIDE DEF T
<1> QED
  BY <1>3, FS_Bijection DEF T

\* Removing one position from a sequence without repetition removes the element.
LEMMA RemoveIndexInjective ==
    ASSUME NEW T, NEW s \in Seq(T), NEW i \in DOMAIN s, Injective(s)
    PROVE  Injective(RemoveIndex(s, i)) /\ Elems(RemoveIndex(s, i)) = Elems(s) \ {s[i]}
<1> DEFINE before == SubSeq(s, 1, i - 1)
           after == DropFirst(s, i)
           r == RemoveIndex(s, i)
<1>1. Len(s) \in Nat /\ i \in 1..Len(s) /\ DOMAIN s = 1..Len(s)
      /\ i - 1 \in 0..Len(s) /\ i \in 0..Len(s)
  OBVIOUS
<1>0. \A n \in 0..Len(s) :
          /\ SubSeq(s, 1, n) \in Seq(T) /\ Elems(SubSeq(s, 1, n)) = {s[k] : k \in 1..n}
          /\ DropFirst(s, n) \in Seq(T) /\ Elems(DropFirst(s, n)) = {s[k] : k \in (n + 1)..Len(s)}
          /\ Injective(SubSeq(s, 1, n)) /\ Injective(DropFirst(s, n))
  <2>1. SUFFICES ASSUME NEW n \in 0..Len(s)
        PROVE  /\ SubSeq(s, 1, n) \in Seq(T) /\ Elems(SubSeq(s, 1, n)) = {s[k] : k \in 1..n}
               /\ DropFirst(s, n) \in Seq(T) /\ Elems(DropFirst(s, n)) = {s[k] : k \in (n + 1)..Len(s)}
               /\ Injective(SubSeq(s, 1, n)) /\ Injective(DropFirst(s, n))
    OBVIOUS
  <2> DEFINE head == SubSeq(s, 1, n)
             tail == DropFirst(s, n)
  <2>2. /\ head \in Seq(T) /\ Elems(head) = {s[k] : k \in 1..n}
        /\ tail \in Seq(T) /\ Elems(tail) = {s[k] : k \in (n + 1)..Len(s)}
    BY <2>1, PrefixElems
  <2>3. Injective(head) /\ Injective(tail)
    BY <2>1, PrefixInjective
  <2> HIDE DEF head, tail
  <2> QED BY <2>2, <2>3 DEF head, tail
<1>2. /\ before \in Seq(T) /\ Elems(before) = {s[k] : k \in 1..(i - 1)} /\ Injective(before)
  BY <1>0, <1>1
<1>3. /\ after \in Seq(T) /\ Elems(after) = {s[k] : k \in (i + 1)..Len(s)} /\ Injective(after)
  BY <1>0, <1>1
<1>4. r = before \o after
  BY DEF RemoveIndex, DropFirst
<1>5. Elems(before) \cap Elems(after) = {}
  <2>1. SUFFICES ASSUME NEW k \in 1..(i - 1), NEW m \in (i + 1)..Len(s), s[k] = s[m] PROVE FALSE
    BY <1>2, <1>3
  <2> QED BY <1>1, <2>1 DEF Injective
<1> HIDE DEF before, after, r
<1>6. Injective(r) /\ Elems(r) = Elems(before) \cup Elems(after)
  <2>1. Injective(before \o after)
    BY <1>2, <1>3, <1>5, ConcatInjective
  <2>2. Elems(before \o after) = Elems(before) \cup Elems(after)
    BY <1>2, <1>3, ConcatElems
  <2> QED BY <1>4, <2>1, <2>2
<1>7. ASSUME NEW k \in DOMAIN s, k # i PROVE s[k] # s[i] /\ s[k] \in Elems(r)
  <2>1. k \in 1..(i - 1) \/ k \in (i + 1)..Len(s)
    BY <1>1, <1>7
  <2> QED BY <1>1, <1>2, <1>3, <1>6, <1>7, <2>1 DEF Injective
<1>8. ASSUME NEW x \in Elems(r) PROVE \E k \in DOMAIN s : k # i /\ x = s[k]
  <2>1. (\E k \in 1..(i - 1) : x = s[k]) \/ (\E k \in (i + 1)..Len(s) : x = s[k])
    BY <1>2, <1>3, <1>6, <1>8
  <2>2. \A k \in 1..(i - 1) : k \in DOMAIN s /\ k # i
    BY <1>1
  <2>3. \A k \in (i + 1)..Len(s) : k \in DOMAIN s /\ k # i
    BY <1>1
  <2> QED BY <2>1, <2>2, <2>3
<1>9. \A x \in Elems(s) : x # s[i] => x \in Elems(r)
  BY <1>7 DEF Elems
<1>10. \A x \in Elems(r) : x \in Elems(s) /\ x # s[i]
  BY <1>7, <1>8 DEF Elems
<1> QED
  BY <1>6, <1>9, <1>10 DEF r
=============================================================================
