----------------------- MODULE EfficiencyRollupProofs -----------------------
(***************************************************************************)
(* Proofs about EfficiencyRollup, for every number of pods and engineers   *)
(* and whatever they spend and merge: types, the ranks and medians of      *)
(* every cohort, and the rows that runs leave which overlap.               *)
(*                                                                         *)
(* The first part is about the values of a cohort, any function from a     *)
(* finite set to natural numbers; the others about the state.              *)
(***************************************************************************)
EXTENDS EfficiencyRollup, TLAPS, WellFoundedInduction, FiniteSetTheorems

-----------------------------------------------------------------------------
(* Cohorts                                                                 *)

\* A cohort, of any size but zero.
IsCohort(f) ==
  /\ IsFiniteSet(DOMAIN f) /\ DOMAIN f # {}
  /\ \A i \in DOMAIN f : f[i] \in Nat

\* Who pays less than v, no more than v, at least v.
Below(f, v) == {i \in DOMAIN f : f[i] < v}
NotAbove(f, v) == {i \in DOMAIN f : f[i] <= v}
NotBelow(f, v) == {i \in DOMAIN f : f[i] >= v}

\* A nonempty set of natural numbers has a least element.
LEMMA Least == ASSUME NEW T \in SUBSET Nat, T # {} PROVE \E m \in T : \A n \in T : m <= n
<1>1. PICK m \in T : \A n \in T : <<n, m>> \notin OpToRel(<, Nat)
      BY WFMin, NatLessThanWellFounded
<1>2. \A n \in T : ~(n < m)
      BY <1>1 DEF OpToRel
<1> QED BY <1>2

\* All parts of a cohort are counted.
LEMMA CountType ==
  ASSUME NEW f, IsCohort(f), NEW s \in SUBSET (DOMAIN f)
  PROVE  IsFiniteSet(s) /\ Cardinality(s) \in Nat /\ Cardinality(s) <= Size(f)
BY FS_Subset, FS_CardinalityType DEF IsCohort, Size

\* A cohort has somebody.
LEMMA SizeType == ASSUME NEW f, IsCohort(f) PROVE Size(f) \in Nat \ {0}
BY FS_CardinalityType, FS_EmptySet DEF IsCohort, Size

\* Who pays less than v and who pays at least v are all.
LEMMA Complement ==
  ASSUME NEW f, IsCohort(f), NEW v \in Nat
  PROVE  Cardinality(NotBelow(f, v)) = Size(f) - Cardinality(Below(f, v))
<1>1. /\ Below(f, v) \in SUBSET (DOMAIN f)
      /\ NotBelow(f, v) = DOMAIN f \ Below(f, v)
      /\ DOMAIN f \cap Below(f, v) = Below(f, v)
      BY DEF Below, NotBelow, IsCohort
<1>2. IsFiniteSet(Below(f, v))
      BY <1>1, CountType
<1> QED BY <1>1, <1>2, FS_Difference DEF IsCohort, Size

\* Of any who are some, one pays most: one whom the most do not exceed.
LEMMA Greatest ==
  ASSUME NEW f, IsCohort(f), NEW s \in SUBSET (DOMAIN f), s # {}
  PROVE  \E i \in s : \A j \in s : f[j] <= f[i]
<1> DEFINE Above(i) == Size(f) - Cardinality(NotAbove(f, f[i]))
           T == {Above(i) : i \in s}
<1>1. ASSUME NEW i \in s
      PROVE  /\ NotAbove(f, f[i]) \in SUBSET (DOMAIN f)
             /\ Cardinality(NotAbove(f, f[i])) \in Nat /\ Above(i) \in Nat
  <2>1. NotAbove(f, f[i]) \in SUBSET (DOMAIN f)
        BY DEF NotAbove
  <2> QED BY <2>1, CountType, SizeType
<1>2. PICK m \in T : \A n \in T : m <= n
  <2>1. T \in SUBSET Nat /\ T # {}
        BY <1>1
  <2> QED BY <2>1, Least
<1>3. PICK i \in s : m = Above(i)
      BY <1>2
<1>4. ASSUME NEW j \in s PROVE f[j] <= f[i]
  <2>1. f[i] \in Nat /\ f[j] \in Nat
        BY DEF IsCohort
  <2> SUFFICES ASSUME f[i] < f[j] PROVE FALSE
      BY <2>1
  <2>2. NotAbove(f, f[i]) \in SUBSET NotAbove(f, f[j])
        BY <2>1 DEF NotAbove, IsCohort
  <2>3. j \in NotAbove(f, f[j]) /\ j \notin NotAbove(f, f[i])
        BY <2>1 DEF NotAbove
  <2>4. IsFiniteSet(NotAbove(f, f[j]))
        BY <1>1, CountType
  <2>5. /\ Cardinality(NotAbove(f, f[i])) <= Cardinality(NotAbove(f, f[j]))
        /\ Cardinality(NotAbove(f, f[i])) # Cardinality(NotAbove(f, f[j]))
        BY <2>2, <2>3, <2>4, FS_Subset
  <2>6. Above(i) <= Above(j)
        BY <1>2, <1>3
  <2> QED BY <1>1, <2>5, <2>6, SizeType
<1> QED BY <1>4

\* Each place of the sorted cohort has its value.
LEMMA PlaceExists ==
  ASSUME NEW f, IsCohort(f), NEW k \in 1..Size(f)
  PROVE  \E v \in Range(f) :
           Cardinality(Below(f, v)) < k /\ Cardinality(NotAbove(f, v)) >= k
<1> DEFINE T == {v \in Range(f) : Cardinality(NotAbove(f, v)) >= k}
<1>1. \A i \in DOMAIN f : f[i] \in Nat /\ f[i] \in Range(f)
      BY DEF IsCohort, Range
<1>2. Range(f) \in SUBSET Nat
      BY <1>1 DEF Range
<1>3. \A v : /\ Below(f, v) \in SUBSET (DOMAIN f) /\ Cardinality(Below(f, v)) \in Nat
             /\ NotAbove(f, v) \in SUBSET (DOMAIN f) /\ Cardinality(NotAbove(f, v)) \in Nat
      BY CountType DEF Below, NotAbove
<1>4. T # {}
  <2>1. PICK i \in DOMAIN f : \A j \in DOMAIN f : f[j] <= f[i]
        BY Greatest DEF IsCohort
  <2>2. NotAbove(f, f[i]) = DOMAIN f
        BY <2>1 DEF NotAbove
  <2> QED BY <1>1, <2>2, SizeType DEF Size
<1>5. PICK v \in T : \A u \in T : v <= u
      BY <1>2, <1>4, Least
<1>6. Cardinality(Below(f, v)) < k
  <2>1. CASE Below(f, v) = {}
        BY <2>1, FS_EmptySet
  <2>2. CASE Below(f, v) # {}
    <3>1. PICK i \in Below(f, v) : \A j \in Below(f, v) : f[j] <= f[i]
          BY <1>3, <2>2, Greatest
    <3>2. i \in DOMAIN f /\ f[i] < v /\ f[i] \in Nat /\ v \in Nat /\ f[i] \in Range(f)
          BY <1>1, <1>2 DEF Below
    <3>3. NotAbove(f, f[i]) = Below(f, v)
      <4>1. ASSUME NEW j \in DOMAIN f PROVE f[j] <= f[i] <=> f[j] < v
        <5>1. f[j] \in Nat
              BY <1>1
        <5>2. f[j] < v => f[j] <= f[i]
              BY <3>1 DEF Below
        <5> QED BY <3>2, <5>1, <5>2
      <4> QED BY <4>1 DEF Below, NotAbove
    <3>4. f[i] \notin T
          BY <1>5, <3>2
    <3> QED BY <1>3, <3>2, <3>3, <3>4
  <2> QED BY <2>1, <2>2
<1> QED BY <1>5, <1>6

\* So sorting a cohort puts values of it in their places.
LEMMA SortedPlace ==
  ASSUME NEW f, IsCohort(f), NEW k \in 1..Size(f)
  PROVE  LET v == Sorted(f)[k]
         IN  /\ v \in Nat
             /\ Cardinality(Below(f, v)) < k /\ Cardinality(NotAbove(f, v)) >= k
<1> DEFINE Fits(v) == Cardinality(Below(f, v)) < k /\ Cardinality(NotAbove(f, v)) >= k
<1>1. Sorted(f)[k] = CHOOSE v \in Range(f) : Fits(v)
      BY DEF Sorted, Below, NotAbove
<1>2. \E v \in Range(f) : Fits(v)
      BY PlaceExists
<1> HIDE DEF Fits
<1>3. Sorted(f)[k] \in Range(f) /\ Fits(Sorted(f)[k])
      BY <1>1, <1>2
<1>4. Range(f) \in SUBSET Nat
      BY DEF Range, IsCohort
<1> QED BY <1>3, <1>4 DEF Fits

-----------------------------------------------------------------------------
(* Ranks                                                                   *)

\* What a division leaves is less than the divisor.
LEMMA Division ==
  ASSUME NEW a \in Nat, NEW n \in Nat \ {0}
  PROVE  a \div n \in Nat /\ n * (a \div n) <= a /\ a < n * (a \div n) + n
OBVIOUS

\* A larger number has no smaller quotient.
LEMMA DivisionMonotone ==
  ASSUME NEW a \in Nat, NEW b \in Nat, a <= b, NEW n \in Nat \ {0}
  PROVE  a \div n <= b \div n
<1> DEFINE q == a \div n  r == b \div n
<1>1. q \in Nat /\ r \in Nat /\ n * q <= a /\ b < n * r + n
      BY Division
<1> HIDE DEF q, r
<1> SUFFICES ASSUME r < q PROVE FALSE
    BY <1>1 DEF q, r
<1>2. n * (r + 1) <= n * q
  <2>1. PICK d \in Nat : q = r + 1 + d
        BY <1>1
  <2>2. n * d \in Nat
        OBVIOUS
  <2>3. n * q = n * (r + 1) + n * d
        BY <1>1, <2>1
  <2> QED BY <1>1, <2>2, <2>3
<1>3. n * (r + 1) = n * r + n
      BY <1>1
<1> QED BY <1>1, <1>2, <1>3

\* Adding the divisor to a number adds one to the quotient, at least.
LEMMA DivisionStep ==
  ASSUME NEW a \in Nat, NEW b \in Nat, NEW n \in Nat \ {0}, a + n <= b
  PROVE  a \div n < b \div n
<1> DEFINE q == a \div n  r == b \div n
<1>1. q \in Nat /\ r \in Nat /\ n * q <= a /\ b < n * r + n
      BY Division
<1> HIDE DEF q, r
<1> SUFFICES ASSUME r <= q PROVE FALSE
    BY <1>1 DEF q, r
<1>2. PICK d \in Nat : q = r + d
      BY <1>1
<1>3. n * d \in Nat /\ n * q = n * r + n * d
      BY <1>1, <1>2
<1> QED BY <1>1, <1>3

\* A whole is a hundred per cent.
LEMMA Whole == ASSUME NEW n \in Nat \ {0} PROVE (n * 100) \div n = 100
<1> DEFINE q == (n * 100) \div n
<1>1. q \in Nat /\ n * q <= n * 100 /\ n * 100 < n * q + n
      BY Division
<1> HIDE DEF q
<1>2. ASSUME q < 100 PROVE FALSE
  <2>1. PICK d \in Nat : 100 = q + 1 + d
        BY <1>1, <1>2
  <2>2. n * d \in Nat /\ n * 100 = n * q + n + n * d
        BY <1>1, <2>1
  <2> QED BY <1>1, <2>2
<1>3. ASSUME 100 < q PROVE FALSE
  <2>1. PICK d \in Nat : q = 100 + 1 + d
        BY <1>1, <1>3
  <2>2. n * d \in Nat /\ n * q = n * 100 + n + n * d
        BY <1>1, <2>1
  <2> QED BY <1>1, <2>2
<1> QED BY <1>1, <1>2, <1>3 DEF q

\* A rank is a percentage.
LEMMA RankType ==
  ASSUME NEW f, IsCohort(f), NEW v
  PROVE  PercentileRank(f, v) \in 0..100
<1> DEFINE better == Cardinality(NotBelow(f, v))  n == Size(f)
<1>1. better \in Nat /\ better <= n
  <2>1. NotBelow(f, v) \in SUBSET (DOMAIN f)
        BY DEF NotBelow
  <2> QED BY <2>1, CountType
<1>2. n \in Nat \ {0}
      BY SizeType
<1>3. PercentileRank(f, v) = (better * 100) \div n
      BY DEF PercentileRank, NotBelow
<1> HIDE DEF better, n
<1>4. /\ (better * 100) \div n \in Nat
      /\ (better * 100) \div n <= (n * 100) \div n
      BY <1>1, <1>2, Division, DivisionMonotone
<1> QED BY <1>2, <1>3, <1>4, Whole

\* The cheapest gets 100.
LEMMA RankOfCheapest ==
  ASSUME NEW f, IsCohort(f), NEW v \in Nat, \A j \in DOMAIN f : v <= f[j]
  PROVE  PercentileRank(f, v) = 100
<1>1. {i \in DOMAIN f : f[i] >= v} = DOMAIN f
      BY DEF IsCohort
<1> QED BY <1>1, SizeType, Whole DEF PercentileRank, Size

\* Who pays less never ranks below who pays more.
LEMMA RankMonotone ==
  ASSUME NEW f, IsCohort(f), NEW u \in Nat, NEW v \in Nat, u <= v
  PROVE  PercentileRank(f, u) >= PercentileRank(f, v)
<1> DEFINE b == Cardinality(NotBelow(f, u))  c == Cardinality(NotBelow(f, v))  n == Size(f)
<1>1. /\ NotBelow(f, u) \in SUBSET (DOMAIN f)
      /\ NotBelow(f, v) \in SUBSET NotBelow(f, u)
      BY DEF NotBelow, IsCohort
<1>2. b \in Nat /\ c \in Nat /\ c <= b
      BY <1>1, CountType, FS_Subset, FS_CardinalityType
<1>3. PercentileRank(f, u) = (b * 100) \div n /\ PercentileRank(f, v) = (c * 100) \div n
      BY DEF PercentileRank, NotBelow
<1>4. n \in Nat \ {0}
      BY SizeType
<1> HIDE DEF b, c, n
<1>5. (c * 100) \div n <= (b * 100) \div n
      BY <1>2, <1>4, DivisionMonotone
<1>6. (c * 100) \div n \in Nat /\ (b * 100) \div n \in Nat
      BY <1>2, <1>4, Division
<1> QED BY <1>3, <1>5, <1>6

\* Up to a hundred engineers: nobody gets 0, and who pays less ranks higher.
LEMMA RankStrict ==
  ASSUME NEW f, IsCohort(f), Size(f) <= 100, NEW i \in DOMAIN f, NEW j \in DOMAIN f
  PROVE  /\ PercentileRank(f, f[i]) > 0
         /\ f[i] < f[j] => PercentileRank(f, f[i]) > PercentileRank(f, f[j])
<1> DEFINE B(v) == Cardinality(NotBelow(f, v))  n == Size(f)
<1>1. f[i] \in Nat /\ f[j] \in Nat
      BY DEF IsCohort
<1>2. \A v : NotBelow(f, v) \in SUBSET (DOMAIN f) /\ IsFiniteSet(NotBelow(f, v)) /\ B(v) \in Nat
      BY CountType DEF NotBelow
<1>3. B(f[i]) # 0
  <2>1. i \in NotBelow(f, f[i])
        BY <1>1 DEF NotBelow
  <2> QED BY <1>2, <2>1, FS_EmptySet
<1>4. f[i] < f[j] => B(f[j]) < B(f[i])
  <2> SUFFICES ASSUME f[i] < f[j] PROVE B(f[j]) < B(f[i])
      OBVIOUS
  <2>1. NotBelow(f, f[j]) \in SUBSET NotBelow(f, f[i])
        BY <1>1 DEF NotBelow, IsCohort
  <2>2. i \in NotBelow(f, f[i]) /\ i \notin NotBelow(f, f[j])
        BY <1>1 DEF NotBelow
  <2> QED BY <1>2, <2>1, <2>2, FS_Subset
<1>5. \A v : PercentileRank(f, v) = (B(v) * 100) \div n
      BY DEF PercentileRank, NotBelow
<1>6. n \in Nat \ {0} /\ n <= 100
      BY SizeType
<1> HIDE DEF B, n
<1>7. (B(f[i]) * 100) \div n > 0
  <2>1. 0 \div n = 0
        BY <1>6
  <2>2. B(f[i]) * 100 \in Nat /\ 0 + n <= B(f[i]) * 100
        BY <1>2, <1>3, <1>6
  <2> QED BY <1>6, <2>1, <2>2, DivisionStep, Division
<1>8. f[i] < f[j] => (B(f[i]) * 100) \div n > (B(f[j]) * 100) \div n
  <2> SUFFICES ASSUME f[i] < f[j] PROVE (B(f[i]) * 100) \div n > (B(f[j]) * 100) \div n
      OBVIOUS
  <2>1. /\ B(f[i]) * 100 \in Nat /\ B(f[j]) * 100 \in Nat
        /\ B(f[j]) * 100 + n <= B(f[i]) * 100
        BY <1>2, <1>4, <1>6
  <2> QED BY <1>6, <2>1, DivisionStep, Division
<1> QED BY <1>5, <1>7, <1>8

-----------------------------------------------------------------------------
(* Medians                                                                 *)

\* A half, and what is left.
LEMMA Halves ==
  ASSUME NEW n \in Nat \ {0}
  PROVE  LET h == n \div 2
         IN  /\ h \in Nat /\ h + 1 \in 1..(n + 1)
             /\ n % 2 = 1 => n = 2 * h + 1 /\ h + 1 \in 1..n
             /\ n % 2 # 1 => n = 2 * h /\ h \in 1..n /\ h + 1 \in 1..n
OBVIOUS

\* The sorted cohort ascends.
LEMMA SortedAscends ==
  ASSUME NEW f, IsCohort(f), NEW k \in 1..Size(f), k + 1 \in 1..Size(f)
  PROVE  Sorted(f)[k] <= Sorted(f)[k + 1]
<1> DEFINE u == Sorted(f)[k]  v == Sorted(f)[k + 1]
<1>1. /\ u \in Nat /\ Cardinality(Below(f, u)) < k
      /\ v \in Nat /\ Cardinality(NotAbove(f, v)) >= k + 1
      BY SortedPlace
<1> HIDE DEF u, v
<1> SUFFICES ASSUME v < u PROVE FALSE
    BY <1>1 DEF u, v
<1>2. /\ NotAbove(f, v) \in SUBSET Below(f, u)
      /\ Below(f, u) \in SUBSET (DOMAIN f)
      BY <1>1 DEF Below, NotAbove, IsCohort
<1>3. IsFiniteSet(Below(f, u)) /\ Cardinality(Below(f, u)) \in Nat
      BY <1>2, CountType
<1>4. /\ Cardinality(NotAbove(f, v)) \in Nat
      /\ Cardinality(NotAbove(f, v)) <= Cardinality(Below(f, u))
      BY <1>2, <1>3, FS_Subset, FS_CardinalityType
<1> QED BY <1>1, <1>3, <1>4, SizeType

\* The median lies between two places of the sorted cohort, which may be one.
LEMMA MedianPlaces ==
  ASSUME NEW f, IsCohort(f)
  PROVE  \E u, v \in Nat :
           /\ u <= v /\ MedianOf(f) = u + v
           /\ 2 * Cardinality(NotAbove(f, u)) >= Size(f)
           /\ 2 * Cardinality(NotBelow(f, v)) >= Size(f)
<1> DEFINE n == Size(f)  h == n \div 2  cp == Sorted(f)
<1>1. n \in Nat \ {0}
      BY SizeType
<1>2. \A w : Cardinality(NotAbove(f, w)) \in Nat /\ Cardinality(Below(f, w)) \in Nat
      BY CountType DEF NotAbove, Below
<1>3. CASE n % 2 = 1
  <2>1. h \in Nat /\ n = 2 * h + 1 /\ h + 1 \in 1..n
        BY <1>1, <1>3, Halves
  <2>2. /\ cp[h + 1] \in Nat
        /\ Cardinality(NotAbove(f, cp[h + 1])) >= h + 1
        /\ Cardinality(Below(f, cp[h + 1])) < h + 1
        BY <2>1, SortedPlace
  <2>3. MedianOf(f) = 2 * cp[h + 1]
        BY <1>3 DEF MedianOf
  <2>4. Cardinality(NotBelow(f, cp[h + 1])) = n - Cardinality(Below(f, cp[h + 1]))
        BY <2>2, Complement
  <2> HIDE DEF n, h, cp
  <2>5. /\ 2 * Cardinality(NotAbove(f, cp[h + 1])) >= n
        /\ 2 * Cardinality(NotBelow(f, cp[h + 1])) >= n
        /\ MedianOf(f) = cp[h + 1] + cp[h + 1]
        BY <1>2, <2>1, <2>2, <2>3, <2>4
  <2> QED BY <2>2, <2>5 DEF n
<1>4. CASE n % 2 # 1
  <2>1. h \in Nat /\ n = 2 * h /\ h \in 1..n /\ h + 1 \in 1..n
        BY <1>1, <1>4, Halves
  <2>2. /\ cp[h] \in Nat /\ cp[h + 1] \in Nat
        /\ Cardinality(NotAbove(f, cp[h])) >= h
        /\ Cardinality(Below(f, cp[h + 1])) < h + 1
        BY <2>1, SortedPlace
  <2>3. MedianOf(f) = cp[h] + cp[h + 1]
        BY <1>4 DEF MedianOf
  <2>4. Cardinality(NotBelow(f, cp[h + 1])) = n - Cardinality(Below(f, cp[h + 1]))
        BY <2>2, Complement
  <2>5. cp[h] <= cp[h + 1]
        BY <2>1, SortedAscends
  <2> HIDE DEF n, h, cp
  <2>6. /\ 2 * Cardinality(NotAbove(f, cp[h])) >= n
        /\ 2 * Cardinality(NotBelow(f, cp[h + 1])) >= n
        BY <1>2, <2>1, <2>2, <2>4
  <2> QED BY <2>2, <2>3, <2>5, <2>6 DEF n
<1> QED BY <1>3, <1>4

\* As many are at or below the median as at or above it: half, at least.
LEMMA MedianHalves ==
  ASSUME NEW f, IsCohort(f)
  PROVE  LET m == MedianOf(f)
         IN  /\ m \in Nat
             /\ 2 * Cardinality({i \in DOMAIN f : 2 * f[i] <= m}) >= Size(f)
             /\ 2 * Cardinality({i \in DOMAIN f : 2 * f[i] >= m}) >= Size(f)
<1> DEFINE m == MedianOf(f)
           L == {i \in DOMAIN f : 2 * f[i] <= m}
           H == {i \in DOMAIN f : 2 * f[i] >= m}
<1>1. PICK u \in Nat, v \in Nat :
        /\ u <= v /\ MedianOf(f) = u + v
        /\ 2 * Cardinality(NotAbove(f, u)) >= Size(f)
        /\ 2 * Cardinality(NotBelow(f, v)) >= Size(f)
      BY MedianPlaces
<1>2. /\ NotAbove(f, u) \in SUBSET L /\ L \in SUBSET (DOMAIN f)
      /\ NotBelow(f, v) \in SUBSET H /\ H \in SUBSET (DOMAIN f)
      BY <1>1 DEF NotAbove, NotBelow, IsCohort
<1> HIDE DEF L, H
<1>3. /\ IsFiniteSet(L) /\ Cardinality(L) \in Nat
      /\ IsFiniteSet(H) /\ Cardinality(H) \in Nat
      BY <1>2, CountType
<1>4. /\ Cardinality(NotAbove(f, u)) \in Nat /\ Cardinality(NotAbove(f, u)) <= Cardinality(L)
      /\ Cardinality(NotBelow(f, v)) \in Nat /\ Cardinality(NotBelow(f, v)) <= Cardinality(H)
      BY <1>2, <1>3, FS_Subset, FS_CardinalityType
<1>5. 2 * Cardinality(L) >= Size(f) /\ 2 * Cardinality(H) >= Size(f) /\ m \in Nat
      BY <1>1, <1>3, <1>4, SizeType
<1> QED BY <1>5 DEF L, H

\* Every cohort is ranked by its costs.
LEMMA CohortRanked == ASSUME NEW xs, IsCohort(xs) PROVE RanksByCost(xs)
<1> DEFINE R(i) == PercentileRank(xs, xs[i])  T == {xs[i] : i \in DOMAIN xs}
<1>1. \A i \in DOMAIN xs : xs[i] \in Nat /\ R(i) \in Nat
      BY RankType DEF IsCohort
<1>2. \A i, j \in DOMAIN xs : xs[i] <= xs[j] => R(i) >= R(j)
      BY <1>1, RankMonotone
<1>3. \E i \in DOMAIN xs : R(i) = 100
  <2>1. T \in SUBSET Nat /\ T # {}
        BY <1>1 DEF IsCohort
  <2> HIDE DEF T
  <2>2. PICK m \in T : \A n \in T : m <= n
        BY <2>1, Least
  <2>3. PICK i \in DOMAIN xs : m = xs[i]
        BY DEF T
  <2>4. \A j \in DOMAIN xs : xs[i] <= xs[j]
        BY <2>2, <2>3 DEF T
  <2> QED BY <1>1, <2>4, RankOfCheapest
<1>4. ASSUME Size(xs) <= 100, NEW i \in DOMAIN xs, NEW j \in DOMAIN xs
      PROVE  R(i) > 0 /\ (xs[i] # xs[j] => R(i) # R(j))
  <2>1. /\ R(i) > 0
        /\ xs[i] < xs[j] => R(i) > R(j)
        /\ xs[j] < xs[i] => R(j) > R(i)
        BY <1>4, RankStrict
  <2> HIDE DEF R
  <2>2. xs[i] \in Nat /\ xs[j] \in Nat /\ R(i) \in Nat /\ R(j) \in Nat
        BY <1>1
  <2> QED BY <2>1, <2>2
<1>5. /\ 2 * Cardinality({i \in DOMAIN xs : 2 * xs[i] <= MedianOf(xs)}) >= Size(xs)
      /\ 2 * Cardinality({i \in DOMAIN xs : 2 * xs[i] >= MedianOf(xs)}) >= Size(xs)
      BY MedianHalves
<1> QED BY <1>2, <1>3, <1>4, <1>5 DEF RanksByCost

-----------------------------------------------------------------------------
(* One cohort, indexed in two ways                                         *)

\* A set and what it is mapped to, one to one.
LEMMA CountMapped ==
  ASSUME NEW S, IsFiniteSet(S), NEW T, NEW b,
         \A x \in S : b[x] \in T,
         \A x, y \in S : b[x] = b[y] => x = y,
         \A t \in T : \E x \in S : b[x] = t
  PROVE  IsFiniteSet(T) /\ Cardinality(T) = Cardinality(S)
<1> DEFINE F == [x \in S |-> b[x]]
<1>1. F \in Bijection(S, T)
      BY DEF Bijection, Injection, Surjection, IsInjective
<1>2. ExistsBijection(S, T)
      BY <1>1 DEF ExistsBijection
<1> QED BY <1>2, FS_Bijection

\* b renames the indices of cohort f to those of g.
Renames(b, f, g) ==
  /\ \A i \in DOMAIN f : b[i] \in DOMAIN g /\ f[i] = g[b[i]]
  /\ \A i, j \in DOMAIN f : b[i] = b[j] => i = j
  /\ \A x \in DOMAIN g : \E i \in DOMAIN f : b[i] = x

\* Then they are of one size, and as many pay less, no more, at least v.
LEMMA RenamedCounts ==
  ASSUME NEW f, IsFiniteSet(DOMAIN f), NEW g, NEW b, Renames(b, f, g)
  PROVE  /\ IsFiniteSet(DOMAIN g) /\ Size(g) = Size(f)
         /\ \A v : /\ Cardinality(Below(g, v)) = Cardinality(Below(f, v))
                   /\ Cardinality(NotAbove(g, v)) = Cardinality(NotAbove(f, v))
                   /\ Cardinality(NotBelow(g, v)) = Cardinality(NotBelow(f, v))
<1>1. ASSUME NEW P \in SUBSET DOMAIN f, NEW Q \in SUBSET DOMAIN g,
             \A i \in DOMAIN f : i \in P <=> b[i] \in Q
      PROVE  IsFiniteSet(Q) /\ Cardinality(Q) = Cardinality(P)
  <2>1. IsFiniteSet(P)
        BY FS_Subset
  <2>2. /\ \A i \in P : b[i] \in Q
        /\ \A i, j \in P : b[i] = b[j] => i = j
        /\ \A x \in Q : \E i \in P : b[i] = x
        BY <1>1 DEF Renames
  <2> QED BY <2>1, <2>2, CountMapped
<1>2. IsFiniteSet(DOMAIN g) /\ Size(g) = Size(f)
  <2>1. \A i \in DOMAIN f : i \in DOMAIN f <=> b[i] \in DOMAIN g
        BY DEF Renames
  <2> QED BY <1>1, <2>1 DEF Size
<1>3. ASSUME NEW v PROVE Cardinality(Below(g, v)) = Cardinality(Below(f, v))
  <2>1. \A i \in DOMAIN f : i \in Below(f, v) <=> b[i] \in Below(g, v)
        BY DEF Renames, Below
  <2>2. Below(f, v) \in SUBSET DOMAIN f /\ Below(g, v) \in SUBSET DOMAIN g
        BY DEF Below
  <2> QED BY <1>1, <2>1, <2>2
<1>4. ASSUME NEW v PROVE Cardinality(NotAbove(g, v)) = Cardinality(NotAbove(f, v))
  <2>1. \A i \in DOMAIN f : i \in NotAbove(f, v) <=> b[i] \in NotAbove(g, v)
        BY DEF Renames, NotAbove
  <2>2. NotAbove(f, v) \in SUBSET DOMAIN f /\ NotAbove(g, v) \in SUBSET DOMAIN g
        BY DEF NotAbove
  <2> QED BY <1>1, <2>1, <2>2
<1>5. ASSUME NEW v PROVE Cardinality(NotBelow(g, v)) = Cardinality(NotBelow(f, v))
  <2>1. \A i \in DOMAIN f : i \in NotBelow(f, v) <=> b[i] \in NotBelow(g, v)
        BY DEF Renames, NotBelow
  <2>2. NotBelow(f, v) \in SUBSET DOMAIN f /\ NotBelow(g, v) \in SUBSET DOMAIN g
        BY DEF NotBelow
  <2> QED BY <1>1, <2>1, <2>2
<1> QED BY <1>2, <1>3, <1>4, <1>5

\* One value fits a place of the sorted cohort.
LEMMA PlaceUnique ==
  ASSUME NEW f, IsCohort(f), NEW k \in Nat, NEW u \in Nat, NEW v \in Nat, u < v,
         Cardinality(NotAbove(f, u)) >= k, Cardinality(Below(f, v)) < k
  PROVE  FALSE
<1>1. NotAbove(f, u) \in SUBSET Below(f, v) /\ Below(f, v) \in SUBSET (DOMAIN f)
      BY DEF Below, NotAbove, IsCohort
<1>2. IsFiniteSet(Below(f, v)) /\ Cardinality(Below(f, v)) \in Nat
      BY <1>1, CountType
<1>3. /\ Cardinality(NotAbove(f, u)) \in Nat
      /\ Cardinality(NotAbove(f, u)) <= Cardinality(Below(f, v))
      BY <1>1, <1>2, FS_Subset, FS_CardinalityType
<1> QED BY <1>2, <1>3

\* Renaming changes neither the median nor a rank.
LEMMA RenamedCohort ==
  ASSUME NEW f, IsCohort(f), NEW g, IsCohort(g), NEW b, Renames(b, f, g)
  PROVE  /\ MedianOf(g) = MedianOf(f)
         /\ \A v : PercentileRank(g, v) = PercentileRank(f, v)
<1>1. /\ Size(g) = Size(f)
      /\ \A v : /\ Cardinality(Below(g, v)) = Cardinality(Below(f, v))
                /\ Cardinality(NotAbove(g, v)) = Cardinality(NotAbove(f, v))
                /\ Cardinality(NotBelow(g, v)) = Cardinality(NotBelow(f, v))
      BY RenamedCounts DEF IsCohort
<1>2. ASSUME NEW k \in 1..Size(f) PROVE Sorted(g)[k] = Sorted(f)[k]
  <2> DEFINE u == Sorted(f)[k]  v == Sorted(g)[k]
  <2>1. /\ u \in Nat /\ Cardinality(Below(f, u)) < k /\ Cardinality(NotAbove(f, u)) >= k
        /\ v \in Nat /\ Cardinality(Below(g, v)) < k /\ Cardinality(NotAbove(g, v)) >= k
        BY <1>1, SortedPlace
  <2>2. Cardinality(Below(f, v)) < k /\ Cardinality(NotAbove(f, v)) >= k /\ k \in Nat
        BY <1>1, <2>1, SizeType
  <2> HIDE DEF u, v
  <2>3. ~(u < v) /\ ~(v < u)
        BY <2>1, <2>2, PlaceUnique
  <2>4. u = v
        BY <2>1, <2>3
  <2> QED BY <2>4 DEF u, v
<1>3. MedianOf(g) = MedianOf(f)
  <2> DEFINE n == Size(f)  h == n \div 2
  <2>1. n \in Nat \ {0}
        BY SizeType
  <2>2. /\ n % 2 = 1 => h + 1 \in 1..n
        /\ n % 2 # 1 => h \in 1..n /\ h + 1 \in 1..n
        BY <2>1, Halves
  <2>3. CASE n % 2 = 1
        BY <1>1, <1>2, <2>2, <2>3 DEF MedianOf
  <2>4. CASE n % 2 # 1
        BY <1>1, <1>2, <2>2, <2>4 DEF MedianOf
  <2> QED BY <2>3, <2>4
<1>4. ASSUME NEW v PROVE PercentileRank(g, v) = PercentileRank(f, v)
      BY <1>1 DEF PercentileRank, NotBelow
<1> QED BY <1>3, <1>4

-----------------------------------------------------------------------------
(* Types                                                                   *)

\* The entries of pass 1, and the locals of a run.
Entry == [eng : Engineer, dpr : Nat]
Run == [pc : {"idle", "usage", "prs", "upsert", "rank"}, end : Day,
        todo : Seq(Engineer), sig : FactType, dprs : Seq(Entry)]
Row == [sig : FactType, median : DprType, pct : 0..100 \cup {Null}]

\* Inside a loop there is an engineer at hand, and pass 2 has a cohort.
LoopInv ==
  \A p \in Pod :
    /\ run[p].pc \in {"prs", "upsert", "rank"} => run[p].todo # <<>>
    /\ run[p].pc = "rank" => run[p].dprs # <<>>

\* TypeOK, with the records by name.
LEMMA TypeNamed ==
  TypeOK <=> /\ facts \in [Day -> [Engineer -> Facts]] /\ day \in Day
             /\ rows \in [Day -> [Engineer -> Row]]
             /\ run \in [Pod -> Run]
             /\ quiet \subseteq Day /\ changes \in 0..MaxChanges /\ faults \in 0..MaxFaults
BY DEF TypeOK, Row, Run, Entry

\* A run that has not begun.
LEMMA IdleType == Idle \in Run
BY Constants DEF Idle, Run, Day, FactType, NoFacts

\* What is left to do after the engineer at hand.
LEMMA TailType ==
  ASSUME NEW s \in Seq(Engineer), s # <<>>
  PROVE  /\ Head(s) \in Engineer /\ Tail(s) \in Seq(Engineer)
         /\ Len(s) # 1 => Tail(s) # <<>>
<1>1. Len(s) \in Nat \ {0} /\ Head(s) = s[1] /\ 1 \in 1..Len(s)
      OBVIOUS
<1>2. Tail(s) \in Seq(Engineer) /\ Len(Tail(s)) = Len(s) - 1
      BY <1>1
<1>3. Head(s) \in Engineer
      BY <1>1
<1>4. Len(s) # 1 => Tail(s) # <<>>
  <2>1. \A t \in Seq(Engineer) : Len(t) # 0 => t # <<>>
        OBVIOUS
  <2>2. Len(s) # 1 => Len(Tail(s)) # 0
        BY <1>1, <1>2
  <2> QED BY <1>2, <2>1, <2>2, Zenon
<1> QED BY <1>2, <1>3, <1>4

\* What the queries find are facts, and $/PR is a number or not defined.
LEMMA DprOfFacts == ASSUME NEW f \in FactType PROVE Dpr(f) \in DprType
<1> DEFINE n == f.merged - f.reverted
<1>1. /\ f.cost \in Nat /\ f.merged \in Nat /\ f.reverted \in Nat
      /\ f.cost * Scale \in Nat
      BY Constants DEF FactType
<1>2. CASE n > 0
      BY <1>1, <1>2, Division DEF Dpr, DprType
<1>3. CASE ~(n > 0)
      BY <1>3 DEF Dpr, DprType
<1> QED BY <1>2, <1>3

\* An entry is added for an engineer whose $/PR is defined.
LEMMA AppendedType ==
  ASSUME NEW dprs \in Seq(Entry), NEW e \in Engineer, NEW d \in DprType
  PROVE  Appended(dprs, e, d) \in Seq(Entry)
<1>1. d # Null => [eng |-> e, dpr |-> d] \in Entry
      BY DEF DprType, Entry
<1> QED BY <1>1 DEF Appended

\* The entries are a cohort, and every part of them is.
LEMMA EntriesCohort ==
  ASSUME NEW dprs \in Seq(Entry), NEW part \in SUBSET (DOMAIN dprs), part # {}
  PROVE  IsCohort([i \in part |-> dprs[i].dpr])
<1>1. IsFiniteSet(1..Len(dprs)) /\ DOMAIN dprs = 1..Len(dprs)
      BY FS_Interval
<1>2. IsFiniteSet(part)
      BY <1>1, FS_Subset
<1>3. \A i \in part : dprs[i] \in Entry
      BY <1>1
<1>4. \A i \in part : dprs[i].dpr \in Nat
      BY <1>3 DEF Entry
<1> QED BY <1>2, <1>4 DEF IsCohort

\* So are all of them, if there are any.
LEMMA ValuesCohort == ASSUME NEW dprs \in Seq(Entry), dprs # <<>> PROVE IsCohort(Values(dprs))
<1>1. DOMAIN dprs = 1..Len(dprs) /\ Len(dprs) \in Nat /\ Len(dprs) # 0
      OBVIOUS
<1>2. 1 \in DOMAIN dprs
      BY <1>1
<1> QED BY <1>2, EntriesCohort DEF Values

\* The engineers of pass 2.
LEMMA EngineersType ==
  ASSUME NEW dprs \in Seq(Entry)
  PROVE  /\ Engineers(dprs) \in Seq(Engineer)
         /\ dprs # <<>> => Engineers(dprs) # <<>>
<1>1. DOMAIN dprs = 1..Len(dprs) /\ Len(dprs) \in Nat
      OBVIOUS
<1>2. \A i \in 1..Len(dprs) : dprs[i].eng \in Engineer
  <2>1. \A i \in 1..Len(dprs) : dprs[i] \in Entry
        OBVIOUS
  <2> QED BY <2>1 DEF Entry
<1>3. Engineers(dprs) \in [1..Len(dprs) -> Engineer]
      BY <1>1, <1>2 DEF Engineers
<1>4. Engineers(dprs) \in Seq(Engineer) /\ Len(Engineers(dprs)) = Len(dprs)
      BY <1>1, <1>3
<1>5. dprs # <<>> => Len(dprs) # 0
      OBVIOUS
<1> QED BY <1>4, <1>5

\* A pod that becomes l, a run of the right type with an engineer at hand
\* where it needs one, leaves the runs as they should be.
LEMMA BecomeType ==
  ASSUME run \in [Pod -> Run], LoopInv, NEW p \in Pod, NEW l \in Run, Become(p, l),
         l.pc \in {"prs", "upsert", "rank"} => l.todo # <<>>,
         l.pc = "rank" => l.dprs # <<>>
  PROVE  run' \in [Pod -> Run] /\ LoopInv'
<1>1. \A q \in Pod : run'[q] = IF q = p THEN l ELSE run[q]
      BY DEF Become
<1>2. run' \in [Pod -> Run]
      BY DEF Become
<1> QED BY <1>1, <1>2 DEF LoopInv

\* The next engineer of pass 1.
LEMMA ContinueType ==
  ASSUME NEW l \in Run, l.todo # <<>>
  PROVE  Continue(l) \in Run /\ Continue(l).pc = "usage" /\ Continue(l).dprs = l.dprs
<1>1. Tail(l.todo) \in Seq(Engineer)
      BY TailType DEF Run
<1>2. NoFacts \in FactType
      BY DEF NoFacts, FactType
<1> QED BY <1>1, <1>2 DEF Continue, Run

\* The next engineer of pass 2, or the end of the run.
LEMMA RankedType ==
  ASSUME NEW l \in Run, l.pc = "rank", l.todo # <<>>, l.dprs # <<>>
  PROVE  LET r == Ranked(l)
         IN  /\ r \in Run
             /\ r.pc \in {"prs", "upsert", "rank"} => r.todo # <<>>
             /\ r.pc = "rank" => r.dprs # <<>>
<1>1. CASE Len(l.todo) = 1
  <2>1. Ranked(l) = Idle /\ Idle.pc = "idle"
        BY <1>1 DEF Ranked, Idle
  <2> QED BY <2>1, IdleType
<1>2. CASE Len(l.todo) # 1
  <2>1. Tail(l.todo) \in Seq(Engineer) /\ Tail(l.todo) # <<>>
        BY <1>2, TailType DEF Run
  <2> QED BY <1>2, <2>1 DEF Ranked, Run
<1> QED BY <1>1, <1>2

\* A statement that sets a row keeps the type of the rows.
LEMMA WriteType ==
  ASSUME rows \in [Day -> [Engineer -> Row]], NEW d \in Day, NEW e \in Engineer, NEW r \in Row,
         Write(d, e, r)
  PROVE  rows' \in [Day -> [Engineer -> Row]]
BY DEF Write

-----------------------------------------------------------------------------
(* Every step keeps the types                                              *)

\* The world changes, which no run notices.
LEMMA WorldType == ASSUME TypeOK, LoopInv, FactsChange \/ Midnight PROVE TypeOK' /\ LoopInv'
<1>0. run' = run /\ faults' = faults
      BY DEF FactsChange, Midnight
<1>1. CASE FactsChange
  <2>1. facts' \in [Day -> [Engineer -> Facts]] /\ quiet' \subseteq Day
    <3>1. PICK d \in 0..day, e \in Engineer, f \in Facts :
            facts' = [facts EXCEPT ![d][e] = f] /\ quiet' = quiet \ {d}
          BY <1>1 DEF FactsChange
    <3>2. d \in Day
          BY Constants DEF TypeOK, Day
    <3> QED BY <3>1, <3>2 DEF TypeOK
  <2>2. changes' \in 0..MaxChanges
        BY <1>1, Constants DEF FactsChange, TypeOK
  <2> QED BY <1>0, <1>1, <2>1, <2>2 DEF FactsChange, TypeOK, LoopInv
<1>2. CASE Midnight
  <2>1. day' \in Day
        BY <1>2, Constants DEF Midnight, TypeOK, Day
  <2>2. UNCHANGED <<facts, rows, quiet, changes>>
        BY <1>2 DEF Midnight
  <2> QED BY <1>0, <2>1, <2>2 DEF TypeOK, LoopInv
<1> QED BY <1>1, <1>2

\* Pass 1 reads: the run starts, or one of the queries answers.
LEMMA ReadType ==
  ASSUME TypeOK, LoopInv, NEW p \in Pod,
         RunOnce(p) \/ EngineerUsageAggregate(p) \/ PRCountsForEngineer(p)
  PROVE  run' \in [Pod -> Run] /\ LoopInv'
<1> DEFINE l == run[p]
<1>0. /\ run \in [Pod -> Run] /\ l \in Run
      /\ facts \in [Day -> [Engineer -> Facts]] /\ day \in Day
      BY TypeNamed
<1>1. ASSUME l.todo # <<>>
      PROVE  LET f == facts[l.end][Head(l.todo)]
             IN  f.cost \in Nat /\ f.merged \in Nat /\ f.reverted \in Nat
  <2>1. Head(l.todo) \in Engineer /\ l.end \in Day
        BY <1>0, <1>1, TailType DEF Run
  <2> QED BY <1>0, <2>1, Constants
<1>2. CASE RunOnce(p)
  <2>1. PICK s \in Orders[p] :
          Become(p, [Idle EXCEPT !.pc = "usage", !.end = day, !.todo = s])
        BY <1>2 DEF RunOnce
  <2>2. s \in Seq(Engineer)
        BY Constants
  <2> DEFINE r == [Idle EXCEPT !.pc = "usage", !.end = day, !.todo = s]
  <2>3. r \in Run /\ r.pc = "usage"
        BY <1>0, <2>2, IdleType DEF Run
  <2> QED BY <1>0, <2>1, <2>3, BecomeType
<1>3. CASE EngineerUsageAggregate(p)
  <2> DEFINE r == [l EXCEPT !.pc = "prs", !.sig.cost = facts[l.end][Head(l.todo)].cost]
  <2>1. l.todo # <<>> /\ Become(p, r)
        BY <1>3 DEF EngineerUsageAggregate
  <2>2. r \in Run /\ r.pc = "prs" /\ r.todo = l.todo
        BY <1>0, <1>1, <2>1 DEF Run, FactType
  <2> QED BY <1>0, <2>1, <2>2, BecomeType
<1>4. CASE PRCountsForEngineer(p)
  <2> DEFINE f == facts[l.end][Head(l.todo)]
             r == [l EXCEPT !.pc = "upsert", !.sig.merged = f.merged, !.sig.reverted = f.reverted]
  <2>1. l.todo # <<>> /\ Become(p, r)
        BY <1>4 DEF PRCountsForEngineer, LoopInv
  <2>2. r \in Run /\ r.pc = "upsert" /\ r.todo = l.todo
        BY <1>0, <1>1, <2>1 DEF Run, FactType
  <2> QED BY <1>0, <2>1, <2>2, BecomeType
<1> QED BY <1>2, <1>3, <1>4

\* Pass 1 writes a row, and the engineer joins the cohort.
LEMMA UpsertType ==
  ASSUME TypeOK, LoopInv, NEW p \in Pod, UpsertEngineerSignal(p)
  PROVE  run' \in [Pod -> Run] /\ LoopInv' /\ rows' \in [Day -> [Engineer -> Row]]
<1> DEFINE l == run[p]  e == Head(l.todo)
<1>1. /\ run \in [Pod -> Run] /\ l \in Run /\ rows \in [Day -> [Engineer -> Row]]
      /\ l.pc = "upsert" /\ l.todo # <<>>
      BY TypeNamed DEF UpsertEngineerSignal, LoopInv
<1>2. e \in Engineer
      BY <1>1, TailType DEF Run
<1>3. l.sig \in FactType /\ l.dprs \in Seq(Entry) /\ l.end \in Day
      BY <1>1 DEF Run
<1>4. rows' \in [Day -> [Engineer -> Row]]
  <2>1. Write(l.end, e, Upserted(rows[l.end][e], l.sig))
        BY DEF UpsertEngineerSignal
  <2>2. Upserted(rows[l.end][e], l.sig) \in Row
    <3>1. \A r \in Row : Upserted(r, l.sig) \in Row
          BY <1>3 DEF Upserted, Row, DprType
    <3> QED BY <1>1, <1>2, <1>3, <3>1
  <2> QED BY <1>1, <1>2, <1>3, <2>1, <2>2, WriteType
<1>5. Continue(l) \in Run /\ Continue(l).pc = "usage" /\ Continue(l).dprs = l.dprs
      BY <1>1, ContinueType
<1>6. CASE Become(p, Continue(l))
      BY <1>1, <1>4, <1>5, <1>6, BecomeType
<1>7. CASE Become(p, [Continue(l) EXCEPT !.dprs = Appended(@, e, Dpr(l.sig))])
  <2> DEFINE r == [Continue(l) EXCEPT !.dprs = Appended(@, e, Dpr(l.sig))]
  <2>1. Appended(l.dprs, e, Dpr(l.sig)) \in Seq(Entry)
        BY <1>2, <1>3, DprOfFacts, AppendedType
  <2>2. r = [Continue(l) EXCEPT !.dprs = Appended(l.dprs, e, Dpr(l.sig))]
        BY <1>5
  <2>3. r \in Run /\ r.pc = "usage"
        BY <1>5, <2>1, <2>2 DEF Run
  <2> QED BY <1>1, <1>4, <1>7, <2>3, BecomeType
<1> QED BY <1>4, <1>6, <1>7 DEF UpsertEngineerSignal

\* Pass 2: the cohort, and the update of a row.
LEMMA RankingType ==
  ASSUME TypeOK, LoopInv, NEW p \in Pod, Cohort(p) \/ SetPeerPercentile(p)
  PROVE  run' \in [Pod -> Run] /\ LoopInv' /\ rows' \in [Day -> [Engineer -> Row]]
<1> DEFINE l == run[p]
<1>0. /\ run \in [Pod -> Run] /\ l \in Run /\ rows \in [Day -> [Engineer -> Row]]
      /\ l.dprs \in Seq(Entry) /\ l.end \in Day
      BY TypeNamed DEF Run
<1>1. CASE Cohort(p)
  <2>1. CASE Become(p, Idle)
    <3>1. Idle.pc = "idle"
          BY DEF Idle
    <3> QED BY <1>0, <1>1, <2>1, <3>1, IdleType, BecomeType DEF Cohort
  <2>2. CASE ~(Len(l.dprs) < 3)
                /\ Become(p, [l EXCEPT !.pc = "rank", !.todo = Engineers(l.dprs)])
    <3> DEFINE r == [l EXCEPT !.pc = "rank", !.todo = Engineers(l.dprs)]
    <3>1. l.dprs # <<>>
      <4>1. Len(<<>>) = 0
            OBVIOUS
      <4> QED BY <2>2, <4>1
    <3>2. Engineers(l.dprs) \in Seq(Engineer) /\ Engineers(l.dprs) # <<>>
          BY <1>0, <3>1, EngineersType
    <3>3. r \in Run /\ r.pc = "rank" /\ r.todo # <<>> /\ r.dprs # <<>>
          BY <1>0, <3>1, <3>2 DEF Run
    <3> QED BY <1>0, <1>1, <2>2, <3>3, BecomeType DEF Cohort
  <2> QED BY <1>1, <2>1, <2>2 DEF Cohort
<1>2. CASE SetPeerPercentile(p)
  <2> DEFINE e == Head(l.todo)  valid == Values(l.dprs)
             r == [rows[l.end][e] EXCEPT !.median = MedianOf(valid),
                                         !.pct = PercentileRank(valid, DprOf(l.dprs, e))]
  <2>1. l.pc = "rank" /\ Write(l.end, e, r) /\ Become(p, Ranked(l))
        BY <1>2 DEF SetPeerPercentile
  <2>2. l.todo # <<>> /\ l.dprs # <<>>
        BY <2>1 DEF LoopInv
  <2>3. e \in Engineer
        BY <1>0, <2>2, TailType DEF Run
  <2>4. IsCohort(valid)
        BY <1>0, <2>2, ValuesCohort
  <2>5. MedianOf(valid) \in Nat /\ PercentileRank(valid, DprOf(l.dprs, e)) \in 0..100
        BY <2>4, MedianHalves, RankType
  <2>6. r \in Row
    <3>1. \A m \in Nat, k \in 0..100, q \in Row : [q EXCEPT !.median = m, !.pct = k] \in Row
          BY DEF Row, DprType
    <3>2. rows[l.end][e] \in Row
          BY <1>0, <2>3
    <3> QED BY <2>5, <3>1, <3>2
  <2>7. rows' \in [Day -> [Engineer -> Row]]
        BY <1>0, <2>1, <2>3, <2>6, WriteType
  <2>8. run' \in [Pod -> Run] /\ LoopInv'
        BY <1>0, <2>1, <2>2, RankedType, BecomeType
  <2> QED BY <2>7, <2>8
<1> QED BY <1>1, <1>2

\* A call fails, or the pod dies.
LEMMA FaultsType ==
  ASSUME TypeOK, LoopInv, NEW p \in Pod, CallFails(p) \/ PodCrash(p)
  PROVE  run' \in [Pod -> Run] /\ LoopInv'
<1> DEFINE l == run[p]
<1>0. run \in [Pod -> Run] /\ l \in Run
      BY TypeNamed
<1>1. CASE l.todo # <<>> /\ Become(p, Continue(l))
      BY <1>0, <1>1, ContinueType, BecomeType
<1>2. CASE l.pc = "rank" /\ Become(p, Ranked(l))
  <2>1. l.todo # <<>> /\ l.dprs # <<>>
        BY <1>2 DEF LoopInv
  <2> QED BY <1>0, <1>2, <2>1, RankedType, BecomeType
<1>3. CASE Become(p, Idle)
  <2>1. Idle.pc = "idle"
        BY DEF Idle
  <2> QED BY <1>0, <1>3, <2>1, IdleType, BecomeType
<1> QED BY <1>1, <1>2, <1>3 DEF CallFails, PodCrash

\* Every step keeps the types and the loops' invariant.
LEMMA TypeStep == TypeOK /\ LoopInv /\ [Next]_vars => TypeOK' /\ LoopInv'
<1> SUFFICES ASSUME TypeOK, LoopInv, [Next]_vars PROVE TypeOK' /\ LoopInv'
    OBVIOUS
<1>1. CASE UNCHANGED vars
      BY <1>1 DEF vars, TypeOK, LoopInv
<1>2. CASE FactsChange \/ Midnight
      BY <1>2, WorldType
<1>3. ASSUME NEW p \in Pod, Rollup(p) \/ CallFails(p) \/ PodCrash(p)
      PROVE  TypeOK' /\ LoopInv'
  <2>1. facts' = facts /\ day' = day /\ changes' = changes
        BY <1>3 DEF Rollup, RunOnce, EngineerUsageAggregate, PRCountsForEngineer,
                    UpsertEngineerSignal, Cohort, SetPeerPercentile, CallFails, PodCrash
  <2>2. faults' \in 0..MaxFaults /\ quiet' \subseteq Day
    <3>1. \/ NoFault \/ \E d : Fault(d)
          \/ faults' = faults /\ (quiet' = quiet \/ quiet' = quiet \cup {day})
          BY <1>3 DEF Rollup, RunOnce, EngineerUsageAggregate, PRCountsForEngineer,
                      UpsertEngineerSignal, Cohort, SetPeerPercentile, CallFails, PodCrash
    <3> QED BY <3>1, Constants DEF Fault, NoFault, TypeOK
  <2>3. run' \in [Pod -> Run] /\ LoopInv' /\ rows' \in [Day -> [Engineer -> Row]]
    <3>1. CASE RunOnce(p) \/ EngineerUsageAggregate(p) \/ PRCountsForEngineer(p)
      <4>1. rows' = rows
            BY <3>1 DEF RunOnce, EngineerUsageAggregate, PRCountsForEngineer
      <4> QED BY <3>1, <4>1, ReadType, TypeNamed
    <3>2. CASE UpsertEngineerSignal(p)
          BY <3>2, UpsertType
    <3>3. CASE Cohort(p) \/ SetPeerPercentile(p)
          BY <3>3, RankingType
    <3>4. CASE CallFails(p) \/ PodCrash(p)
      <4>1. rows' = rows
            BY <3>4 DEF CallFails, PodCrash
      <4> QED BY <3>4, <4>1, FaultsType, TypeNamed
    <3> QED BY <1>3, <3>1, <3>2, <3>3, <3>4 DEF Rollup
  <2> QED BY <2>1, <2>2, <2>3, TypeNamed DEF TypeOK, Row, Run, Entry
<1> QED BY <1>1, <1>2, <1>3 DEF Next

\* The initial state has the types.
LEMMA TypeInit == Init => TypeOK /\ LoopInv
<1> SUFFICES ASSUME Init PROVE TypeOK /\ LoopInv
    OBVIOUS
<1>1. /\ facts \in [Day -> [Engineer -> Facts]] /\ day \in Day /\ quiet \subseteq Day
      /\ changes \in 0..MaxChanges /\ faults \in 0..MaxFaults
      BY Constants DEF Init, Day
<1>2. NoRow \in Row
      BY DEF NoRow, Row, NoFacts, FactType, DprType
<1>3. rows \in [Day -> [Engineer -> Row]]
      BY <1>2 DEF Init
<1>4. run \in [Pod -> Run]
      BY IdleType DEF Init
<1>5. LoopInv
      BY DEF Init, LoopInv, Idle
<1> QED BY <1>1, <1>3, <1>4, <1>5, TypeNamed

\* Every variable has its type in every state that a behaviour reaches: no loop
\* of rollup.go's RunOnce looks for an engineer who is not there, no median is
\* taken of nobody and no rank divides by zero, and every rank is a percentage.
THEOREM TypeCorrect == Spec => []TypeOK
<1>1. TypeOK /\ LoopInv /\ [Next]_vars => TypeOK' /\ LoopInv'
      BY TypeStep
<1> QED BY <1>1, TypeInit, PTL DEF Spec

\* What RunOnce ranks by is an order of the costs, in every cohort that pass 2
\* of any pod meets and in every part of one, of any size and with ties: one
\* direction throughout, somebody at 100, distinct ranks for up to a hundred
\* engineers who pay differently, and a median that halves the cohort.
THEOREM RanksFollowCosts == Spec => []CohortRanks
<1>1. TypeOK => CohortRanks
  <2> SUFFICES ASSUME TypeOK, NEW p \in Pod, run[p].pc = "rank",
                      NEW part \in SUBSET DOMAIN run[p].dprs, part # {}
               PROVE  RanksByCost([i \in part |-> run[p].dprs[i].dpr])
      BY DEF CohortRanks
  <2>1. run[p].dprs \in Seq(Entry)
        BY TypeNamed DEF Run
  <2> QED BY <2>1, EntriesCohort, CohortRanked
<1> QED BY <1>1, TypeCorrect, PTL

-----------------------------------------------------------------------------
(* Quiet windows                                                           *)

\* A loop over a sequence: the engineer at hand, and those that are left.
LEMMA HeadTail ==
  ASSUME NEW s \in Seq(Engineer), s # <<>>
  PROVE  /\ ToSet(s) = {Head(s)} \cup ToSet(Tail(s))
         /\ Len(s) = 1 => ToSet(s) = {Head(s)}
         /\ IsInjective(s) => IsInjective(Tail(s)) /\ Head(s) \notin ToSet(Tail(s))
<1>1. Len(s) \in Nat \ {0} /\ DOMAIN s = 1..Len(s) /\ Head(s) = s[1]
      OBVIOUS
<1>2. /\ DOMAIN Tail(s) = 1..(Len(s) - 1)
      /\ \A i \in 1..(Len(s) - 1) : Tail(s)[i] = s[i + 1]
      BY <1>1
<1>3. \A i \in 1..Len(s) : i = 1 \/ (i - 1 \in 1..(Len(s) - 1) /\ i = (i - 1) + 1)
      BY <1>1
<1>4. \A i \in 1..(Len(s) - 1) : i + 1 \in 1..Len(s) /\ i + 1 # 1
      BY <1>1
<1>5. ToSet(s) = {Head(s)} \cup ToSet(Tail(s))
  <2>1. ToSet(s) \subseteq {Head(s)} \cup ToSet(Tail(s))
    <3> SUFFICES ASSUME NEW i \in 1..Len(s) PROVE s[i] \in {Head(s)} \cup ToSet(Tail(s))
        BY <1>1 DEF ToSet
    <3>1. CASE i = 1
          BY <1>1, <3>1
    <3>2. CASE i - 1 \in 1..(Len(s) - 1) /\ i = (i - 1) + 1
      <4>1. Tail(s)[i - 1] = s[i]
            BY <1>2, <3>2
      <4> QED BY <1>2, <3>2, <4>1 DEF ToSet
    <3> QED BY <1>3, <3>1, <3>2
  <2>2. \A i \in 1..(Len(s) - 1) : Tail(s)[i] \in ToSet(s)
        BY <1>1, <1>2, <1>4 DEF ToSet
  <2>3. Head(s) \in ToSet(s)
        BY <1>1 DEF ToSet
  <2>4. ToSet(Tail(s)) \subseteq ToSet(s)
        BY <1>2, <2>2 DEF ToSet
  <2> QED BY <2>1, <2>3, <2>4
<1>6. ASSUME Len(s) = 1 PROVE ToSet(s) = {Head(s)}
  <2>1. DOMAIN s = {1}
        BY <1>1, <1>6
  <2> QED BY <1>1, <2>1 DEF ToSet
<1>7. ASSUME IsInjective(s) PROVE IsInjective(Tail(s)) /\ Head(s) \notin ToSet(Tail(s))
  <2>1. ASSUME NEW i \in 1..(Len(s) - 1), NEW j \in 1..(Len(s) - 1), Tail(s)[i] = Tail(s)[j]
        PROVE  i = j
    <3>1. s[i + 1] = s[j + 1] /\ i + 1 \in DOMAIN s /\ j + 1 \in DOMAIN s
          BY <1>1, <1>2, <1>4, <2>1
    <3>2. i + 1 = j + 1
          BY <1>7, <3>1 DEF IsInjective
    <3> QED BY <3>2
  <2>2. ASSUME NEW i \in 1..(Len(s) - 1) PROVE Tail(s)[i] # s[1]
    <3>1. i + 1 \in DOMAIN s /\ 1 \in DOMAIN s /\ i + 1 # 1
          BY <1>1, <1>4
    <3>2. s[i + 1] # s[1]
          BY <1>7, <3>1 DEF IsInjective
    <3> QED BY <1>2, <3>2
  <2>3. IsInjective(Tail(s))
        BY <1>2, <2>1 DEF IsInjective
  <2> QED BY <1>1, <1>2, <2>2, <2>3 DEF ToSet
<1> QED BY <1>5, <1>6, <1>7

\* In a window with the facts w: who is ranked, by what, and the right row.
ValidIn(w) == {f \in Engineer : Dpr(w[f]) # Null}
CohortOf(w) == [f \in ValidIn(w) |-> Dpr(w[f])]
RightRow(w, e) ==
  LET ranked == e \in ValidIn(w) /\ Size(CohortOf(w)) >= 3
  IN  [sig    |-> w[e],
       median |-> IF ranked THEN MedianOf(CohortOf(w)) ELSE Null,
       pct    |-> IF ranked THEN PercentileRank(CohortOf(w), Dpr(w[e])) ELSE Null]

\* The entries of a run are right, and there is one for each engineer of who.
RightEntries(dprs, w, who) ==
  /\ \A i \in DOMAIN dprs : dprs[i].eng \in who /\ dprs[i].dpr = Dpr(w[dprs[i].eng])
  /\ \A i, j \in DOMAIN dprs : dprs[i].eng = dprs[j].eng => i = j
  /\ \A e \in who : \E i \in DOMAIN dprs : dprs[i].eng = e

Pass1(l) == l.pc \in {"usage", "prs", "upsert"}

\* A run has read the facts w, of all engineers up to the one at hand.
RightRun(l, w) ==
  /\ Pass1(l) => IsInjective(l.todo) /\ RightEntries(l.dprs, w, ValidIn(w) \ ToSet(l.todo))
  /\ l.pc = "rank" => /\ RightEntries(l.dprs, w, ValidIn(w)) /\ Len(l.dprs) >= 3
                      /\ ToSet(l.todo) \subseteq ValidIn(w)
  /\ l.pc \in {"prs", "upsert"} => l.sig.cost = w[Head(l.todo)].cost
  /\ l.pc = "upsert" => l.sig = w[Head(l.todo)]

\* A run has upserted the row of e; it has yet to write it for the last time.
Passed(l, e)  == l.pc = "rank" \/ (Pass1(l) /\ e \notin ToSet(l.todo))
ToWrite(l, e) == Pass1(l) \/ (l.pc = "rank" /\ e \in ToSet(l.todo))

\* A row is right but for the rank and the median, which may be missing.
Settled(row, w, e) ==
  \/ row = RightRow(w, e)
  \/ row.sig = w[e] /\ row.median = Null /\ row.pct = Null

\* Each row of a quiet window is right, or a run under way will make it so.
QuietAt(d) ==
  /\ \A p \in Pod : UnderWay(p, d) => RightRun(run[p], facts[d])
  /\ \A p \in Pod, e \in Engineer :
       UnderWay(p, d) /\ Passed(run[p], e) => Settled(rows[d][e], facts[d], e)
  /\ \A e \in Engineer :
       \/ rows[d][e] = RightRow(facts[d], e)
       \/ \E p \in Pod : UnderWay(p, d) /\ ToWrite(run[p], e)

QuietInv == \A d \in quiet : QuietAt(d)

\* The reference of the property is the right row.
LEMMA ReferenceIs == ASSUME NEW d, NEW e PROVE Reference(d, e) = RightRow(facts[d], e)
<1> DEFINE w == facts[d]
<1>1. e \in ValidIn(w) => CohortOf(w)[e] = Dpr(w[e])
      BY DEF CohortOf
<1> QED BY <1>1 DEF Reference, RightRow, CohortOf, ValidIn

\* What a run ranks by is the cohort of its window.
LEMMA RightCohort ==
  ASSUME NEW w, NEW dprs \in Seq(Entry), RightEntries(dprs, w, ValidIn(w))
  PROVE  /\ Size(CohortOf(w)) = Len(dprs)
         /\ dprs # <<>> =>
              /\ MedianOf(Values(dprs)) = MedianOf(CohortOf(w))
              /\ \A v : PercentileRank(Values(dprs), v) = PercentileRank(CohortOf(w), v)
         /\ \A e \in ValidIn(w) : DprOf(dprs, e) = Dpr(w[e])
<1> DEFINE f == Values(dprs)  g == CohortOf(w)  b == Engineers(dprs)
<1>1. /\ DOMAIN dprs = 1..Len(dprs) /\ Len(dprs) \in Nat
      /\ DOMAIN f = DOMAIN dprs /\ DOMAIN g = ValidIn(w)
      /\ IsFiniteSet(1..Len(dprs)) /\ Cardinality(1..Len(dprs)) = Len(dprs)
  <2>1. DOMAIN dprs = 1..Len(dprs) /\ Len(dprs) \in Nat
        OBVIOUS
  <2>2. DOMAIN f = DOMAIN dprs /\ DOMAIN g = ValidIn(w)
        BY DEF Values, CohortOf
  <2>3. IsFiniteSet(1..Len(dprs)) /\ Cardinality(1..Len(dprs)) = Len(dprs)
    <3>1. \A n \in Nat : IsFiniteSet(1..n) /\ Cardinality(1..n) = n
          BY FS_Interval
    <3> QED BY <2>1, <3>1
  <2> QED BY <2>1, <2>2, <2>3
<1>2. \A i \in DOMAIN dprs : b[i] = dprs[i].eng /\ f[i] = dprs[i].dpr
      BY DEF Engineers, Values
<1>3. \A e \in ValidIn(w) : g[e] = Dpr(w[e])
      BY DEF CohortOf
<1>4. Renames(b, f, g)
      BY <1>1, <1>2, <1>3 DEF Renames, RightEntries
<1>5. Size(g) = Len(dprs) /\ IsFiniteSet(DOMAIN g)
  <2>1. Size(f) = Len(dprs)
        BY <1>1 DEF Size
  <2> QED BY <1>1, <1>4, <2>1, RenamedCounts
<1>6. ASSUME dprs # <<>>
      PROVE  MedianOf(f) = MedianOf(g) /\ \A v : PercentileRank(f, v) = PercentileRank(g, v)
  <2>1. IsCohort(f)
        BY <1>6, ValuesCohort
  <2>2. IsCohort(g)
    <3>1. PICK i \in DOMAIN f : TRUE
          BY <2>1 DEF IsCohort
    <3>2. DOMAIN g # {}
          BY <1>4, <3>1 DEF Renames
    <3>3. ASSUME NEW x \in DOMAIN g PROVE g[x] \in Nat
      <4>1. PICK j \in DOMAIN f : b[j] = x
            BY <1>4 DEF Renames
      <4> QED BY <1>4, <2>1, <4>1 DEF Renames, IsCohort
    <3> QED BY <1>5, <3>2, <3>3 DEF IsCohort
  <2> QED BY <1>4, <2>1, <2>2, RenamedCohort
<1>7. ASSUME NEW e \in ValidIn(w) PROVE DprOf(dprs, e) = Dpr(w[e])
  <2> DEFINE i == CHOOSE i \in DOMAIN dprs : dprs[i].eng = e
  <2>1. i \in DOMAIN dprs /\ dprs[i].eng = e
    <3>1. \E j \in DOMAIN dprs : dprs[j].eng = e
          BY DEF RightEntries
    <3> QED BY <3>1
  <2> HIDE DEF i
  <2>2. dprs[i].dpr = Dpr(w[e])
        BY <2>1 DEF RightEntries
  <2> QED BY <2>2 DEF DprOf, i
<1> QED BY <1>5, <1>6, <1>7

\* A settled row of an engineer who is not ranked is right.
LEMMA UnrankedRow ==
  ASSUME NEW w, NEW e, NEW row \in Row, Settled(row, w, e),
         e \notin ValidIn(w) \/ ~(Size(CohortOf(w)) >= 3)
  PROVE  row = RightRow(w, e)
<1>1. RightRow(w, e) = [sig |-> w[e], median |-> Null, pct |-> Null]
      BY DEF RightRow
<1>2. row = [sig |-> row.sig, median |-> row.median, pct |-> row.pct]
      BY DEF Row
<1> QED BY <1>1, <1>2 DEF Settled

\* Pass 2 makes a settled row right.
LEMMA RankedRow ==
  ASSUME NEW w, NEW e \in ValidIn(w), NEW row \in Row, Settled(row, w, e),
         NEW dprs \in Seq(Entry), RightEntries(dprs, w, ValidIn(w)), Len(dprs) >= 3
  PROVE  [row EXCEPT !.median = MedianOf(Values(dprs)),
                     !.pct = PercentileRank(Values(dprs), DprOf(dprs, e))] = RightRow(w, e)
<1> DEFINE m == MedianOf(CohortOf(w))  k == PercentileRank(CohortOf(w), Dpr(w[e]))
<1>1. dprs # <<>>
  <2>1. Len(<<>>) = 0
        OBVIOUS
  <2> QED BY <2>1
<1>2. /\ Size(CohortOf(w)) >= 3 /\ MedianOf(Values(dprs)) = m
      /\ PercentileRank(Values(dprs), DprOf(dprs, e)) = k
      BY <1>1, RightCohort
<1>3. RightRow(w, e) = [sig |-> w[e], median |-> m, pct |-> k]
      BY <1>2 DEF RightRow
<1>4. row.sig = w[e]
      BY <1>3 DEF Settled
<1> HIDE DEF m, k
<1>5. [row EXCEPT !.median = m, !.pct = k] = [sig |-> row.sig, median |-> m, pct |-> k]
  <2>1. row = [sig |-> row.sig, median |-> row.median, pct |-> row.pct]
        BY DEF Row
  <2>2. [row EXCEPT !.median = m] = [sig |-> row.sig, median |-> m, pct |-> row.pct]
        BY <2>1
  <2>3. ASSUME NEW x, NEW g, x = [sig |-> g, median |-> m, pct |-> row.pct]
        PROVE  [x EXCEPT !.pct = k] = [sig |-> g, median |-> m, pct |-> k]
        BY <2>3
  <2> QED BY <2>2, <2>3
<1> QED BY <1>2, <1>3, <1>4, <1>5

\* The entry of an engineer whose row is upserted.
LEMMA AppendRight ==
  ASSUME NEW w, NEW dprs \in Seq(Entry), NEW e \in Engineer, NEW who, e \notin who,
         RightEntries(dprs, w, who)
  PROVE  RightEntries(Appended(dprs, e, Dpr(w[e])), w,
                      IF e \in ValidIn(w) THEN who \cup {e} ELSE who)
<1>1. CASE Dpr(w[e]) = Null
      BY <1>1 DEF Appended, ValidIn
<1>2. CASE Dpr(w[e]) # Null
  <2> DEFINE x == [eng |-> e, dpr |-> Dpr(w[e])]  s == Append(dprs, x)  n == Len(dprs)
  <2>1. Appended(dprs, e, Dpr(w[e])) = s /\ e \in ValidIn(w)
        BY <1>2 DEF Appended, ValidIn
  <2>2. n \in Nat /\ DOMAIN dprs = 1..n
        OBVIOUS
  <2>3. DOMAIN s = 1..(n + 1) /\ s[n + 1] = x /\ \A i \in 1..n : s[i] = dprs[i]
        OBVIOUS
  <2>4. x.eng = e /\ x.dpr = Dpr(w[e])
        OBVIOUS
  <2> HIDE DEF x, s
  <2>5. \A i \in DOMAIN s : i = n + 1 \/ i \in 1..n
        BY <2>2, <2>3
  <2>6. \A i \in 1..n : i \in DOMAIN s /\ i \in DOMAIN dprs
        BY <2>2, <2>3
  <2>7. n + 1 \in DOMAIN s
        BY <2>2, <2>3
  <2>8. \A i \in DOMAIN s : s[i].eng \in who \cup {e} /\ s[i].dpr = Dpr(w[s[i].eng])
        BY <2>3, <2>4, <2>5, <2>6 DEF RightEntries
  <2>9. \A i \in 1..n : s[i].eng # s[n + 1].eng
        BY <2>3, <2>4, <2>6 DEF RightEntries
  <2>10. \A i, j \in DOMAIN s : s[i].eng = s[j].eng => i = j
    <3> SUFFICES ASSUME NEW i \in DOMAIN s, NEW j \in DOMAIN s, s[i].eng = s[j].eng PROVE i = j
        OBVIOUS
    <3>1. CASE i \in 1..n /\ j \in 1..n
      <4>1. dprs[i].eng = dprs[j].eng
            BY <2>3, <3>1
      <4> QED BY <2>6, <3>1, <4>1 DEF RightEntries
    <3> QED BY <2>5, <2>9, <3>1
  <2>11. \A y \in who \cup {e} : \E i \in DOMAIN s : s[i].eng = y
    <3>1. ASSUME NEW y \in who PROVE \E i \in DOMAIN s : s[i].eng = y
      <4>1. PICK i \in DOMAIN dprs : dprs[i].eng = y
            BY DEF RightEntries
      <4> QED BY <2>2, <2>3, <2>6, <4>1
    <3> QED BY <2>3, <2>4, <2>7, <3>1
  <2> QED BY <2>1, <2>8, <2>10, <2>11 DEF RightEntries
<1> QED BY <1>1, <1>2

\* What a step leaves alone it leaves right.
LEMMA Elsewhere ==
  ASSUME NEW d, QuietAt(d), facts'[d] = facts[d], rows'[d] = rows[d],
         \A q \in Pod : run'[q] = run[q] \/ (~UnderWay(q, d) /\ ~UnderWay(q, d)')
  PROVE  QuietAt(d)'
<1>1. \A q \in Pod : UnderWay(q, d)' => UnderWay(q, d) /\ run'[q] = run[q]
      BY DEF UnderWay
<1>2. \A q \in Pod : UnderWay(q, d) => UnderWay(q, d)' /\ run'[q] = run[q]
      BY DEF UnderWay
<1>3. \A q \in Pod : UnderWay(q, d)' => RightRun(run'[q], facts'[d])
      BY <1>1 DEF QuietAt
<1>4. ASSUME NEW q \in Pod, NEW e \in Engineer, UnderWay(q, d)', Passed(run'[q], e)
      PROVE  Settled(rows'[d][e], facts'[d], e)
      BY <1>1, <1>4 DEF QuietAt
<1>5. ASSUME NEW e \in Engineer
      PROVE  \/ rows'[d][e] = RightRow(facts'[d], e)
             \/ \E q \in Pod : UnderWay(q, d)' /\ ToWrite(run'[q], e)
      BY <1>2 DEF QuietAt
<1> QED BY <1>3, <1>4, <1>5 DEF QuietAt

\* A step of one run of a quiet window.
LEMMA PodStep ==
  ASSUME NEW d, QuietAt(d), NEW p \in Pod, facts'[d] = facts[d],
         \A q \in Pod : q # p => run'[q] = run[q],
         \A e \in Engineer : rows'[d][e] = rows[d][e] \/ Settled(rows'[d][e], facts[d], e),
         UnderWay(p, d)' =>
           /\ RightRun(run'[p], facts[d])
           /\ \A e \in Engineer : Passed(run'[p], e) => Settled(rows'[d][e], facts[d], e),
         \A e \in Engineer :
           \/ rows'[d][e] = RightRow(facts[d], e)
           \/ UnderWay(p, d)' /\ ToWrite(run'[p], e)
           \/ rows'[d][e] = rows[d][e] /\ ~(UnderWay(p, d) /\ ToWrite(run[p], e))
  PROVE  QuietAt(d)'
<1>1. \A q \in Pod : q # p => (UnderWay(q, d)' <=> UnderWay(q, d))
      BY DEF UnderWay
<1>2. \A q \in Pod : UnderWay(q, d)' => RightRun(run'[q], facts'[d])
      BY <1>1 DEF QuietAt
<1>3. ASSUME NEW q \in Pod, NEW e \in Engineer, UnderWay(q, d)', Passed(run'[q], e)
      PROVE  Settled(rows'[d][e], facts'[d], e)
  <2>1. CASE q = p
        BY <1>3, <2>1
  <2>2. CASE q # p
    <3>1. Settled(rows[d][e], facts[d], e)
          BY <1>1, <1>3, <2>2 DEF QuietAt
    <3> QED BY <3>1
  <2> QED BY <2>1, <2>2
<1>4. ASSUME NEW e \in Engineer
      PROVE  \/ rows'[d][e] = RightRow(facts'[d], e)
             \/ \E q \in Pod : UnderWay(q, d)' /\ ToWrite(run'[q], e)
  <2>1. CASE rows'[d][e] = rows[d][e] /\ ~(UnderWay(p, d) /\ ToWrite(run[p], e))
    <3>1. CASE rows[d][e] = RightRow(facts[d], e)
          BY <2>1, <3>1
    <3>2. ASSUME NEW q \in Pod, UnderWay(q, d), ToWrite(run[q], e)
          PROVE  UnderWay(q, d)' /\ ToWrite(run'[q], e)
          BY <1>1, <2>1, <3>2
    <3> QED BY <3>1, <3>2 DEF QuietAt
  <2> QED BY <2>1
<1> QED BY <1>2, <1>3, <1>4 DEF QuietAt

\* Who becomes l, and who does not.
LEMMA Became ==
  ASSUME run \in [Pod -> Run], NEW p \in Pod, NEW l, Become(p, l)
  PROVE  run'[p] = l /\ \A q \in Pod : q # p => run'[q] = run[q]
BY DEF Become

\* A run begins: alone it will write every row, and it joins others harmlessly.
LEMMA RunOnceQuiet ==
  ASSUME TypeOK, LoopInv, QuietInv, NEW p \in Pod, RunOnce(p), NEW d \in quiet' PROVE QuietAt(d)'
<1>1. PICK s \in Orders[p] : Become(p, [Idle EXCEPT !.pc = "usage", !.end = day, !.todo = s])
      BY DEF RunOnce
<1> DEFINE r == [Idle EXCEPT !.pc = "usage", !.end = day, !.todo = s]
<1>2. facts' = facts /\ rows' = rows /\ run[p].pc = "idle" /\ p \in DOMAIN run
      BY TypeNamed DEF RunOnce
<1>3. run'[p] = r /\ \A q \in Pod : q # p => run'[q] = run[q]
      BY <1>1, <1>2 DEF Become
<1>4. IsInjective(s) /\ ToSet(s) = Engineer
      BY Constants
<1>5. r.pc = "usage" /\ r.end = day /\ r.todo = s /\ r.dprs = <<>>
      BY DEF Idle
<1> HIDE DEF r
<1>6. \A e \in Engineer : ~Passed(r, e) /\ ToWrite(r, e)
      BY <1>4, <1>5 DEF Passed, ToWrite, Pass1
<1>7. RightRun(r, facts[d])
  <2>1. ValidIn(facts[d]) \ ToSet(s) = {}
        BY <1>4 DEF ValidIn
  <2>2. RightEntries(<<>>, facts[d], {})
    <3>1. DOMAIN <<>> = {}
          OBVIOUS
    <3> QED BY <3>1 DEF RightEntries
  <2> QED BY <1>4, <1>5, <2>1, <2>2 DEF RightRun, Pass1
<1>8. CASE d # day
  <2>1. d \in quiet
        BY <1>8 DEF RunOnce
  <2>2. ~UnderWay(p, d) /\ ~UnderWay(p, d)'
        BY <1>2, <1>3, <1>5, <1>8 DEF UnderWay
  <2> QED BY <1>2, <1>3, <2>1, <2>2, Elsewhere DEF QuietInv
<1>9. CASE d = day
  <2>1. UnderWay(p, d)'
        BY <1>3, <1>5, <1>9 DEF UnderWay
  <2>2. CASE \E q \in Pod : UnderWay(q, day)
    <3>1. QuietAt(d)
          BY <2>2 DEF RunOnce, QuietInv
    <3> QED BY <1>2, <1>3, <1>6, <1>7, <2>1, <3>1, PodStep
  <2>3. CASE ~\E q \in Pod : UnderWay(q, day)
    <3>1. \A q \in Pod : UnderWay(q, d)' => q = p
          BY <1>3, <1>9, <2>3 DEF UnderWay
    <3>2. \A q \in Pod : UnderWay(q, d)' => RightRun(run'[q], facts'[d])
          BY <1>2, <1>3, <1>7, <3>1
    <3>3. \A q \in Pod, e \in Engineer : UnderWay(q, d)' => ~Passed(run'[q], e)
          BY <1>3, <1>6, <3>1
    <3>4. \A e \in Engineer : UnderWay(p, d)' /\ ToWrite(run'[p], e)
          BY <1>3, <1>6, <2>1
    <3> QED BY <3>2, <3>3, <3>4 DEF QuietAt
  <2> QED BY <2>2, <2>3
<1> QED BY <1>8, <1>9

\* A run of a quiet window reads its facts.
LEMMA ReadQuiet ==
  ASSUME TypeOK, LoopInv, QuietInv, NEW p \in Pod,
         EngineerUsageAggregate(p) \/ PRCountsForEngineer(p), NEW d \in quiet'
  PROVE  QuietAt(d)'
<1> DEFINE l == run[p]  w == facts[d]  h == Head(l.todo)
<1>1. /\ facts' = facts /\ rows' = rows /\ quiet' = quiet
      /\ \A q \in Pod : q # p => run'[q] = run[q]
  <2>1. /\ facts' = facts /\ rows' = rows /\ quiet' = quiet
        /\ \E r : Become(p, r)
        BY DEF EngineerUsageAggregate, PRCountsForEngineer
  <2> QED BY <2>1, TypeNamed, Became
<1>2. l \in Run /\ p \in DOMAIN run /\ d \in Day /\ facts[d] \in [Engineer -> Facts]
      BY <1>1, TypeNamed
<1>3. l.todo # <<>> /\ h \in Engineer
  <2>1. l.todo # <<>>
        BY DEF EngineerUsageAggregate, PRCountsForEngineer, LoopInv
  <2> QED BY <1>2, <2>1, TailType DEF Run
<1>4. /\ Pass1(l) /\ Pass1(run'[p]) /\ run'[p].end = l.end
      /\ run'[p].todo = l.todo /\ run'[p].dprs = l.dprs
      /\ l.end = d => /\ run'[p].pc = "prs" => run'[p].sig.cost = w[h].cost
                      /\ l.sig.cost = w[h].cost /\ run'[p].pc = "upsert" => run'[p].sig = w[h]
                      /\ run'[p].pc # "usage"
  <2>1. CASE EngineerUsageAggregate(p)
        BY <1>2, <2>1 DEF EngineerUsageAggregate, Become, Pass1, Run, FactType
  <2>2. CASE PRCountsForEngineer(p)
    <3>1. /\ l.pc = "prs"
          /\ Become(p, [l EXCEPT !.pc = "upsert", !.sig.merged = facts[l.end][h].merged,
                                 !.sig.reverted = facts[l.end][h].reverted])
          BY <2>2 DEF PRCountsForEngineer
    <3>2. /\ run'[p].pc = "upsert" /\ run'[p].end = l.end
          /\ run'[p].todo = l.todo /\ run'[p].dprs = l.dprs
          /\ run'[p].sig = [cost |-> l.sig.cost, merged |-> facts[l.end][h].merged,
                            reverted |-> facts[l.end][h].reverted]
          BY <1>2, <3>1 DEF Become, Run, FactType
    <3>3. ASSUME l.end = d, l.sig.cost = w[h].cost PROVE run'[p].sig = w[h]
      <4>1. w[h] \in FactType
            BY <1>2, <1>3, Constants DEF FactType
      <4>2. w[h] = [cost |-> w[h].cost, merged |-> w[h].merged, reverted |-> w[h].reverted]
            BY <4>1 DEF FactType
      <4> QED BY <3>2, <3>3, <4>2
    <3> QED BY <3>1, <3>2, <3>3 DEF Pass1
  <2> QED BY <2>1, <2>2
<1>5. CASE l.end # d
      BY <1>1, <1>4, <1>5, Elsewhere DEF QuietInv, UnderWay
<1>6. CASE l.end = d
  <2>1. UnderWay(p, d) /\ RightRun(l, w) /\ QuietAt(d)
        BY <1>1, <1>4, <1>6 DEF UnderWay, Pass1, QuietInv, QuietAt
  <2>2. l.pc = "prs" => l.sig.cost = w[h].cost
        BY <2>1 DEF RightRun
  <2>3. RightRun(run'[p], w)
    <3>1. IsInjective(l.todo) /\ RightEntries(l.dprs, w, ValidIn(w) \ ToSet(l.todo))
          BY <1>4, <2>1 DEF RightRun
    <3>2. run'[p].pc = "upsert" => l.pc = "prs"
          BY <1>2 DEF EngineerUsageAggregate, PRCountsForEngineer, Become, Run
    <3>3. run'[p].pc \in {"prs", "upsert"} => run'[p].sig.cost = w[h].cost
          BY <1>4, <1>6, <2>2, <3>2
    <3>4. run'[p].pc # "rank"
          BY <1>4 DEF Pass1
    <3> QED BY <1>4, <1>6, <2>2, <3>1, <3>2, <3>3, <3>4 DEF RightRun
  <2>4. \A e \in Engineer : Passed(run'[p], e) => Settled(rows[d][e], w, e)
    <3>1. \A e \in Engineer : Passed(run'[p], e) => Passed(l, e)
          BY <1>4 DEF Passed, Pass1
    <3> QED BY <2>1, <3>1 DEF QuietAt
  <2>5. UnderWay(p, d)' /\ \A e \in Engineer : ToWrite(run'[p], e)
        BY <1>4, <1>6 DEF UnderWay, Pass1, ToWrite
  <2> QED BY <1>1, <2>1, <2>3, <2>4, <2>5, PodStep
<1> QED BY <1>5, <1>6

\* An upsert leaves a row without a rank, which its run has yet to write.
LEMMA UpsertQuiet ==
  ASSUME TypeOK, LoopInv, QuietInv, NEW p \in Pod, UpsertEngineerSignal(p), NEW d \in quiet'
  PROVE  QuietAt(d)'
<1> DEFINE l == run[p]  w == facts[d]  e == Head(l.todo)
           row == Upserted(rows[l.end][e], l.sig)
<1>1. /\ facts' = facts /\ \A q \in Pod : q # p => run'[q] = run[q]
      /\ d \in quiet /\ Write(l.end, e, row) /\ l.pc = "upsert"
  <2>1. /\ facts' = facts /\ Write(l.end, e, row) /\ l.pc = "upsert"
        /\ NoFault \/ Fault(l.end)
        /\ \E r : Become(p, r)
        BY DEF UpsertEngineerSignal
  <2>2. d \in quiet
        BY <2>1 DEF Fault, NoFault
  <2> QED BY <2>1, <2>2, TypeNamed, Became
<1>2. /\ l \in Run /\ p \in DOMAIN run /\ d \in Day /\ facts[d] \in [Engineer -> Facts]
      /\ rows \in [Day -> [Engineer -> Row]]
      BY <1>1, TypeNamed
<1>3. /\ l.todo # <<>> /\ l.todo \in Seq(Engineer) /\ e \in Engineer
      /\ l.end \in Day /\ l.dprs \in Seq(Entry)
  <2>1. l.todo # <<>>
        BY <1>1 DEF LoopInv
  <2> QED BY <1>2, <2>1, TailType DEF Run
<1>4. Continue(l).pc = "usage" /\ Continue(l).end = l.end /\ Continue(l).todo = Tail(l.todo)
      BY <1>2 DEF Continue, Run
<1>5. \A x : x # l.end => rows'[x] = rows[x]
      BY <1>1, <1>2 DEF Write
<1>6. CASE l.end # d
  <2>1. run'[p].end = l.end
    <3>1. Continue(l) \in Run
          BY <1>2, <1>3, ContinueType
    <3>2. CASE Become(p, Continue(l))
          BY <1>2, <1>4, <3>2 DEF Become
    <3>3. CASE Become(p, [Continue(l) EXCEPT !.dprs = Appended(@, e, Dpr(l.sig))])
          BY <1>2, <1>4, <3>1, <3>3 DEF Become, Run
    <3> QED BY <3>2, <3>3 DEF UpsertEngineerSignal
  <2> QED BY <1>1, <1>5, <1>6, <2>1, Elsewhere DEF QuietInv, UnderWay
<1>7. CASE l.end = d
  <2> DEFINE a == Appended(l.dprs, e, Dpr(l.sig))  r == [Continue(l) EXCEPT !.dprs = a]
  <2>1. Become(p, r)
    <3>1. ~Fault(d)
          BY DEF Fault
    <3>2. Become(p, [Continue(l) EXCEPT !.dprs = Appended(@, e, Dpr(l.sig))])
          BY <1>7, <3>1 DEF UpsertEngineerSignal
    <3>3. Continue(l).dprs = l.dprs
          BY <1>2, <1>3, ContinueType
    <3> QED BY <3>2, <3>3
  <2>2. /\ run'[p].pc = "usage" /\ run'[p].end = d
        /\ run'[p].todo = Tail(l.todo) /\ run'[p].dprs = a
    <3>1. Continue(l) \in Run
          BY <1>2, <1>3, ContinueType
    <3> HIDE DEF a
    <3> QED BY <1>2, <1>4, <1>7, <2>1, <3>1 DEF Become, Run
  <2>3. UnderWay(p, d) /\ RightRun(l, w) /\ QuietAt(d)
        BY <1>1, <1>7 DEF UnderWay, QuietInv, QuietAt
  <2>4. /\ l.sig = w[e] /\ IsInjective(l.todo)
        /\ RightEntries(l.dprs, w, ValidIn(w) \ ToSet(l.todo))
        BY <1>1, <2>3 DEF RightRun, Pass1
  <2>5. /\ ToSet(l.todo) = {e} \cup ToSet(Tail(l.todo))
        /\ IsInjective(Tail(l.todo)) /\ e \notin ToSet(Tail(l.todo))
        BY <1>3, <2>4, HeadTail
  <2>6. RightRun(run'[p], w)
    <3> DEFINE who == ValidIn(w) \ ToSet(l.todo)
    <3>1. e \notin who
          BY <2>5
    <3>2. RightEntries(a, w, IF e \in ValidIn(w) THEN who \cup {e} ELSE who)
          BY <1>3, <2>4, <3>1, AppendRight
    <3>3. (IF e \in ValidIn(w) THEN who \cup {e} ELSE who) = ValidIn(w) \ ToSet(Tail(l.todo))
          BY <2>5
    <3>4. RightEntries(a, w, ValidIn(w) \ ToSet(Tail(l.todo)))
          BY <3>2, <3>3
    <3> HIDE DEF a
    <3> QED BY <2>2, <2>5, <3>4 DEF RightRun
  <2>7. /\ Settled(rows'[d][e], w, e)
        /\ \A x \in Engineer : x # e => rows'[d][x] = rows[d][x]
    <3>1. rows[d][e] \in Row /\ d \in DOMAIN rows /\ e \in DOMAIN rows[d]
          BY <1>2, <1>3
    <3>2. rows'[d][e] = row /\ \A x \in Engineer : x # e => rows'[d][x] = rows[d][x]
          BY <1>1, <1>2, <1>3, <1>7 DEF Write
    <3>3. row.sig = l.sig /\ row.median = Null /\ row.pct = Null
          BY <1>7, <3>1 DEF Upserted, Row
    <3> QED BY <2>4, <3>2, <3>3 DEF Settled
  <2>8. \A x \in Engineer : Passed(run'[p], x) => Settled(rows'[d][x], w, x)
    <3> SUFFICES ASSUME NEW x \in Engineer, Passed(run'[p], x), x # e
                 PROVE  Settled(rows'[d][x], w, x)
        BY <2>7
    <3>1. x \notin ToSet(l.todo)
          BY <2>2, <2>5 DEF Passed
    <3>2. Passed(l, x)
          BY <1>1, <3>1 DEF Passed, Pass1
    <3> QED BY <2>3, <2>7, <3>2 DEF QuietAt
  <2>9. UnderWay(p, d)' /\ \A x \in Engineer : ToWrite(run'[p], x)
        BY <2>2 DEF UnderWay, ToWrite, Pass1
  <2>10. \A x \in Engineer : rows'[d][x] = rows[d][x] \/ Settled(rows'[d][x], w, x)
        BY <2>7
  <2> HIDE DEF a, r
  <2> QED BY <1>1, <2>3, <2>6, <2>8, <2>9, <2>10, PodStep
<1> QED BY <1>6, <1>7

\* Pass 1 ends: who is not ranked has a right row, and the others are to write.
LEMMA CohortQuiet ==
  ASSUME TypeOK, LoopInv, QuietInv, NEW p \in Pod, Cohort(p), NEW d \in quiet' PROVE QuietAt(d)'
<1> DEFINE l == run[p]  w == facts[d]
           r == IF Len(l.dprs) < 3 THEN Idle
                ELSE [l EXCEPT !.pc = "rank", !.todo = Engineers(l.dprs)]
<1>1. /\ facts' = facts /\ rows' = rows /\ quiet' = quiet
      /\ l.pc = "usage" /\ l.todo = <<>> /\ Become(p, r)
      BY DEF Cohort
<1>2. /\ l \in Run /\ run \in [Pod -> Run] /\ d \in Day
      /\ rows \in [Day -> [Engineer -> Row]] /\ l.dprs \in Seq(Entry)
      BY <1>1, TypeNamed DEF Run
<1>3. /\ Len(l.dprs) < 3 => r.pc = "idle"
      /\ ~(Len(l.dprs) < 3) =>
           /\ r.pc = "rank" /\ r.end = l.end /\ r.dprs = l.dprs /\ r.todo = Engineers(l.dprs)
      BY <1>2 DEF Idle, Run
<1> HIDE DEF r
<1>4. run'[p] = r /\ \A q \in Pod : q # p => run'[q] = run[q]
      BY <1>1, <1>2, Became
<1>5. CASE l.end # d
  <2>1. ~UnderWay(p, d) /\ ~UnderWay(p, d)'
        BY <1>3, <1>4, <1>5 DEF UnderWay
  <2> QED BY <1>1, <1>4, <2>1, Elsewhere DEF QuietInv
<1>6. CASE l.end = d
  <2>1. UnderWay(p, d) /\ RightRun(l, w) /\ QuietAt(d)
        BY <1>1, <1>6 DEF UnderWay, QuietInv, QuietAt
  <2>2. ToSet(l.todo) = {}
        BY <1>1 DEF ToSet
  <2>3. RightEntries(l.dprs, w, ValidIn(w))
        BY <1>1, <2>1, <2>2 DEF RightRun, Pass1
  <2>4. \A e \in Engineer : Settled(rows[d][e], w, e)
        BY <1>1, <2>1, <2>2 DEF QuietAt, Passed, Pass1
  <2>5. \A e \in Engineer : rows[d][e] \in Row
        BY <1>2
  <2>6. Len(l.dprs) \in Nat
        BY <1>2
  <2>7. CASE Len(l.dprs) < 3
    <3>1. ~(Size(CohortOf(w)) >= 3)
          BY <1>2, <2>3, <2>6, <2>7, RightCohort
    <3>2. \A e \in Engineer : rows'[d][e] = RightRow(w, e)
          BY <1>1, <2>4, <2>5, <3>1, UnrankedRow
    <3>3. ~UnderWay(p, d)'
          BY <1>3, <1>4, <2>7 DEF UnderWay
    <3> QED BY <1>1, <1>4, <2>1, <3>2, <3>3, PodStep
  <2>8. CASE ~(Len(l.dprs) < 3)
    <3>1. ToSet(r.todo) = ValidIn(w)
      <4>1. DOMAIN r.todo = DOMAIN l.dprs /\ \A i \in DOMAIN l.dprs : r.todo[i] = l.dprs[i].eng
            BY <1>3, <2>8 DEF Engineers
      <4>2. ToSet(r.todo) \subseteq ValidIn(w)
            BY <2>3, <4>1 DEF ToSet, RightEntries
      <4>3. ASSUME NEW e \in ValidIn(w) PROVE e \in ToSet(r.todo)
        <5>1. PICK i \in DOMAIN l.dprs : l.dprs[i].eng = e
              BY <2>3 DEF RightEntries
        <5> QED BY <4>1, <5>1 DEF ToSet
      <4> QED BY <4>2, <4>3
    <3>2. RightRun(run'[p], w)
          BY <1>3, <1>4, <2>3, <2>6, <2>8, <3>1 DEF RightRun, Pass1
    <3>3. UnderWay(p, d)' /\ \A e \in ValidIn(w) : ToWrite(run'[p], e)
          BY <1>3, <1>4, <1>6, <2>8, <3>1 DEF UnderWay, ToWrite
    <3>4. \A e \in Engineer : e \in ValidIn(w) \/ rows'[d][e] = RightRow(w, e)
          BY <1>1, <2>4, <2>5, UnrankedRow
    <3> QED BY <1>1, <1>4, <2>1, <2>4, <3>2, <3>3, <3>4, PodStep
  <2> QED BY <2>7, <2>8
<1> QED BY <1>5, <1>6

\* Pass 2 makes the row of the engineer at hand right.
LEMMA RankQuiet ==
  ASSUME TypeOK, LoopInv, QuietInv, NEW p \in Pod, SetPeerPercentile(p), NEW d \in quiet'
  PROVE  QuietAt(d)'
<1> DEFINE l == run[p]  w == facts[d]  e == Head(l.todo)  valid == Values(l.dprs)
           row == [rows[l.end][e] EXCEPT !.median = MedianOf(valid),
                                         !.pct = PercentileRank(valid, DprOf(l.dprs, e))]
<1>1. /\ facts' = facts /\ quiet' = quiet /\ l.pc = "rank"
      /\ Write(l.end, e, row) /\ Become(p, Ranked(l))
      BY DEF SetPeerPercentile
<1>2. /\ l \in Run /\ run \in [Pod -> Run] /\ d \in Day
      /\ rows \in [Day -> [Engineer -> Row]] /\ l.dprs \in Seq(Entry)
      BY <1>1, TypeNamed DEF Run
<1>3. l.todo # <<>> /\ l.todo \in Seq(Engineer) /\ e \in Engineer
  <2>1. l.todo # <<>>
        BY <1>1 DEF LoopInv
  <2> QED BY <1>2, <2>1, TailType DEF Run
<1>4. run'[p] = Ranked(l) /\ \A q \in Pod : q # p => run'[q] = run[q]
      BY <1>1, <1>2, Became
<1>5. /\ Len(l.todo) = 1 => Ranked(l).pc = "idle"
      /\ Len(l.todo) # 1 => /\ Ranked(l).pc = "rank" /\ Ranked(l).end = l.end
                            /\ Ranked(l).dprs = l.dprs /\ Ranked(l).todo = Tail(l.todo)
      BY <1>1, <1>2 DEF Ranked, Idle, Run
<1>6. CASE l.end # d
  <2>1. ~UnderWay(p, d) /\ ~UnderWay(p, d)'
        BY <1>4, <1>5, <1>6 DEF UnderWay
  <2>2. rows'[d] = rows[d]
        BY <1>1, <1>2, <1>6 DEF Write
  <2> QED BY <1>1, <1>4, <2>1, <2>2, Elsewhere DEF QuietInv
<1>7. CASE l.end = d
  <2>1. UnderWay(p, d) /\ RightRun(l, w) /\ QuietAt(d)
        BY <1>1, <1>7 DEF UnderWay, QuietInv, QuietAt
  <2>2. /\ RightEntries(l.dprs, w, ValidIn(w)) /\ Len(l.dprs) >= 3
        /\ ToSet(l.todo) \subseteq ValidIn(w)
        BY <1>1, <2>1 DEF RightRun
  <2>3. /\ ToSet(l.todo) = {e} \cup ToSet(Tail(l.todo))
        /\ Len(l.todo) = 1 => ToSet(l.todo) = {e}
        BY <1>3, HeadTail
  <2>4. \A x \in Engineer : Settled(rows[d][x], w, x)
        BY <1>1, <2>1 DEF QuietAt, Passed
  <2>5. row = RightRow(w, e)
    <3>1. e \in ValidIn(w) /\ rows[d][e] \in Row
          BY <1>2, <1>3, <2>2, <2>3
    <3> QED BY <1>2, <1>3, <1>7, <2>2, <2>4, <3>1, RankedRow
  <2> HIDE DEF row
  <2>6. rows'[d][e] = RightRow(w, e) /\ \A x \in Engineer : x # e => rows'[d][x] = rows[d][x]
        BY <1>1, <1>2, <1>3, <1>7, <2>5 DEF Write
  <2>7. \A x \in Engineer : Settled(rows'[d][x], w, x)
        BY <2>4, <2>6 DEF Settled
  <2>8. CASE Len(l.todo) = 1
    <3>1. ~UnderWay(p, d)'
          BY <1>4, <1>5, <2>8 DEF UnderWay
    <3>2. \A x \in Engineer : x # e => ~ToWrite(l, x)
          BY <1>1, <2>3, <2>8 DEF ToWrite, Pass1
    <3> QED BY <1>1, <1>4, <2>1, <2>6, <2>7, <3>1, <3>2, PodStep
  <2>9. CASE Len(l.todo) # 1
    <3>1. RightRun(run'[p], w)
          BY <1>4, <1>5, <2>2, <2>3, <2>9 DEF RightRun, Pass1
    <3>2. UnderWay(p, d)' /\ \A x \in ToSet(Tail(l.todo)) : ToWrite(run'[p], x)
          BY <1>4, <1>5, <1>7, <2>9 DEF UnderWay, ToWrite
    <3>3. \A x \in Engineer : x = e \/ x \in ToSet(Tail(l.todo)) \/ ~ToWrite(l, x)
          BY <1>1, <2>3 DEF ToWrite, Pass1
    <3>4. \A x \in Engineer :
            \/ rows'[d][x] = RightRow(w, x)
            \/ UnderWay(p, d)' /\ ToWrite(run'[p], x)
            \/ rows'[d][x] = rows[d][x] /\ ~(UnderWay(p, d) /\ ToWrite(run[p], x))
          BY <2>6, <3>2, <3>3
    <3> QED BY <1>1, <1>4, <2>1, <2>7, <3>1, <3>4, PodStep
  <2> QED BY <2>8, <2>9
<1> QED BY <1>6, <1>7

\* Where a call fails or a pod dies the window is not quiet; nor is it where the
\* facts change.
LEMMA OtherQuiet ==
  ASSUME TypeOK, LoopInv, QuietInv, NEW d \in quiet',
         FactsChange \/ Midnight \/ \E p \in Pod : CallFails(p) \/ PodCrash(p)
  PROVE  QuietAt(d)'
<1>1. CASE FactsChange \/ Midnight
  <2>1. rows' = rows /\ run' = run /\ d \in quiet
        BY <1>1 DEF FactsChange, Midnight
  <2>2. facts'[d] = facts[d]
        BY <1>1, TypeNamed DEF FactsChange, Midnight
  <2> QED BY <2>1, <2>2, Elsewhere DEF QuietInv
<1>2. ASSUME NEW p \in Pod, CallFails(p) \/ PodCrash(p) PROVE QuietAt(d)'
  <2> DEFINE l == run[p]
  <2>1. /\ facts' = facts /\ rows' = rows /\ Fault(l.end)
        /\ \E r \in {Idle, Continue(l), Ranked(l)} : Become(p, r)
        BY <1>2 DEF CallFails, PodCrash
  <2>2. d \in quiet /\ d # l.end
        BY <2>1 DEF Fault
  <2>3. PICK r \in {Idle, Continue(l), Ranked(l)} : Become(p, r)
        BY <2>1
  <2>4. l \in Run /\ run \in [Pod -> Run]
        BY TypeNamed
  <2>5. r.pc = "idle" \/ r.end = l.end
    <3>1. Idle.pc = "idle"
          BY DEF Idle
    <3>2. Continue(l).end = l.end
          BY <2>4 DEF Continue, Run
    <3>3. Ranked(l) = Idle \/ Ranked(l).end = l.end
          BY <2>4 DEF Ranked, Run
    <3> QED BY <3>1, <3>2, <3>3
  <2>6. run'[p] = r /\ \A q \in Pod : q # p => run'[q] = run[q]
        BY <2>3, <2>4, Became
  <2>7. ~UnderWay(p, d) /\ ~UnderWay(p, d)'
        BY <2>2, <2>5, <2>6 DEF UnderWay
  <2> QED BY <2>1, <2>2, <2>6, <2>7, Elsewhere DEF QuietInv
<1> QED BY <1>1, <1>2

\* Every step keeps the quiet windows right.
LEMMA QuietStep == TypeOK /\ LoopInv /\ QuietInv /\ [Next]_vars => QuietInv'
<1> SUFFICES ASSUME TypeOK, LoopInv, QuietInv, [Next]_vars, NEW d \in quiet' PROVE QuietAt(d)'
    BY DEF QuietInv
<1>1. CASE UNCHANGED vars
      BY <1>1, Elsewhere DEF vars, QuietInv
<1>2. CASE FactsChange \/ Midnight
      BY <1>2, OtherQuiet
<1>3. ASSUME NEW p \in Pod, Rollup(p) PROVE QuietAt(d)'
      BY <1>3, RunOnceQuiet, ReadQuiet, UpsertQuiet, CohortQuiet, RankQuiet DEF Rollup
<1>4. ASSUME NEW p \in Pod, CallFails(p) \/ PodCrash(p) PROVE QuietAt(d)'
      BY <1>4, OtherQuiet
<1> QED BY <1>1, <1>2, <1>3, <1>4 DEF Next

\* Runs of rollup.go that overlap, of any number of pods and in any order of
\* their queries and statements, leave every row of a quiet window right, once
\* all have ended.
THEOREM OverlapsAgree == Spec => []QuietRowsAgree
<1>1. Init => QuietInv
      BY DEF Init, QuietInv
<1>2. TypeOK /\ LoopInv /\ QuietInv => QuietRowsAgree
  <2> SUFFICES ASSUME QuietInv, NEW d \in quiet, \A p \in Pod : ~UnderWay(p, d),
                      NEW e \in Engineer
               PROVE  rows[d][e] = Reference(d, e)
      BY DEF QuietRowsAgree
  <2>1. rows[d][e] = RightRow(facts[d], e)
        BY DEF QuietInv, QuietAt
  <2> QED BY <2>1, ReferenceIs
<1>3. TypeOK /\ LoopInv /\ [Next]_vars => TypeOK' /\ LoopInv'
      BY TypeStep
<1> QED BY <1>1, <1>2, <1>3, TypeInit, QuietStep, PTL DEF Spec

=============================================================================
