------------------------ MODULE SignalDetectorProofs ------------------------
(***************************************************************************)
(* Proofs about SignalDetector, for every set of workers, every finite set *)
(* of events, and every length of the engineer's history.                  *)
(*                                                                         *)
(* The first part is about sums over finite sets, by induction on their    *)
(* size; the second about the figures of a baseline; the rest are the      *)
(* invariants of the detector.                                             *)
(***************************************************************************)
EXTENDS SignalDetector, TLAPS, WellFoundedInduction, FiniteSetTheorems

-----------------------------------------------------------------------------
(* Induction and sums                                                      *)

\* A nonempty set of natural numbers has a least element: induction, in the
\* form that needs no operator as a parameter.
LEMMA Least == ASSUME NEW T \in SUBSET Nat, T # {} PROVE \E m \in T : \A n \in T : m <= n
<1>1. PICK m \in T : \A n \in T : <<n, m>> \notin OpToRel(<, Nat)
      BY WFMin, NatLessThanWellFounded
<1>2. \A n \in T : ~(n < m)
      BY <1>1 DEF OpToRel
<1> QED BY <1>2

\* The fold of FoldFunction(+, 0, f), over each part of the domain of f.
Pick(s) == CHOOSE x \in s : TRUE
Unfold(f, g, s) == IF s = {} THEN 0 ELSE f[Pick(s)] + g[s \ {Pick(s)}]
Tot(f) == CHOOSE g : g = [s \in SUBSET (DOMAIN f) |-> Unfold(f, g, s)]

\* The sum of a function is its fold over the whole domain.
LEMMA SumIsTot == ASSUME NEW f PROVE Sum(f) = Tot(f)[DOMAIN f]
BY DEF Sum, FoldFunction, FoldFunctionOnSet, MapThenFoldSet, Tot, Unfold, Pick

\* The parts with at most n elements.
UpTo(D, n) == {s \in SUBSET D : Cardinality(s) <= n}

\* A part is smaller by one without one of its elements.
LEMMA Smaller ==
  ASSUME NEW D, IsFiniteSet(D), NEW s \in SUBSET D, NEW x \in s
  PROVE  /\ s \ {x} \in SUBSET D /\ IsFiniteSet(s)
         /\ Cardinality(s) \in Nat \ {0} /\ Cardinality(s \ {x}) = Cardinality(s) - 1
<1>1. IsFiniteSet(s)
      BY FS_Subset
<1>2. Cardinality(s) \in Nat
      BY <1>1, FS_CardinalityType
<1>3. Cardinality(s) # 0
      BY <1>1, FS_EmptySet
<1>4. Cardinality(s \ {x}) = Cardinality(s) - 1
      BY <1>1, FS_RemoveElement
<1> QED BY <1>1, <1>2, <1>3, <1>4

\* The fold picks an element of what is left.
LEMMA PickIn == ASSUME NEW s, s # {} PROVE Pick(s) \in s
BY DEF Pick

Solvable(f, D, n) == \E g : g = [s \in UpTo(D, n) |-> Unfold(f, g, s)]

\* The equation of the fold has a solution, up to every size.
LEMMA UnfoldUpTo ==
  ASSUME NEW D, IsFiniteSet(D), NEW f, NEW n \in Nat
  PROVE  Solvable(f, D, n)
<1> DEFINE T == {k \in Nat : ~Solvable(f, D, k)}
<1> SUFFICES ASSUME T # {} PROVE FALSE
    OBVIOUS
<1>1. PICK m \in T : \A k \in T : m <= k
      BY Least
<1>2. CASE m = 0
  <2> DEFINE g == [s \in UpTo(D, 0) |-> 0]
  <2>1. \A s \in UpTo(D, 0) : s = {}
    <3> SUFFICES ASSUME NEW s \in UpTo(D, 0), s # {} PROVE FALSE
        OBVIOUS
    <3>1. s \in SUBSET D /\ Pick(s) \in s
          BY PickIn DEF UpTo
    <3>2. Cardinality(s) \in Nat \ {0}
          BY <3>1, Smaller
    <3> QED BY <3>2 DEF UpTo
  <2>2. g = [s \in UpTo(D, 0) |-> Unfold(f, g, s)]
        BY <2>1 DEF Unfold
  <2> QED BY <1>1, <1>2, <2>2 DEF Solvable
<1>3. CASE m # 0
  <2>1. m \in Nat /\ m - 1 \in Nat /\ m - 1 \notin T
        BY <1>1, <1>3
  <2>2. PICK g : g = [s \in UpTo(D, m - 1) |-> Unfold(f, g, s)]
        BY <2>1 DEF Solvable
  <2> DEFINE h == [s \in UpTo(D, m) |-> Unfold(f, g, s)]
  <2>3. ASSUME NEW s \in UpTo(D, m), s # {}
        PROVE  s \ {Pick(s)} \in UpTo(D, m - 1) /\ s \ {Pick(s)} \in UpTo(D, m)
    <3>1. s \in SUBSET D /\ Pick(s) \in s
          BY <2>3, PickIn DEF UpTo
    <3>2. /\ s \ {Pick(s)} \in SUBSET D /\ Cardinality(s) \in Nat
          /\ Cardinality(s \ {Pick(s)}) = Cardinality(s) - 1
          BY <3>1, Smaller
    <3> QED BY <2>1, <3>2 DEF UpTo
  <2>4. ASSUME NEW t \in UpTo(D, m - 1) PROVE t \in UpTo(D, m) => h[t] = g[t]
        BY <2>2
  <2>5. ASSUME NEW s \in UpTo(D, m) PROVE Unfold(f, h, s) = Unfold(f, g, s)
        BY <2>3, <2>4 DEF Unfold
  <2>6. h = [s \in UpTo(D, m) |-> Unfold(f, h, s)]
        BY <2>5
  <2> QED BY <1>1, <2>6 DEF Solvable
<1> QED BY <1>2, <1>3

\* So the fold satisfies its equation.
LEMMA TotUnfolds ==
  ASSUME NEW f, IsFiniteSet(DOMAIN f), NEW s \in SUBSET (DOMAIN f)
  PROVE  Tot(f)[s] = Unfold(f, Tot(f), s)
<1> DEFINE D == DOMAIN f
<1>1. UpTo(D, Cardinality(D)) = SUBSET D /\ Cardinality(D) \in Nat
  <2>1. Cardinality(D) \in Nat
        BY FS_CardinalityType
  <2>2. \A t \in SUBSET D : Cardinality(t) <= Cardinality(D)
        BY FS_Subset
  <2> QED BY <2>1, <2>2 DEF UpTo
<1>2. \E g : g = [t \in SUBSET D |-> Unfold(f, g, t)]
  <2>1. Solvable(f, D, Cardinality(D))
        BY <1>1, UnfoldUpTo
  <2> QED BY <1>1, <2>1 DEF Solvable
<1>3. Tot(f) = [t \in SUBSET D |-> Unfold(f, Tot(f), t)]
      BY <1>2 DEF Tot
<1> QED BY <1>3

\* Any element may be taken out first: + is commutative and associative.
LEMMA TotRemove ==
  ASSUME NEW f, IsFiniteSet(DOMAIN f), \A d \in DOMAIN f : f[d] \in Int
  PROVE  \A s \in SUBSET (DOMAIN f) :
           /\ Tot(f)[s] \in Int
           /\ \A x \in s : Tot(f)[s] = f[x] + Tot(f)[s \ {x}]
<1> DEFINE D == DOMAIN f
           Ok(s) == Tot(f)[s] \in Int /\ \A x \in s : Tot(f)[s] = f[x] + Tot(f)[s \ {x}]
           T == {k \in Nat : \E s \in SUBSET D : Cardinality(s) = k /\ ~Ok(s)}
<1>1. ASSUME T # {} PROVE FALSE
  <2>1. PICK m \in T : \A k \in T : m <= k
        BY <1>1, Least
  <2>2. PICK s \in SUBSET D : Cardinality(s) = m /\ ~Ok(s)
        BY <2>1
  <2>3. ASSUME NEW t \in SUBSET D, Cardinality(t) \in Nat, Cardinality(t) < m PROVE Ok(t)
        BY <2>1, <2>3
  <2>4. CASE s = {}
    <3>1. Tot(f)[s] = 0
          BY <2>4, TotUnfolds DEF Unfold
    <3> QED BY <2>2, <2>4, <3>1
  <2>5. CASE s # {}
    <3> DEFINE c == Pick(s)
    <3>1. c \in s /\ f[c] \in Int
          BY <2>5, PickIn
    <3>2. Tot(f)[s] = f[c] + Tot(f)[s \ {c}]
          BY <2>5, TotUnfolds DEF Unfold
    <3>3. \A x \in s : s \ {x} \in SUBSET D /\ Ok(s \ {x})
      <4> SUFFICES ASSUME NEW x \in s PROVE s \ {x} \in SUBSET D /\ Ok(s \ {x})
          OBVIOUS
      <4>1. s \ {x} \in SUBSET D /\ Cardinality(s \ {x}) \in Nat /\ Cardinality(s \ {x}) < m
            BY <2>2, Smaller
      <4> QED BY <4>1, <2>3
    <3>4. Tot(f)[s] \in Int
      <4>1. Tot(f)[s \ {c}] \in Int
            BY <3>1, <3>3
      <4> QED BY <3>1, <3>2, <4>1
    <3>5. ASSUME NEW x \in s PROVE Tot(f)[s] = f[x] + Tot(f)[s \ {x}]
      <4>1. CASE x = c
            BY <3>2, <4>1
      <4>2. CASE x # c
        <5> DEFINE u == (s \ {c}) \ {x}
        <5>1. x \in s \ {c} /\ c \in s \ {x} /\ u = (s \ {x}) \ {c}
              BY <3>1, <4>2
        <5>2. Tot(f)[s \ {c}] = f[x] + Tot(f)[u]
              BY <3>1, <3>3, <5>1
        <5>3. Tot(f)[s \ {x}] = f[c] + Tot(f)[u]
              BY <3>3, <5>1
        <5>4. u \in SUBSET D /\ Tot(f)[u] \in Int
          <6> DEFINE v == s \ {c}
          <6>1. v \in SUBSET D /\ u \in SUBSET D
                OBVIOUS
          <6>2. Cardinality(s) \in Nat /\ Cardinality(v) = Cardinality(s) - 1
                BY <3>1, Smaller
          <6>4. Cardinality(v) \in Nat \ {0} /\ Cardinality(u) = Cardinality(v) - 1
            <7>1. x \in v /\ u = v \ {x} /\ IsFiniteSet(D)
                  BY <5>1
            <7> HIDE DEF u, v, D
            <7> QED BY <6>1, <7>1, Smaller
          <6>3. Cardinality(u) \in Nat /\ Cardinality(u) < m
                BY <2>2, <6>2, <6>4
          <6> QED BY <2>3, <6>1, <6>3
        <5>5. f[x] \in Int
              OBVIOUS
        <5> QED BY <3>1, <3>2, <5>2, <5>3, <5>4, <5>5
      <4> QED BY <4>1, <4>2
    <3> QED BY <2>2, <3>4, <3>5
  <2> QED BY <2>4, <2>5
<1>2. ASSUME NEW s \in SUBSET D PROVE Ok(s)
  <2>1. Cardinality(s) \in Nat
        BY FS_Subset, FS_CardinalityType
  <2> QED BY <1>1, <2>1
<1> QED BY <1>2

\* The empty sum.
LEMMA TotEmpty == ASSUME NEW f, IsFiniteSet(DOMAIN f) PROVE Tot(f)[{}] = 0
BY TotUnfolds DEF Unfold

\* The subsets of a finite set have any property that the empty set has and
\* that a set has when it holds of the set without any one element.
LEMMA SubsetInduction ==
  ASSUME NEW D, IsFiniteSet(D), NEW Q, {} \in Q,
         \A s \in SUBSET D : s # {} /\ (\A x \in s : s \ {x} \in Q) => s \in Q
  PROVE  \A s \in SUBSET D : s \in Q
<1> DEFINE T == {k \in Nat : \E s \in SUBSET D : Cardinality(s) = k /\ s \notin Q}
<1>1. ASSUME T # {} PROVE FALSE
  <2>1. PICK m \in T : \A k \in T : m <= k
        BY <1>1, Least
  <2>2. PICK s \in SUBSET D : Cardinality(s) = m /\ s \notin Q
        BY <2>1
  <2>3. ASSUME NEW x \in s PROVE s \ {x} \in Q
    <3>1. /\ s \ {x} \in SUBSET D /\ Cardinality(s) \in Nat \ {0}
          /\ Cardinality(s \ {x}) = Cardinality(s) - 1
          BY Smaller
    <3> QED BY <2>1, <2>2, <3>1
  <2> QED BY <2>2, <2>3
<1> QED
  <2>1. \A s \in SUBSET D : Cardinality(s) \in Nat
        BY FS_Subset, FS_CardinalityType
  <2> QED BY <1>1, <2>1

\* Sums of natural numbers are natural.
LEMMA TotNat ==
  ASSUME NEW f, IsFiniteSet(DOMAIN f), \A d \in DOMAIN f : f[d] \in Nat
  PROVE  \A s \in SUBSET (DOMAIN f) : Tot(f)[s] \in Nat
<1> DEFINE Q == {s \in SUBSET (DOMAIN f) : Tot(f)[s] \in Nat}
<1>1. {} \in Q
      BY TotEmpty
<1>2. ASSUME NEW s \in SUBSET (DOMAIN f), s # {}, \A x \in s : s \ {x} \in Q
      PROVE  s \in Q
  <2>1. PICK x \in s : TRUE
        BY <1>2
  <2>2. Tot(f)[s \ {x}] \in Nat /\ f[x] \in Nat
        BY <1>2
  <2>3. Tot(f)[s] = f[x] + Tot(f)[s \ {x}]
        BY TotRemove
  <2> QED BY <2>2, <2>3
<1> HIDE DEF Q
<1>3. \A s \in SUBSET (DOMAIN f) : s \in Q
      BY <1>1, <1>2, SubsetInduction
<1> QED BY <1>3 DEF Q

\* A sum whose terms are among those of another is no larger: h finds for
\* each term of f a term of g that no other one has.
LEMMA TotInjects ==
  ASSUME NEW f, IsFiniteSet(DOMAIN f), \A d \in DOMAIN f : f[d] \in Nat,
         NEW g, IsFiniteSet(DOMAIN g), \A d \in DOMAIN g : g[d] \in Nat,
         NEW h \in [DOMAIN f -> DOMAIN g],
         \A a \in DOMAIN f : f[a] = g[h[a]],
         \A a, b \in DOMAIN f : h[a] = h[b] => a = b
  PROVE  Sum(f) <= Sum(g)
<1> DEFINE D == DOMAIN f
           E == DOMAIN g
           Under(s) == \A t \in SUBSET E :
                         (\A a \in s : h[a] \in t) => Tot(f)[s] <= Tot(g)[t]
           Q == {s \in SUBSET D : Under(s)}
<1>1. {} \in Q
  <2>1. \A t \in SUBSET E : Tot(g)[t] \in Nat
        BY TotNat
  <2>2. Tot(f)[{}] = 0
        BY TotEmpty
  <2> QED BY <2>1, <2>2
<1>2. ASSUME NEW s \in SUBSET D, s # {}, \A x \in s : s \ {x} \in Q
      PROVE  s \in Q
  <2> SUFFICES ASSUME NEW t \in SUBSET E, \A a \in s : h[a] \in t
               PROVE  Tot(f)[s] <= Tot(g)[t]
      OBVIOUS
  <2>1. PICK x \in s : TRUE
        BY <1>2
  <2> DEFINE y == h[x]
  <2>2. y \in t /\ t \ {y} \in SUBSET E /\ s \ {x} \in SUBSET D
        OBVIOUS
  <2>3. \A a \in s \ {x} : h[a] \in t \ {y}
        OBVIOUS
  <2>4. Tot(f)[s \ {x}] <= Tot(g)[t \ {y}]
        BY <1>2, <2>2, <2>3
  <2>5. Tot(f)[s] = f[x] + Tot(f)[s \ {x}]
        BY TotRemove
  <2>6. Tot(g)[t] = g[y] + Tot(g)[t \ {y}]
        BY <2>2, TotRemove
  <2>7. f[x] = g[y] /\ f[x] \in Nat
        OBVIOUS
  <2>8. Tot(f)[s \ {x}] \in Nat
        BY <2>2, TotNat
  <2>9. Tot(g)[t \ {y}] \in Nat
        BY <2>2, TotNat
  <2> HIDE DEF y
  <2> QED BY <2>4, <2>5, <2>6, <2>7, <2>8, <2>9
<1>3. D \in Q
  <2> HIDE DEF Q
  <2>1. \A s \in SUBSET D : s \in Q
        BY <1>1, <1>2, SubsetInduction
  <2> QED BY <2>1
<1>4. Tot(f)[D] <= Tot(g)[E]
      BY <1>3
<1>5. Sum(f) = Tot(f)[D]
      BY SumIsTot
<1>6. Sum(g) = Tot(g)[E]
      BY SumIsTot
<1> QED BY <1>4, <1>5, <1>6

\* So a sum of natural numbers is natural.
LEMMA SumNat ==
  ASSUME NEW f, IsFiniteSet(DOMAIN f), \A d \in DOMAIN f : f[d] \in Nat
  PROVE  Sum(f) \in Nat
<1>1. Tot(f)[DOMAIN f] \in Nat
      BY TotNat
<1> QED BY <1>1, SumIsTot

\* The squares of the terms.
Squares(f) == [d \in DOMAIN f |-> f[d] * f[d]]

\* Both sums, with one term taken out.
Removes(f, s, x) ==
  /\ Tot(f)[s \ {x}] \in Nat /\ Tot(Squares(f))[s \ {x}] \in Nat
  /\ f[x] \in Nat
  /\ Tot(f)[s] = f[x] + Tot(f)[s \ {x}]
  /\ Tot(Squares(f))[s] = f[x] * f[x] + Tot(Squares(f))[s \ {x}]

\* They are so for any term.
LEMMA SquaresRemove ==
  ASSUME NEW f, IsFiniteSet(DOMAIN f), \A d \in DOMAIN f : f[d] \in Nat,
         NEW s \in SUBSET (DOMAIN f), NEW x \in s
  PROVE  Removes(f, s, x)
<1> DEFINE q == Squares(f)
<1>1. DOMAIN q = DOMAIN f
      BY DEF Squares
<1>2. \A d \in DOMAIN q : q[d] \in Nat /\ q[d] = f[d] * f[d]
      BY DEF Squares
<1>3. s \ {x} \in SUBSET (DOMAIN f) /\ f[x] \in Nat /\ q[x] = f[x] * f[x]
      BY <1>1, <1>2
<1>4. Tot(f)[s \ {x}] \in Nat
      BY <1>3, TotNat
<1>5. Tot(f)[s] = f[x] + Tot(f)[s \ {x}]
      BY TotRemove
<1> HIDE DEF q
<1>6. Tot(q)[s \ {x}] \in Nat
      BY <1>1, <1>2, <1>3, TotNat
<1>7. Tot(q)[s] = q[x] + Tot(q)[s \ {x}]
  <2>1. \A d \in DOMAIN q : q[d] \in Int
        BY <1>2
  <2> QED BY <1>1, <2>1, TotRemove
<1> QED BY <1>3, <1>4, <1>5, <1>6, <1>7 DEF q, Removes

\* The sum of the squares of the distances from any a is not negative.
LEMMA DistancesFromAny ==
  ASSUME NEW f, IsFiniteSet(DOMAIN f), \A d \in DOMAIN f : f[d] \in Nat, NEW a \in Nat
  PROVE  \A s \in SUBSET (DOMAIN f) :
           Tot(Squares(f))[s] - 2 * (a * Tot(f)[s]) + Cardinality(s) * (a * a) >= 0
<1> DEFINE Q == {s \in SUBSET (DOMAIN f) :
                   Tot(Squares(f))[s] - 2 * (a * Tot(f)[s]) + Cardinality(s) * (a * a) >= 0}
<1>1. {} \in Q
  <2>1. Tot(f)[{}] = 0 /\ Cardinality({}) = 0
        BY TotEmpty, FS_EmptySet
  <2>2. Tot(Squares(f))[{}] = 0
        BY TotEmpty DEF Squares
  <2> QED BY <2>1, <2>2
<1>2. ASSUME NEW s \in SUBSET (DOMAIN f), s # {}, \A x \in s : s \ {x} \in Q
      PROVE  s \in Q
  <2>1. PICK x \in s : TRUE
        BY <1>2
  <2> DEFINE S == Tot(f)[s \ {x}]
             R == Tot(Squares(f))[s \ {x}]
             b == f[x]
             m == Cardinality(s \ {x})
  <2> Removes(f, s, x)
      BY SquaresRemove
  <2>2. S \in Nat /\ R \in Nat /\ b \in Nat
        BY DEF Removes
  <2>3. Tot(f)[s] = b + S /\ Tot(Squares(f))[s] = b * b + R
        BY DEF Removes
  <2>4. m \in Nat /\ Cardinality(s) = m + 1 /\ s \ {x} \in SUBSET (DOMAIN f)
        BY Smaller
  <2>5. R - 2 * (a * S) + m * (a * a) >= 0
        BY <1>2
  <2> HIDE DEF S, R, b, m
  <2>6. (b * b + R) - 2 * (a * (b + S)) + (m + 1) * (a * a) >= 0
    <3>1. a * (b + S) = a * b + a * S
          BY <2>2
    <3>2. (m + 1) * (a * a) = m * (a * a) + a * a
          BY <2>4
    <3>3. b * b - 2 * (a * b) + a * a >= 0
      <4>1. CASE a >= b
        <5>1. PICK c \in Nat : a = b + c
              <6>1. a - b \in Nat /\ a = b + (a - b)
                    BY <2>2, <4>1
              <6> QED BY <6>1
        <5>2. b * b - 2 * (a * b) + a * a = c * c
              BY <2>2, <5>1
        <5>3. c * c >= 0
              BY <5>1
        <5> QED BY <5>2, <5>3
      <4>2. CASE ~(a >= b)
        <5>1. PICK c \in Nat : b = a + c
              <6>1. b - a \in Nat /\ b = a + (b - a)
                    BY <2>2, <4>2
              <6> QED BY <6>1
        <5>2. b * b - 2 * (a * b) + a * a = c * c
              BY <2>2, <5>1
        <5>3. c * c >= 0
              BY <5>1
        <5> QED BY <5>2, <5>3
      <4> QED BY <4>1, <4>2
    <3>4. /\ a * S \in Int /\ a * b \in Int /\ b * b \in Int /\ a * a \in Int
          /\ m * (a * a) \in Int
          BY <2>2, <2>4
    <3> QED BY <2>2, <2>5, <3>1, <3>2, <3>3, <3>4
  <2> QED BY <2>3, <2>4, <2>6
<1> HIDE DEF Q
<1>3. \A s \in SUBSET (DOMAIN f) : s \in Q
      BY <1>1, <1>2, SubsetInduction
<1> QED BY <1>3 DEF Q

\* The variance is not negative: over any s, the number of terms times the
\* sum of their squares is at least the square of their sum.
LEMMA SquareOfSum ==
  ASSUME NEW f, IsFiniteSet(DOMAIN f), \A d \in DOMAIN f : f[d] \in Nat
  PROVE  \A s \in SUBSET (DOMAIN f) :
           Cardinality(s) * Tot(Squares(f))[s] >= Tot(f)[s] * Tot(f)[s]
<1> DEFINE Q == {s \in SUBSET (DOMAIN f) :
                   Cardinality(s) * Tot(Squares(f))[s] >= Tot(f)[s] * Tot(f)[s]}
<1>1. {} \in Q
  <2>1. Tot(f)[{}] = 0 /\ Cardinality({}) = 0
        BY TotEmpty, FS_EmptySet
  <2>2. Tot(Squares(f))[{}] = 0
        BY TotEmpty DEF Squares
  <2> QED BY <2>1, <2>2
<1>2. ASSUME NEW s \in SUBSET (DOMAIN f), s # {}, \A x \in s : s \ {x} \in Q
      PROVE  s \in Q
  <2>1. PICK x \in s : TRUE
        BY <1>2
  <2> DEFINE S == Tot(f)[s \ {x}]
             R == Tot(Squares(f))[s \ {x}]
             b == f[x]
             m == Cardinality(s \ {x})
  <2> Removes(f, s, x)
      BY SquaresRemove
  <2>2. S \in Nat /\ R \in Nat /\ b \in Nat
        BY DEF Removes
  <2>3. Tot(f)[s] = b + S /\ Tot(Squares(f))[s] = b * b + R
        BY DEF Removes
  <2>4. m \in Nat /\ Cardinality(s) = m + 1 /\ s \ {x} \in SUBSET (DOMAIN f)
        BY Smaller
  <2>5. m * R >= S * S
        BY <1>2
  <2>6. R - 2 * (b * S) + m * (b * b) >= 0
        BY <2>2, <2>4, DistancesFromAny
  <2> HIDE DEF S, R, b, m
  <2>7. (m + 1) * (b * b + R) >= (b + S) * (b + S)
    <3>1. (m + 1) * (b * b + R) = m * (b * b) + m * R + b * b + R
          BY <2>2, <2>4
    <3>2. (b + S) * (b + S) = b * b + 2 * (b * S) + S * S
          BY <2>2
    <3>3. /\ b * S \in Int /\ b * b \in Int /\ S * S \in Int
          /\ m * (b * b) \in Int /\ m * R \in Int
          BY <2>2, <2>4
    <3> QED BY <2>2, <2>5, <2>6, <3>1, <3>2, <3>3
  <2> QED BY <2>3, <2>4, <2>7
<1> HIDE DEF Q
<1>3. \A s \in SUBSET (DOMAIN f) : s \in Q
      BY <1>1, <1>2, SubsetInduction
<1> QED BY <1>3 DEF Q

-----------------------------------------------------------------------------
(* The figures of a baseline                                               *)

\* The elements of a sequence.
LEMMA ElementOf ==
  ASSUME NEW S, NEW q \in Seq(S)
  PROVE  /\ Len(q) \in Nat /\ DOMAIN q = 1..Len(q)
         /\ \A i \in DOMAIN q : q[i] \in S
OBVIOUS

\* Its indices, in number.
LEMMA Indices ==
  ASSUME NEW n \in Nat PROVE IsFiniteSet(1..n) /\ Cardinality(1..n) = n
<1>1. IsFiniteSet(1..n) /\ Cardinality(1..n) = IF 1 > n THEN 0 ELSE n - 1 + 1
      BY FS_Interval
<1> QED BY <1>1

\* The daily costs are one natural number for each day of the window.
LEMMA DailyType ==
  ASSUME NEW daily \in Seq([ago : Nat, cost : Nat])
  PROVE  /\ DOMAIN DailyCosts(daily) = 0..(WindowDays - 1)
         /\ \A d \in DOMAIN DailyCosts(daily) : DailyCosts(daily)[d] \in Nat
<1> DEFINE of(d) == {i \in DOMAIN daily : daily[i].ago = d}
<1>1. ASSUME NEW d, of(d) # {} PROVE daily[CHOOSE i \in of(d) : TRUE].cost \in Nat
  <2>1. PICK i : i = (CHOOSE j \in of(d) : TRUE)
        OBVIOUS
  <2>2. i \in of(d)
        BY <1>1, <2>1
  <2>3. daily[i] \in [ago : Nat, cost : Nat]
        BY <2>2, ElementOf
  <2> QED BY <2>1, <2>3
<1>2. DailyCosts(daily) = [d \in 0..(WindowDays - 1) |->
        IF of(d) = {} THEN 0 ELSE daily[CHOOSE i \in of(d) : TRUE].cost]
      BY DEF DailyCosts
<1> HIDE DEF of
<1> QED BY <1>1, <1>2

\* Sum and variance of the daily costs are natural numbers.
LEMMA DeviationType ==
  ASSUME NEW daily \in Seq([ago : Nat, cost : Nat])
  PROVE  Sum(DailyCosts(daily)) \in Nat /\ Deviation(DailyCosts(daily)) \in Nat
<1> DEFINE f == DailyCosts(daily)
           D == 0..(WindowDays - 1)
<1>1. DOMAIN f = D /\ \A d \in DOMAIN f : f[d] \in Nat
      BY DailyType
<1>2. WindowDays \in Nat /\ IsFiniteSet(D) /\ Cardinality(D) = WindowDays
      BY Constants, FS_Interval
<1> HIDE DEF f, D
<1>3. Sum(f) = Tot(f)[D] /\ Sum(f) \in Nat
      BY <1>1, <1>2, SumIsTot, SumNat
<1> DEFINE q == Squares(f)
<1>4. DOMAIN q = D /\ \A d \in DOMAIN q : q[d] \in Nat
      BY <1>1 DEF Squares
<1>5. D \in SUBSET (DOMAIN f)
      BY <1>1
<1>6. WindowDays * Tot(q)[D] >= Tot(f)[D] * Tot(f)[D]
      BY <1>1, <1>2, <1>5, SquareOfSum
<1>7. Deviation(f) = WindowDays * Sum(q) - Sum(f) * Sum(f)
      BY DEF Deviation, Squares
<1> HIDE DEF q
<1>8. Sum(q) = Tot(q)[D] /\ Sum(q) \in Nat
      BY <1>2, <1>4, SumIsTot, SumNat
<1>9. WindowDays * Sum(q) \in Nat /\ Sum(f) * Sum(f) \in Nat
      BY <1>2, <1>3, <1>8
<1> QED BY <1>3, <1>6, <1>7, <1>8, <1>9 DEF f

\* A nonempty part of the samples has a greatest one.
LEMMA Greatest ==
  ASSUME NEW xs \in Seq(Nat), NEW s \in SUBSET (DOMAIN xs), s # {}
  PROVE  \E i \in s : \A j \in s : xs[j] <= xs[i]
<1> DEFINE D == DOMAIN xs
           Q == {t \in SUBSET D : t # {} => \E i \in t : \A j \in t : xs[j] <= xs[i]}
<1>1. IsFiniteSet(D) /\ \A i \in D : xs[i] \in Nat
  <2>1. D = 1..Len(xs) /\ Len(xs) \in Nat /\ \A i \in D : xs[i] \in Nat
        BY ElementOf
  <2> QED BY <2>1, Indices
<1> HIDE DEF D
<1>2. {} \in Q
      OBVIOUS
<1>3. ASSUME NEW t \in SUBSET D, t # {}, \A x \in t : t \ {x} \in Q
      PROVE  t \in Q
  <2>1. PICK x \in t : TRUE
        BY <1>3
  <2>2. CASE t \ {x} = {}
    <3>1. \A j \in t : j = x
          BY <2>2
    <3>2. xs[x] <= xs[x]
          BY <1>1
    <3>3. \A j \in t : xs[j] <= xs[x]
          BY <3>1, <3>2
    <3> QED BY <3>3
  <2>3. CASE t \ {x} # {}
    <3>1. PICK i \in t \ {x} : \A j \in t \ {x} : xs[j] <= xs[i]
          BY <1>3, <2>3
    <3>2. xs[x] \in Nat /\ xs[i] \in Nat /\ \A j \in t : xs[j] \in Nat
          BY <1>1
    <3>3. CASE xs[x] <= xs[i]
      <4>1. \A j \in t : xs[j] <= xs[i]
            BY <3>1, <3>3
      <4> QED BY <4>1
    <3>4. CASE xs[i] <= xs[x]
      <4>1. \A j \in t : xs[j] <= xs[x]
            BY <3>1, <3>2, <3>4
      <4> QED BY <4>1
    <3> QED BY <3>2, <3>3, <3>4
  <2> QED BY <2>2, <2>3
<1> HIDE DEF Q
<1>4. \A t \in SUBSET D : t \in Q
      BY <1>1, <1>2, <1>3, SubsetInduction
<1>5. s \in Q
      BY <1>4 DEF D
<1> QED BY <1>5 DEF Q

\* Where the samples are below x, and where they do not exceed it.
Below(xs, x) == {i \in DOMAIN xs : xs[i] < x}
NotAbove(xs, x) == {i \in DOMAIN xs : xs[i] <= x}

\* Both are finite.
LEMMA RankType ==
  ASSUME NEW xs \in Seq(Nat), NEW x
  PROVE  /\ IsFiniteSet(Below(xs, x)) /\ Cardinality(Below(xs, x)) \in Nat
         /\ IsFiniteSet(NotAbove(xs, x)) /\ Cardinality(NotAbove(xs, x)) \in Nat
<1>1. IsFiniteSet(DOMAIN xs)
      BY ElementOf, Indices
<1>2. Below(xs, x) \in SUBSET (DOMAIN xs) /\ NotAbove(xs, x) \in SUBSET (DOMAIN xs)
      BY DEF Below, NotAbove
<1>3. IsFiniteSet(Below(xs, x)) /\ IsFiniteSet(NotAbove(xs, x))
      BY <1>1, <1>2, FS_Subset
<1> QED BY <1>3, FS_CardinalityType

\* Each place of the sorted samples has its sample.
LEMMA PlaceExists ==
  ASSUME NEW xs \in Seq(Nat), NEW k \in 1..Len(xs)
  PROVE  \E x \in ToSet(xs) :
           Cardinality(Below(xs, x)) < k /\ Cardinality(NotAbove(xs, x)) >= k
<1> DEFINE T == {x \in ToSet(xs) : Cardinality(NotAbove(xs, x)) >= k}
<1>1. DOMAIN xs = 1..Len(xs) /\ Len(xs) \in Nat /\ k \in DOMAIN xs
      BY ElementOf
<1>2. \A i \in DOMAIN xs : xs[i] \in Nat /\ xs[i] \in ToSet(xs)
      BY ElementOf DEF ToSet
<1>3. ToSet(xs) \in SUBSET Nat
      BY <1>2 DEF ToSet
<1>4. T # {}
  <2>1. PICK i \in DOMAIN xs : \A j \in DOMAIN xs : xs[j] <= xs[i]
        BY <1>1, Greatest
  <2>2. NotAbove(xs, xs[i]) = 1..Len(xs)
        BY <1>1, <2>1 DEF NotAbove
  <2>3. Cardinality(NotAbove(xs, xs[i])) = Len(xs)
        BY <1>1, <2>2, Indices
  <2> QED BY <1>1, <1>2, <2>3
<1>5. PICK x \in T : \A y \in T : x <= y
      BY <1>3, <1>4, Least
<1>6. Cardinality(Below(xs, x)) < k
  <2>1. CASE Below(xs, x) = {}
        BY <2>1, FS_EmptySet
  <2>2. CASE Below(xs, x) # {}
    <3>1. Below(xs, x) \in SUBSET (DOMAIN xs)
          BY DEF Below
    <3>2. PICK i \in Below(xs, x) : \A j \in Below(xs, x) : xs[j] <= xs[i]
          BY <2>2, <3>1, Greatest
    <3>3. i \in DOMAIN xs /\ xs[i] < x /\ xs[i] \in Nat /\ x \in Nat /\ xs[i] \in ToSet(xs)
          BY <1>2, <1>3 DEF Below
    <3>4. NotAbove(xs, xs[i]) = Below(xs, x)
      <4>1. ASSUME NEW j \in DOMAIN xs PROVE xs[j] <= xs[i] <=> xs[j] < x
        <5>1. xs[j] \in Nat
              BY <1>2
        <5>2. xs[j] < x => xs[j] <= xs[i]
              BY <3>2 DEF Below
        <5> QED BY <3>3, <5>1, <5>2
      <4> QED BY <4>1 DEF Below, NotAbove
    <3>5. xs[i] \notin T
          BY <1>5, <3>3
    <3>6. Cardinality(NotAbove(xs, xs[i])) \in Nat
          BY RankType
    <3> QED BY <3>3, <3>4, <3>5, <3>6
  <2> QED BY <2>1, <2>2
<1> QED BY <1>5, <1>6

\* So the sorted samples are samples.
LEMMA SortedPlace ==
  ASSUME NEW xs \in Seq(Nat), NEW k \in 1..Len(xs)
  PROVE  LET x == Sorted(xs)[k]
         IN  /\ x \in ToSet(xs) /\ x \in Nat
             /\ Cardinality(Below(xs, x)) < k /\ Cardinality(NotAbove(xs, x)) >= k
<1> DEFINE Fits(x) == Cardinality(Below(xs, x)) < k /\ Cardinality(NotAbove(xs, x)) >= k
<1>1. k \in DOMAIN xs
      BY ElementOf
<1>2. Sorted(xs)[k] = CHOOSE x \in ToSet(xs) : Fits(x)
      BY <1>1 DEF Sorted, Below, NotAbove
<1>3. \E x \in ToSet(xs) : Fits(x)
      BY PlaceExists
<1> HIDE DEF Fits
<1>4. Sorted(xs)[k] \in ToSet(xs) /\ Fits(Sorted(xs)[k])
      BY <1>2, <1>3
<1>5. ToSet(xs) \subseteq Nat
      BY ElementOf DEF ToSet
<1> QED BY <1>4, <1>5 DEF Fits

\* The place that percentile takes is one of the samples', and p per cent of
\* them, rounded up.
LEMMA Place ==
  ASSUME NEW n \in Nat \ {0}, NEW p \in 1..100
  PROVE  LET idx == (p * n + 99) \div 100
         IN  idx \in 1..n /\ 100 * idx >= p * n /\ 100 * (idx - 1) < p * n
<1> DEFINE m == p * n
<1>1. m \in Nat /\ m >= 1 /\ m <= 100 * n
  <2>1. m \in Nat /\ (p - 1) * n \in Nat /\ (100 - p) * n \in Nat
        OBVIOUS
  <2>2. m = (p - 1) * n + n /\ 100 * n = m + (100 - p) * n
        OBVIOUS
  <2> QED BY <2>1, <2>2
<1> HIDE DEF m
<1>2. (m + 99) \div 100 \in 1..n /\ 100 * ((m + 99) \div 100) >= m
      /\ 100 * ((m + 99) \div 100 - 1) < m
      BY <1>1
<1> QED BY <1>2 DEF m

\* percentile gives the nearest rank, of samples of any number.
LEMMA PercentileRank ==
  ASSUME NEW xs \in Seq(Nat), xs # <<>>, NEW p \in 1..100
  PROVE  IsNearestRank(Percentile(xs, p), xs, p) /\ Percentile(xs, p) \in Nat
<1> DEFINE n == Len(xs)
           idx == (p * n + 99) \div 100
           x == Percentile(xs, p)
<1>1. n \in Nat \ {0}
      BY ElementOf
<1>2. idx \in 1..n /\ 100 * idx >= p * n /\ 100 * (idx - 1) < p * n /\ p * n \in Nat
      BY <1>1, Place
<1>3. x = Sorted(xs)[idx]
      BY DEF Percentile
<1> HIDE DEF idx, x, n
<1>4. /\ x \in ToSet(xs) /\ x \in Nat
      /\ Cardinality(Below(xs, x)) < idx /\ Cardinality(NotAbove(xs, x)) >= idx
      BY <1>2, <1>3, SortedPlace DEF n
<1>5. Cardinality(NotAbove(xs, x)) \in Nat /\ Cardinality(Below(xs, x)) \in Nat
      BY RankType
<1>6. 100 * Cardinality(NotAbove(xs, x)) >= p * n
      BY <1>2, <1>4, <1>5
<1>7. ASSUME NEW y \in ToSet(xs), 100 * Cardinality(NotAbove(xs, y)) >= p * n
      PROVE  y >= x
  <2>1. y \in Nat /\ Cardinality(NotAbove(xs, y)) \in Nat
        BY ElementOf, RankType DEF ToSet
  <2>2. SUFFICES ASSUME y < x PROVE FALSE
        BY <1>4, <2>1
  <2>3. NotAbove(xs, y) \in SUBSET Below(xs, x)
    <3>1. \A i \in DOMAIN xs : xs[i] \in Nat
          BY ElementOf
    <3> QED BY <1>4, <2>1, <2>2, <3>1 DEF NotAbove, Below
  <2>4. Cardinality(NotAbove(xs, y)) <= Cardinality(Below(xs, x))
        BY <2>3, RankType, FS_Subset
  <2> QED BY <1>2, <1>4, <1>5, <1>7, <2>1, <2>4
<1>8. IsNearestRank(x, xs, p)
      BY <1>4, <1>6, <1>7 DEF IsNearestRank, NotAbove, n
<1> QED BY <1>4, <1>8 DEF x

-----------------------------------------------------------------------------
(* Days                                                                    *)

\* The day of a time, and the end of that day.
LEMMA DayType ==
  ASSUME NEW t \in Nat
  PROVE  Day(t) \in Nat /\ Day(t) * DayLen \in Nat /\ EndOfDay(t) \in Nat
<1> DEFINE d == Day(t)
<1>1. DayLen \in Nat \ {0}
      BY Constants
<1>2. d \in Nat
      BY <1>1 DEF Day
<1> HIDE DEF d
<1>3. d * DayLen \in Nat
      BY <1>1, <1>2
<1>4. EndOfDay(t) = d * DayLen + DayLen - 1
      BY DEF EndOfDay, d
<1> QED BY <1>1, <1>2, <1>3, <1>4 DEF d

\* The day on which a day begins is that day.
LEMMA DayOfStart == ASSUME NEW d \in Nat PROVE Day(d * DayLen) = d
<1> DEFINE q == (d * DayLen) \div DayLen
           L == DayLen
<1>1. L \in Nat \ {0} /\ d * L \in Nat
      BY Constants
<1>2. q \in Nat /\ L * q <= d * L /\ d * L < L * q + L
      BY <1>1
<1> HIDE DEF q, L
<1>3. ~(q < d)
  <2> SUFFICES ASSUME q < d PROVE FALSE
      OBVIOUS
  <2>1. PICK c \in Nat : d = q + 1 + c
    <3>1. d - q - 1 \in Nat /\ d = q + 1 + (d - q - 1)
          BY <1>2
    <3> QED BY <3>1
  <2>2. d * L = L * q + L + c * L /\ c * L \in Nat /\ L * q \in Nat
        BY <1>1, <1>2, <2>1
  <2> QED BY <1>1, <1>2, <2>2
<1>4. ~(d < q)
  <2> SUFFICES ASSUME d < q PROVE FALSE
      OBVIOUS
  <2>1. PICK c \in Nat : q = d + 1 + c
    <3>1. q - d - 1 \in Nat /\ q = d + 1 + (q - d - 1)
          BY <1>2
    <3> QED BY <3>1
  <2>2. L * q = d * L + L + c * L /\ c * L \in Nat /\ d * L \in Nat
        BY <1>1, <1>2, <2>1
  <2> QED BY <1>1, <1>2, <2>2
<1>5. q = d
      BY <1>2, <1>3, <1>4
<1> QED BY <1>5 DEF Day, q, L

\* The deadline of a key is that of the day it names.
LEMMA DeadlineOf ==
  ASSUME NEW l, l.at \in Nat
  PROVE  /\ Deadline(KeyOf(l)) = EndOfDay(l.at) + Grace
         /\ Deadline(KeyOf(l)) \in Nat
<1>1. KeyOf(l)[3] = Day(l.at)
      BY DEF KeyOf
<1>2. Day(Day(l.at) * DayLen) = Day(l.at)
      BY DayType, DayOfStart
<1>3. Deadline(KeyOf(l)) = EndOfDay(l.at) + Grace
      BY <1>1, <1>2 DEF Deadline, EndOfDay
<1>4. EndOfDay(l.at) \in Nat
      BY DayType
<1>5. Grace \in Nat
      BY Constants
<1> QED BY <1>3, <1>4, <1>5

-----------------------------------------------------------------------------
(* Types                                                                   *)

\* The locals of a worker.
Locals == [pc : PC, at : Time, cost : Nat, rolling : Nat, base : Baseline,
           kind : Kind, sev : Severity, observed : Nat, fits : BOOLEAN,
           ttl : Nat, row : Row]

\* The first key.
LEMMA KeyType ==
  /\ \A t \in Time, k \in Kind, s \in Severity : <<k, s, Day(t)>> \in Key
  /\ <<"burst", "info", 0>> \in Key
<1>1. 0 \in Time /\ Day(0) = 0
  <2>1. DayLen \in Nat \ {0} /\ MaxTime \in Nat
        BY Constants
  <2>2. Day(0 * DayLen) = 0 /\ 0 * DayLen = 0
        BY <2>1, DayOfStart
  <2> QED BY <2>1, <2>2 DEF Time
<1>2. "burst" \in Kind /\ "info" \in Severity
      BY DEF Kind, Severity
<1>3. \A t \in Time, k \in Kind, s \in Severity : <<k, s, Day(t)>> \in Key
      BY DEF Key
<1>4. <<"burst", "info", Day(0)>> \in Key
      BY <1>1, <1>2, <1>3
<1> QED BY <1>1, <1>3, <1>4

\* A worker without an event.
LEMMA IdleType == Idle \in Locals /\ NoRow \in Row /\ NoBaseline \in Baseline
<1>1. NoRow \in Row
  <2>1. 0 \in Time
        BY Constants DEF Time
  <2> QED BY <2>1, KeyType DEF NoRow, Row
<1>2. NoBaseline \in Baseline
      BY DEF NoBaseline, Baseline
<1>3. 0 \in Time /\ "idle" \in PC /\ "burst" \in Kind /\ "info" \in Severity
      BY Constants DEF Time, PC, Kind, Severity
<1> QED BY <1>1, <1>2, <1>3 DEF Idle, Locals

\* After a check, the handler goes on.
LEMMA ReturnType == ASSUME NEW l \in Locals PROVE Return(l) \in Locals
<1>1. l.kind \in Kind /\ l.at \in Time /\ l.base \in Baseline
      BY DEF Locals
<1>2. "load" \in PC /\ "zscore" \in PC
      BY DEF PC
<1>3. [Idle EXCEPT !.pc = "load", !.at = l.at] \in Locals
      BY <1>1, <1>2, IdleType DEF Locals
<1>4. [Idle EXCEPT !.pc = "zscore", !.at = l.at, !.base = l.base] \in Locals
      BY <1>1, <1>2, IdleType DEF Locals
<1>5. CASE l.kind = "burst"
      BY <1>3, <1>5 DEF Return
<1>6. CASE l.kind = "rhythm_break"
      BY <1>4, <1>6 DEF Return
<1>7. CASE l.kind = "spend_zscore_high"
      BY <1>7, IdleType DEF Return
<1> QED BY <1>1, <1>5, <1>6, <1>7 DEF Kind

\* A worker becomes what it is said to.
LEMMA BecomeType ==
  ASSUME work \in [Worker -> Locals], NEW w \in Worker, NEW l \in Locals, Become(w, l)
  PROVE  work' \in [Worker -> Locals] /\ work'[w] = l
         /\ \A v \in Worker : v # w => work'[v] = work[v]
BY DEF Become

\* A signal is claimed, or it is too late for that.
LEMMA FireType ==
  ASSUME now \in Time, NEW w \in Worker, NEW l \in Locals, Fire(w, l)
  PROVE  \/ Become(w, Return(l))
         \/ \E ttl \in Nat : /\ ttl = Deadline(KeyOf(l)) - now
                             /\ [l EXCEPT !.pc = "setnx", !.ttl = ttl] \in Locals
                             /\ Become(w, [l EXCEPT !.pc = "setnx", !.ttl = ttl])
<1> DEFINE ttl == EndOfDay(l.at) + Grace - now
<1>1. l.at \in Nat /\ now \in Nat
      BY DEF Locals, Time
<1>2. ttl = Deadline(KeyOf(l)) - now /\ ttl \in Int
  <2>1. Deadline(KeyOf(l)) = EndOfDay(l.at) + Grace /\ Deadline(KeyOf(l)) \in Nat
        BY <1>1, DeadlineOf
  <2>2. EndOfDay(l.at) \in Nat
        BY <1>1, DayType
  <2>3. Grace \in Nat
        BY Constants
  <2> QED BY <1>1, <2>1, <2>2, <2>3
<1>3. CASE ttl <= 0
      BY <1>3 DEF Fire
<1>4. CASE ~(ttl <= 0)
  <2>1. ttl \in Nat
        BY <1>2, <1>4
  <2>2. Become(w, [l EXCEPT !.pc = "setnx", !.ttl = ttl])
        BY <1>4 DEF Fire
  <2> HIDE DEF ttl
  <2>3. [l EXCEPT !.pc = "setnx", !.ttl = ttl] \in Locals
        BY <2>1 DEF Locals, PC
  <2> QED BY <1>2, <2>1, <2>2, <2>3
<1> QED BY <1>3, <1>4

\* What a rebuild writes is a baseline.
LEMMA ComputeType ==
  ASSUME baseline \in Baseline, NEW s \in Series
  PROVE  ComputeBaseline(s) \in Baseline
<1>1. /\ s.daily \in Seq([ago : Nat, cost : Nat]) /\ s.hourly \in Seq(Nat)
      BY Constants
<1>2. Sum(DailyCosts(s.daily)) \in Nat /\ Deviation(DailyCosts(s.daily)) \in Nat
      BY <1>1, DeviationType
<1>3. Percentile(s.hourly, 95) \in Nat
  <2>1. CASE s.hourly = <<>>
        BY <2>1 DEF Percentile
  <2>2. CASE s.hourly # <<>>
    <3>1. 95 \in 1..100
          OBVIOUS
    <3> QED BY <1>1, <2>2, <3>1, PercentileRank
  <2> QED BY <2>1, <2>2
<1>4. Len(s.daily) \in Nat /\ baseline.frac \in 0..1000
      BY <1>1, ElementOf DEF Baseline
<1> QED BY <1>2, <1>3, <1>4 DEF ComputeBaseline, Baseline

\* The types are kept by the steps together with these two: the window is
\* finite, so that its sum is a number, and each restart is a fault.
TypeInv == TypeOK /\ IsFiniteSet(window) /\ restarts <= faults

\* The members of the window that are within reach of a time.
Reach(t) == {m \in Members : m.at >= t - Window}

\* They are times and costs, finitely many, and so have a sum.
LEMMA MembersType ==
  ASSUME TypeInv, NEW t \in Time
  PROVE  /\ Members \subseteq [at : Time, cost : Nat] /\ IsFiniteSet(Members)
         /\ Reach(t) \subseteq [at : Time, cost : Nat] /\ IsFiniteSet(Reach(t))
         /\ Sum([m \in Reach(t) |-> m.cost]) \in Nat
<1>1. Members \in SUBSET window
      BY DEF Members
<1>2. Members \subseteq [at : Time, cost : Nat]
      BY <1>1 DEF TypeInv, TypeOK
<1>3. IsFiniteSet(Members)
      BY <1>1, FS_Subset DEF TypeInv
<1>4. Reach(t) \in SUBSET Members
      BY DEF Reach
<1>5. IsFiniteSet(Reach(t))
      BY <1>3, <1>4, FS_Subset
<1> DEFINE f == [m \in Reach(t) |-> m.cost]
<1>6. DOMAIN f = Reach(t) /\ \A m \in DOMAIN f : f[m] \in Nat
      BY <1>2, <1>4
<1> HIDE DEF f
<1>7. Sum(f) \in Nat
      BY <1>5, <1>6, SumNat
<1> QED BY <1>2, <1>3, <1>4, <1>5, <1>7 DEF f

\* Faults are counted up to their bound.
LEMMA FaultType ==
  ASSUME TypeInv, Fault \/ NoFault
  PROVE  faults' \in 0..MaxFaults /\ faults <= faults'
BY Constants DEF TypeInv, TypeOK, Fault, NoFault

\* The steps of the clock, of Redis and of the rebuilder keep the types.
LEMMA RedisType ==
  ASSUME TypeInv, Tick \/ RedisRestart \/ RebuildBaseline \/ SaveHours
  PROVE  TypeInv'
<1> USE DEF TypeInv
<1>0. MaxTime \in Nat /\ MaxFaults \in Nat /\ MaxRebuilds \in Nat
      BY Constants
<1>1. CASE Tick
  <2>1. now' \in Time
        BY <1>0, <1>1 DEF Tick, TypeOK, Time
  <2> QED BY <1>1, <2>1 DEF Tick, redis, history, TypeOK
<1>2. CASE RedisRestart
  <2>1. faults' \in 0..MaxFaults /\ restarts' <= faults' /\ restarts' \in 0..MaxFaults
        BY <1>0, <1>2 DEF RedisRestart, Fault, TypeOK
  <2>2. window' \subseteq [at : Time, cost : Nat] /\ IsFiniteSet(window') /\ windowExp' \in Nat
        BY <1>0, <1>2, FS_EmptySet DEF RedisRestart, NoTTL
  <2>3. claim' \in [Key -> Nat] /\ baseline' \in Baseline
        BY <1>2, IdleType DEF RedisRestart
  <2> QED BY <1>2, <2>1, <2>2, <2>3 DEF RedisRestart, TypeOK
<1>3. CASE RebuildBaseline
  <2>1. rebuilds' \in 0..MaxRebuilds
        BY <1>0, <1>3 DEF RebuildBaseline, TypeOK
  <2>2. PICK s \in Series : baseline' = ComputeBaseline(s) /\ saving' = s.frac
        BY <1>3 DEF RebuildBaseline
  <2>3. baseline' \in Baseline
        BY <2>2, ComputeType DEF TypeOK
  <2>4. saving' \in -1..1000
        BY <2>2, Constants
  <2> QED BY <1>3, <2>1, <2>3, <2>4 DEF RebuildBaseline, history, TypeOK
<1>4. CASE SaveHours
  <2>1. baseline' \in Baseline
    <3>1. saving \in 0..1000 /\ baseline \in Baseline
          BY <1>4 DEF SaveHours, TypeOK
    <3>2. [baseline EXCEPT !.frac = saving] \in Baseline
          BY <3>1 DEF Baseline
    <3> QED BY <1>4, <3>1, <3>2 DEF SaveHours
  <2>2. faults' \in 0..MaxFaults /\ faults <= faults'
        BY <1>4, FaultType DEF SaveHours
  <2>3. restarts' <= faults'
        BY <1>0, <1>4, <2>2 DEF SaveHours, history, TypeOK
  <2> QED BY <1>4, <2>1, <2>2, <2>3 DEF SaveHours, history, TypeOK
<1> QED BY <1>1, <1>2, <1>3, <1>4

\* The locals of a worker keep their type.
LEMMA WorkType ==
  ASSUME TypeInv, NEW w \in Worker,
         \/ HandleEvent(w) \/ ZAdd(w) \/ Trim(w) \/ ZRange(w) \/ CheckBurst(w)
         \/ CheckRhythmBreak(w) \/ CheckZScore(w) \/ SetNX(w) \/ WriteSignalEvent(w)
         \/ PostDM(w, "engineer") \/ PostDM(w, "manager") \/ MarkSignalNotified(w)
         \/ CallFails(w) \/ WorkerCrash(w)
  PROVE  work' \in [Worker -> Locals]
<1> DEFINE l == work[w]
<1>0. /\ work \in [Worker -> Locals] /\ l \in Locals /\ baseline \in Baseline /\ now \in Time
      BY DEF TypeInv, TypeOK, Locals
<1>a. /\ l.at \in Time /\ l.cost \in Nat /\ l.rolling \in Nat /\ l.base \in Baseline
      /\ l.row \in Row /\ l.kind \in Kind /\ l.sev \in Severity
      BY <1>0 DEF Locals
<1>b. ASSUME NEW k \in Locals, Become(w, k) PROVE work' \in [Worker -> Locals]
      BY <1>0, <1>b, BecomeType
<1>c. ASSUME NEW k \in Locals, Fire(w, k) PROVE work' \in [Worker -> Locals]
  <2>1. Return(k) \in Locals
        BY ReturnType
  <2> QED BY <1>0, <1>b, <1>c, <2>1, FireType
<1> HIDE DEF l
<1>1. CASE HandleEvent(w)
  <2>1. PICK e \in Event :
          Become(w, [Idle EXCEPT !.pc = IF Cost[e] > 0 THEN "zadd" ELSE "load",
                                 !.at = At[e], !.cost = Cost[e]])
        BY <1>1 DEF HandleEvent
  <2>2. At[e] \in Time /\ Cost[e] \in Nat
        BY Constants
  <2>3. [Idle EXCEPT !.pc = IF Cost[e] > 0 THEN "zadd" ELSE "load",
                     !.at = At[e], !.cost = Cost[e]] \in Locals
        BY <2>2, IdleType DEF Locals, PC
  <2> QED BY <1>b, <2>1, <2>3
<1>2. CASE ZAdd(w)
  <2>1. [l EXCEPT !.pc = "trim"] \in Locals
        BY <1>0 DEF Locals, PC
  <2> QED BY <1>2, <1>b, <2>1 DEF ZAdd, l
<1>3. CASE Trim(w)
  <2>1. [l EXCEPT !.pc = "range"] \in Locals
        BY <1>0 DEF Locals, PC
  <2> QED BY <1>3, <1>b, <2>1 DEF Trim, l
<1>4. CASE ZRange(w)
  <2> DEFINE s == Sum([m \in Reach(l.at) |-> m.cost])
  <2>1. s \in Nat
        BY <1>a, MembersType
  <2>2. Become(w, [l EXCEPT !.pc = "burst", !.cost = 0, !.rolling = s])
        BY <1>4 DEF ZRange, Reach, l
  <2> HIDE DEF s
  <2>3. [l EXCEPT !.pc = "burst", !.cost = 0, !.rolling = s] \in Locals
        BY <1>0, <2>1 DEF Locals, PC
  <2> QED BY <1>b, <2>2, <2>3
<1>5. CASE CheckBurst(w)
  <2> DEFINE warn == Multiplier * baseline.p95
             sev == IF 2 * l.rolling >= 3 * warn THEN "critical" ELSE "warn"
             k == [l EXCEPT !.kind = "burst", !.observed = l.rolling, !.fits = TRUE,
                            !.sev = sev]
  <2>1. Become(w, Return(k)) \/ Fire(w, k)
        BY <1>5 DEF CheckBurst, l
  <2>2. sev \in Severity
        BY DEF Severity
  <2> HIDE DEF sev
  <2>3. k \in Locals
        BY <1>0, <1>a, <2>2 DEF Locals, Kind
  <2> HIDE DEF k
  <2> QED BY <1>b, <1>c, <2>1, <2>3, ReturnType
<1>6. CASE CheckRhythmBreak(w)
  <2> DEFINE frac == baseline.frac
             sev == RhythmSeverity(frac)
             k == [l EXCEPT !.base = baseline, !.kind = "rhythm_break", !.observed = frac,
                            !.fits = TRUE, !.sev = sev]
  <2>1. Become(w, Idle) \/ Become(w, Return(k)) \/ Fire(w, k)
        BY <1>6 DEF CheckRhythmBreak, l
  <2>2. sev \in Severity /\ frac \in Nat
        BY <1>0 DEF Severity, RhythmSeverity, Baseline
  <2> HIDE DEF sev, frac
  <2>3. k \in Locals
        BY <1>0, <2>2 DEF Locals, Kind
  <2> HIDE DEF k
  <2> QED BY <1>b, <1>c, <2>1, <2>3, ReturnType, IdleType
<1>7. CASE CheckZScore(w)
  <2> DEFINE sev(today) == IF AtLeast(ZCritical, today, l.base) THEN "critical" ELSE "warn"
             fits(today) == ~AtLeast(ZLimit, today, l.base)
             k(today) == [l EXCEPT !.kind = "spend_zscore_high", !.observed = today,
                                   !.fits = fits(today), !.sev = sev(today)]
  <2>1. PICK today \in Spends : Become(w, Idle) \/ Fire(w, k(today))
        BY <1>7 DEF CheckZScore, l
  <2>2. sev(today) \in Severity /\ fits(today) \in BOOLEAN /\ today \in Nat
        BY Constants DEF Severity, AtLeast
  <2> HIDE DEF sev, fits
  <2>3. k(today) \in Locals
        BY <1>0, <2>2 DEF Locals, Kind
  <2> HIDE DEF k
  <2> QED BY <1>b, <1>c, <2>1, <2>3, IdleType
<1>8. CASE SetNX(w)
  <2>1. Become(w, [l EXCEPT !.pc = "insert"]) \/ Become(w, Return(l))
        BY <1>8 DEF SetNX, l
  <2>2. [l EXCEPT !.pc = "insert"] \in Locals
        BY <1>0 DEF Locals, PC
  <2> QED BY <1>0, <1>b, <2>1, <2>2, ReturnType
<1>9. CASE WriteSignalEvent(w)
  <2> DEFINE row == [key |-> KeyOf(l), at |-> l.at, observed |-> l.observed,
                     sent |-> {}, notified |-> FALSE]
  <2>1. Become(w, [l EXCEPT !.pc = "engineer", !.row = row]) \/ Become(w, Return(l))
        BY <1>9 DEF WriteSignalEvent, l
  <2>2. row \in Row
        BY <1>0, <1>a, KeyType DEF Row, Locals, KeyOf
  <2> HIDE DEF row
  <2>3. [l EXCEPT !.pc = "engineer", !.row = row] \in Locals
        BY <1>0, <2>2 DEF Locals, PC
  <2> QED BY <1>0, <1>b, <2>1, <2>3, ReturnType
<1>10. ASSUME NEW r \in {"engineer", "manager"}, PostDM(w, r)
       PROVE  work' \in [Worker -> Locals]
  <2> DEFINE then == IF r = "engineer" THEN "manager" ELSE "mark"
             told == [l.row EXCEPT !.sent = @ \cup {r}]
  <2>1. Become(w, [l EXCEPT !.pc = then, !.row = told]) \/ Become(w, [l EXCEPT !.pc = then])
        BY <1>10 DEF PostDM, l
  <2>2. then \in PC
        BY DEF PC
  <2>3. told \in Row
        BY <1>a DEF Row
  <2> HIDE DEF then, told
  <2>4. [l EXCEPT !.pc = then, !.row = told] \in Locals /\ [l EXCEPT !.pc = then] \in Locals
        BY <1>0, <2>2, <2>3 DEF Locals
  <2> QED BY <1>b, <2>1, <2>4
<1>11. CASE MarkSignalNotified(w)
       BY <1>0, <1>11, <1>b, ReturnType DEF MarkSignalNotified, l
<1>12. CASE CallFails(w)
  <2>1. \/ Become(w, Return([l EXCEPT !.kind = "burst"]))
        \/ Become(w, Idle) \/ Become(w, Return(l))
        BY <1>12 DEF CallFails, l
  <2>2. [l EXCEPT !.kind = "burst"] \in Locals
        BY <1>0 DEF Locals, Kind
  <2>3. Return([l EXCEPT !.kind = "burst"]) \in Locals
        BY <2>2, ReturnType
  <2> QED BY <1>0, <1>b, <2>1, <2>3, ReturnType, IdleType
<1>13. CASE WorkerCrash(w)
       BY <1>13, <1>b, IdleType DEF WorkerCrash
<1> QED BY <1>1, <1>2, <1>3, <1>4, <1>5, <1>6, <1>7, <1>8, <1>9, <1>10, <1>11, <1>12, <1>13

\* What the handler asks of Redis keeps the types.
LEMMA HandlerType ==
  ASSUME TypeInv, NEW w \in Worker, work' \in [Worker -> Locals],
         \/ HandleEvent(w) \/ ZAdd(w) \/ Trim(w) \/ ZRange(w) \/ CheckBurst(w)
         \/ CheckRhythmBreak(w) \/ CheckZScore(w)
  PROVE  TypeInv'
<1> DEFINE l == work[w]
<1>0. /\ l \in Locals /\ l.at \in Time /\ l.cost \in Nat /\ now \in Nat
      BY DEF TypeInv, TypeOK, Locals, Time
<1> USE DEF TypeInv
<1>1. CASE HandleEvent(w)
  <2>1. PICK e \in Event : left[e] > 0 /\ left' = [left EXCEPT ![e] = @ - 1]
        BY <1>1 DEF HandleEvent
  <2>2. left' \in [Event -> Nat]
        BY <2>1 DEF TypeOK
  <2> QED BY <1>1, <2>2 DEF HandleEvent, redis, history, TypeOK, Locals
<1>2. CASE ZAdd(w)
  <2>1. Member(w) \in [at : Time, cost : Nat]
        BY <1>0 DEF Member
  <2>2. /\ window' = Members \cup {Member(w)}
        /\ windowExp' = IF Members = {} THEN NoTTL ELSE windowExp
        BY <1>2 DEF ZAdd
  <2>3. Members \subseteq [at : Time, cost : Nat] /\ IsFiniteSet(Members)
        BY <1>0, MembersType
  <2>4. window' \subseteq [at : Time, cost : Nat] /\ IsFiniteSet(window')
        BY <2>1, <2>2, <2>3, FS_AddElement
  <2>5. windowExp' \in Nat
        BY <2>2, Constants DEF NoTTL, TypeOK
  <2>6. seen' \subseteq Event
        BY <1>2 DEF ZAdd, TypeOK
  <2> QED BY <1>2, <2>4, <2>5, <2>6 DEF ZAdd, TypeOK, Locals
<1>3. CASE Trim(w)
  <2>1. window' \in SUBSET Members
        BY <1>3 DEF Trim
  <2>2. Members \subseteq [at : Time, cost : Nat] /\ IsFiniteSet(Members)
        BY <1>0, MembersType
  <2>3. window' \subseteq [at : Time, cost : Nat] /\ IsFiniteSet(window')
        BY <2>1, <2>2, FS_Subset
  <2>4. windowExp' \in Nat
    <3>1. NoTTL \in Nat /\ now + 2 * Window \in Nat
          BY <1>0, Constants DEF NoTTL
    <3>2. windowExp' = NoTTL \/ windowExp' = now + 2 * Window
          BY <1>3 DEF Trim
    <3> QED BY <3>1, <3>2
  <2> QED BY <1>3, <2>3, <2>4 DEF Trim, history, TypeOK, Locals
<1>4. CASE ZRange(w) \/ CheckBurst(w) \/ CheckRhythmBreak(w) \/ CheckZScore(w)
  <2>1. UNCHANGED <<now, left, redis, signals, history, faults>>
        BY <1>4 DEF ZRange, CheckBurst, CheckRhythmBreak, CheckZScore
  <2> QED BY <2>1 DEF redis, history, TypeOK, Locals
<1> QED BY <1>1, <1>2, <1>3, <1>4

\* The claim, the row and the messages, and what ends them, keep the types.
LEMMA FireStepType ==
  ASSUME TypeInv, NEW w \in Worker, work' \in [Worker -> Locals],
         \/ SetNX(w) \/ WriteSignalEvent(w)
         \/ PostDM(w, "engineer") \/ PostDM(w, "manager") \/ MarkSignalNotified(w)
         \/ CallFails(w) \/ WorkerCrash(w)
  PROVE  TypeInv'
<1> DEFINE l == work[w]
           k == KeyOf(l)
<1>0. /\ l \in Locals /\ l.row \in Row /\ l.at \in Time /\ l.observed \in Nat /\ l.ttl \in Nat
      /\ now \in Nat
      BY DEF TypeInv, TypeOK, Locals, Time
<1>k. k \in Key
      BY <1>0, KeyType DEF KeyOf, Locals
<1>f. Fault \/ NoFault => faults' \in 0..MaxFaults /\ restarts <= faults'
  <2> HAVE Fault \/ NoFault
  <2>1. faults' \in 0..MaxFaults /\ faults <= faults'
        BY FaultType
  <2> QED BY <2>1, Constants DEF TypeInv, TypeOK
<1> DEFINE U == {"no", "fault", "overflow"}
<1>u. \A u \in U : [unwritten EXCEPT ![k] = u] \in [Key -> U]
      BY DEF TypeInv, TypeOK
<1>1. CASE SetNX(w)
  <2>1. claim' \in [Key -> Nat]
    <3>1. now + l.ttl \in Nat
          BY <1>0
    <3>2. claim' = [claim EXCEPT ![k] = now + l.ttl] \/ claim' = claim
          BY <1>1 DEF SetNX
    <3> QED BY <3>1, <3>2 DEF TypeInv, TypeOK
  <2>2. wins' \in [Key -> Nat]
    <3>1. wins' = [wins EXCEPT ![k] = @ + 1] \/ wins' = wins
          BY <1>1 DEF SetNX
    <3>2. wins \in [Key -> Nat]
          BY DEF TypeInv, TypeOK
    <3> QED BY <3>1, <3>2, <1>k
  <2>3. unwritten' \in [Key -> U]
    <3>1. unwritten' = unwritten \/ \E u \in {"fault", unwritten[k]} : unwritten' = [unwritten EXCEPT ![k] = u]
          BY <1>1 DEF SetNX
    <3> QED BY <3>1, <1>k, <1>u DEF TypeInv, TypeOK
  <2>4. Fault \/ NoFault
        BY <1>1 DEF SetNX
  <2>5. UNCHANGED <<now, left, window, windowExp, baseline, saving, rebuilds, signals, seen, restarts>>
        BY <1>1 DEF SetNX
  <2> HIDE DEF l, k
  <2> QED BY <1>f, <2>1, <2>2, <2>3, <2>4, <2>5 DEF TypeInv, TypeOK, Locals
<1>2. CASE WriteSignalEvent(w)
  <2> DEFINE row == [key |-> k, at |-> l.at, observed |-> l.observed,
                     sent |-> {}, notified |-> FALSE]
  <2>1. row \in Row
        BY <1>0, <1>k DEF Row
  <2>2. signals' = signals \cup {row} \/ signals' = signals
        BY <1>2 DEF WriteSignalEvent, Insert
  <2>3. signals' \subseteq Row
        BY <2>1, <2>2 DEF TypeInv, TypeOK
  <2>4. unwritten' \in [Key -> U]
    <3>1. unwritten' = unwritten \/ unwritten' = [unwritten EXCEPT ![k] = "overflow"]
          BY <1>2 DEF WriteSignalEvent
    <3> QED BY <3>1, <1>u DEF TypeInv, TypeOK
  <2>5. Fault \/ NoFault
        BY <1>2 DEF WriteSignalEvent
  <2>6. UNCHANGED <<now, left, redis, seen, wins, restarts>>
        BY <1>2 DEF WriteSignalEvent
  <2> HIDE DEF l, k
  <2> QED BY <1>f, <2>3, <2>4, <2>5, <2>6 DEF redis, TypeInv, TypeOK, Locals
<1>3. ASSUME NEW r \in {"engineer", "manager"}, PostDM(w, r) PROVE TypeInv'
  <2> DEFINE told == [l.row EXCEPT !.sent = @ \cup {r}]
  <2>1. told \in Row
        BY <1>0 DEF Row
  <2>2. signals' = (signals \ {l.row}) \cup {told} \/ signals' = signals
        BY <1>3 DEF PostDM
  <2>3. signals' \subseteq Row
        BY <2>1, <2>2 DEF TypeInv, TypeOK
  <2>4. Fault \/ NoFault
        BY <1>3 DEF PostDM
  <2>5. UNCHANGED <<now, left, redis, history>>
        BY <1>3 DEF PostDM
  <2> HIDE DEF l, k
  <2> QED BY <1>f, <2>3, <2>4, <2>5 DEF redis, history, TypeInv, TypeOK, Locals
<1>4. CASE MarkSignalNotified(w)
  <2>1. \A r \in Row : [r EXCEPT !.notified = TRUE] \in Row
        BY DEF Row
  <2>2. signals \subseteq Row
        BY DEF TypeInv, TypeOK
  <2>3. signals' \subseteq Row
        BY <1>4, <2>1, <2>2 DEF MarkSignalNotified
  <2>4. UNCHANGED <<now, left, redis, history, faults>>
        BY <1>4 DEF MarkSignalNotified
  <2> HIDE DEF l, k
  <2> QED BY <2>3, <2>4 DEF redis, history, TypeInv, TypeOK, Locals
<1>5. CASE CallFails(w) \/ WorkerCrash(w)
  <2>1. unwritten' \in [Key -> U]
    <3>1. unwritten' = unwritten \/ unwritten' = [unwritten EXCEPT ![k] = "fault"]
          BY <1>5 DEF CallFails, WorkerCrash
    <3> QED BY <3>1, <1>u DEF TypeInv, TypeOK
  <2>2. Fault /\ UNCHANGED <<now, left, redis, signals, seen, wins, restarts>>
        BY <1>5 DEF CallFails, WorkerCrash
  <2> HIDE DEF l, k
  <2> QED BY <1>f, <2>1, <2>2 DEF redis, TypeInv, TypeOK, Locals
<1> QED BY <1>1, <1>2, <1>3, <1>4, <1>5

\* A worker's step, named by what it does.
Works(w) ==
  \/ HandleEvent(w) \/ ZAdd(w) \/ Trim(w) \/ ZRange(w) \/ CheckBurst(w)
  \/ CheckRhythmBreak(w) \/ CheckZScore(w) \/ SetNX(w) \/ WriteSignalEvent(w)
  \/ PostDM(w, "engineer") \/ PostDM(w, "manager") \/ MarkSignalNotified(w)
  \/ CallFails(w) \/ WorkerCrash(w)

\* A step is one of Redis and the rebuilder, or of a worker.
LEMMA NextIs ==
  ASSUME Next
  PROVE  \/ Tick \/ RedisRestart \/ RebuildBaseline \/ SaveHours
         \/ \E w \in Worker : Works(w)
BY DEF Next, Works

\* The types at the start, and after every step.
LEMMA TypeInit == ASSUME Init PROVE TypeInv
<1>1. 0 \in Time /\ left \in [Event -> Nat] /\ NoTTL \in Nat /\ MaxFaults \in Nat
      /\ MaxRebuilds \in Nat
      BY Constants DEF Init, Time, NoTTL
<1>2. work \in [Worker -> Locals] /\ baseline \in Baseline
      BY IdleType DEF Init
<1>3. IsFiniteSet(window)
      BY FS_EmptySet DEF Init
<1> QED BY <1>1, <1>2, <1>3 DEF Init, TypeInv, TypeOK, Locals

\* Every step keeps the types.
LEMMA TypeStep == ASSUME TypeInv, [Next]_vars PROVE TypeInv'
<1>1. CASE Next
  <2>1. CASE Tick \/ RedisRestart \/ RebuildBaseline \/ SaveHours
        BY <2>1, RedisType
  <2>2. ASSUME NEW w \in Worker, Works(w) PROVE TypeInv'
    <3>1. work' \in [Worker -> Locals]
          BY <2>2, WorkType DEF Works
    <3> QED BY <2>2, <3>1, HandlerType, FireStepType DEF Works
  <2> QED BY <1>1, <2>1, <2>2, NextIs
<1>2. CASE UNCHANGED vars
      BY <1>2 DEF vars, TypeInv, TypeOK
<1> QED BY <1>1, <1>2

\* The types are invariant.
LEMMA TypeAlways == Spec => []TypeInv
<1>1. Init => TypeInv
      BY TypeInit
<1>2. TypeInv /\ [Next]_vars => TypeInv'
      BY TypeStep
<1> QED BY <1>1, <1>2, PTL DEF Spec

\* Every variable has its type in every behaviour: in particular the mean,
\* the variance and the p95 that computeBaseline writes are natural numbers,
\* and the variance is never negative.
THEOREM TypeCorrect == Spec => []TypeOK
<1>1. TypeInv => TypeOK
      BY DEF TypeInv
<1> QED BY <1>1, TypeAlways, PTL

-----------------------------------------------------------------------------
(* The p95 is the nearest rank                                             *)

\* The p95 of a baseline comes from samples of the engineer.
RankInv ==
  baseline.p95 # 0 =>
    \E s \in Series : s.hourly # <<>> /\ baseline.p95 = Percentile(s.hourly, 95)

\* A worker's step leaves the clock, the baseline and the restarts alone, and
\* the other workers.
LEMMA Others ==
  ASSUME NEW w \in Worker, Works(w)
  PROVE  /\ now' = now /\ baseline' = baseline /\ restarts' = restarts
         /\ seen \subseteq seen'
         /\ \A v \in Worker : v # w /\ work \in [Worker -> Locals] => work'[v] = work[v]
<1>1. UNCHANGED <<now, baseline, restarts>>
  <2>1. CASE HandleEvent(w) \/ ZAdd(w) \/ Trim(w) \/ ZRange(w) \/ CheckBurst(w)
        BY <2>1 DEF HandleEvent, ZAdd, Trim, ZRange, CheckBurst, redis, history
  <2>2. CASE CheckRhythmBreak(w) \/ CheckZScore(w) \/ SetNX(w) \/ WriteSignalEvent(w)
        BY <2>2 DEF CheckRhythmBreak, CheckZScore, SetNX, WriteSignalEvent, redis, history
  <2>3. CASE \/ PostDM(w, "engineer") \/ PostDM(w, "manager") \/ MarkSignalNotified(w)
             \/ CallFails(w) \/ WorkerCrash(w)
        BY <2>3 DEF PostDM, MarkSignalNotified, CallFails, WorkerCrash, redis, history
  <2> QED BY <2>1, <2>2, <2>3 DEF Works
<1>2. seen \subseteq seen'
  <2>1. CASE HandleEvent(w) \/ ZAdd(w) \/ Trim(w) \/ ZRange(w) \/ CheckBurst(w)
        BY <2>1 DEF HandleEvent, ZAdd, Trim, ZRange, CheckBurst, history
  <2>2. CASE CheckRhythmBreak(w) \/ CheckZScore(w) \/ SetNX(w) \/ WriteSignalEvent(w)
        BY <2>2 DEF CheckRhythmBreak, CheckZScore, SetNX, WriteSignalEvent, history
  <2>3. CASE \/ PostDM(w, "engineer") \/ PostDM(w, "manager") \/ MarkSignalNotified(w)
             \/ CallFails(w) \/ WorkerCrash(w)
        BY <2>3 DEF PostDM, MarkSignalNotified, CallFails, WorkerCrash, history
  <2> QED BY <2>1, <2>2, <2>3 DEF Works
<1>3. \E l : Become(w, l)
  <2>1. CASE HandleEvent(w) \/ ZAdd(w) \/ Trim(w) \/ ZRange(w) \/ SetNX(w)
        BY <2>1 DEF HandleEvent, ZAdd, Trim, ZRange, SetNX
  <2>2. \A l : Fire(w, l) => \E k : Become(w, k)
        BY DEF Fire
  <2>3. CASE CheckBurst(w) \/ CheckRhythmBreak(w) \/ CheckZScore(w)
        BY <2>2, <2>3 DEF CheckBurst, CheckRhythmBreak, CheckZScore
  <2>4. CASE WriteSignalEvent(w) \/ PostDM(w, "engineer") \/ PostDM(w, "manager")
        BY <2>4 DEF WriteSignalEvent, PostDM
  <2>5. CASE MarkSignalNotified(w) \/ CallFails(w) \/ WorkerCrash(w)
        BY <2>5 DEF MarkSignalNotified, CallFails, WorkerCrash
  <2> QED BY <2>1, <2>3, <2>4, <2>5 DEF Works
<1> QED BY <1>1, <1>2, <1>3 DEF Become

\* Every step keeps where the p95 comes from.
LEMMA RankStep == ASSUME TypeInv, RankInv, [Next]_vars PROVE RankInv'
<1>1. CASE baseline' = baseline
      BY <1>1 DEF RankInv
<1>2. CASE RedisRestart
      BY <1>2 DEF RedisRestart, NoBaseline, RankInv
<1>3. CASE RebuildBaseline
  <2>1. PICK s \in Series : baseline' = ComputeBaseline(s)
        BY <1>3 DEF RebuildBaseline
  <2>2. baseline'.p95 = Percentile(s.hourly, 95)
        BY <2>1 DEF ComputeBaseline
  <2>3. s.hourly = <<>> => baseline'.p95 = 0
        BY <2>2 DEF Percentile
  <2> QED BY <2>2, <2>3 DEF RankInv
<1>4. CASE SaveHours
  <2>1. baseline'.p95 = baseline.p95
        BY <1>4 DEF SaveHours, TypeInv, TypeOK, Baseline
  <2> QED BY <2>1 DEF RankInv
<1>5. CASE Tick
      BY <1>1, <1>5 DEF Tick, redis
<1>6. CASE UNCHANGED vars
      BY <1>1, <1>6 DEF vars
<1>7. ASSUME NEW w \in Worker, Works(w) PROVE RankInv'
      BY <1>1, <1>7, Others
<1> QED BY <1>2, <1>3, <1>4, <1>5, <1>6, <1>7, NextIs

\* percentile is right for every shorter history of the engineer, too.
LEMMA EveryRank == PercentileIsRank
<1> SUFFICES ASSUME NEW s \in Series, NEW n \in DOMAIN s.hourly
             PROVE  LET xs == SubSeq(s.hourly, 1, n)
                    IN  IsNearestRank(Percentile(xs, 95), xs, 95)
    BY DEF PercentileIsRank
<1> DEFINE xs == SubSeq(s.hourly, 1, n)
<1>1. s.hourly \in Seq(Nat)
      BY Constants
<1>2. Len(s.hourly) \in Nat /\ n \in 1..Len(s.hourly)
      BY <1>1, ElementOf
<1>3. xs \in Seq(Nat) /\ xs # <<>>
  <2>1. \A i \in 1..n : s.hourly[i] \in Nat
        BY <1>1, <1>2, ElementOf
  <2>2. xs = [i \in 1..n |-> s.hourly[i]]
        BY <1>1, <1>2
  <2> QED BY <1>2, <2>1, <2>2
<1>4. 95 \in 1..100
      OBVIOUS
<1> HIDE DEF xs
<1>5. IsNearestRank(Percentile(xs, 95), xs, 95)
      BY <1>3, <1>4, PercentileRank
<1> QED BY <1>5 DEF xs

\* The p95 a burst is measured against is the nearest rank of the engineer's
\* samples, for histories of any length.
THEOREM RankIsNearest == Spec => []NearestRank
<1>1. Init => RankInv
      BY DEF Init, NoBaseline, RankInv
<1>2. TypeInv /\ RankInv /\ [Next]_vars => RankInv'
      BY RankStep
<1>3. RankInv => NearestRank
  <2> SUFFICES ASSUME RankInv, baseline.p95 # 0 PROVE NearestRank
      BY DEF NearestRank
  <2>1. PICK s \in Series : s.hourly # <<>> /\ baseline.p95 = Percentile(s.hourly, 95)
        BY DEF RankInv
  <2>2. s.hourly \in Seq(Nat)
        BY Constants
  <2>3. 95 \in 1..100
        OBVIOUS
  <2>4. IsNearestRank(Percentile(s.hourly, 95), s.hourly, 95)
        BY <2>1, <2>2, <2>3, PercentileRank
  <2> QED BY <2>1, <2>4, EveryRank DEF NearestRank
<1> QED BY <1>1, <1>2, <1>3, TypeAlways, PTL DEF Spec

-----------------------------------------------------------------------------
(* One signal of a kind, a severity and a day                              *)

\* A worker at SETNX holds a TTL that lasts at least to the deadline of its
\* key: it was computed when the clock said no more than now.
Timely(l) == l.pc = "setnx" => now + l.ttl >= Deadline(KeyOf(l))
TtlInv == \A w \in Worker : Timely(work[w])

\* A key that was won once more often than Redis restarted is still there,
\* and stays until its deadline.
Held(k) == wins[k] <= restarts \/ (wins[k] <= restarts + 1 /\ claim[k] >= Deadline(k))
OnceInv == \A k \in Key : Held(k)

\* The handler goes on without a row, at one of the later checks.
LEMMA ReturnIs ==
  ASSUME NEW l \in Locals
  PROVE  Return(l).pc \in {"idle", "load", "zscore"} /\ Return(l).row = NoRow
<1>1. l.kind \in Kind
      BY DEF Locals
<1>2. CASE l.kind = "burst"
      BY <1>2 DEF Return, Idle
<1>3. CASE l.kind = "rhythm_break"
      BY <1>3 DEF Return, Idle
<1>4. CASE l.kind = "spend_zscore_high"
      BY <1>4 DEF Return, Idle
<1> QED BY <1>1, <1>2, <1>3, <1>4 DEF Kind

\* The row that fire writes.
RowOf(l) == [key |-> KeyOf(l), at |-> l.at, observed |-> l.observed,
             sent |-> {}, notified |-> FALSE]

\* What a worker with the locals l may be after a step.
Goes(l, n) == n.pc \in {"idle", "load", "zscore"} /\ n.row = NoRow
Takes(l, n) ==
  /\ n.pc = "zadd" /\ n.row = NoRow
  /\ \E e \in Event : At[e] = n.at /\ Cost[e] = n.cost
Adds(l, n) == n.pc \in {"trim", "range"} /\ n.row = l.row
Sums(l, n) ==
  /\ n.pc = "burst" /\ n.row = l.row /\ n.at = l.at
  /\ n.rolling = Sum([m \in Reach(l.at) |-> m.cost])
Fires(l, n) ==
  /\ n.pc = "setnx" /\ n.row = l.row /\ Timely(n)
  /\ n.kind = "burst" => l.pc = "burst" /\ n.at = l.at /\ n.observed = l.rolling
Claims(l, n) ==
  /\ n.pc = "insert" /\ l.pc = "setnx" /\ n.row = l.row
  /\ n.kind = l.kind /\ n.at = l.at /\ n.observed = l.observed
Writes(l, n) == n.pc = "engineer" /\ l.pc = "insert" /\ n.row = RowOf(l)
Tells(l, n) ==
  /\ n.pc \in {"manager", "mark"}
  /\ n.row.key = l.row.key /\ n.row.at = l.row.at /\ n.row.observed = l.row.observed

\* A worker that fires is timely.
LEMMA FireIs ==
  ASSUME TypeInv, NEW w \in Worker, NEW k \in Locals, Fire(w, k), k.row = work[w].row,
         k.kind = "burst" =>
           work[w].pc = "burst" /\ k.at = work[w].at /\ k.observed = work[w].rolling
  PROVE  Goes(work[w], work'[w]) \/ Fires(work[w], work'[w])
<1>0. work \in [Worker -> Locals] /\ now \in Time /\ now \in Nat /\ k.at \in Nat
      BY DEF TypeInv, TypeOK, Locals, Time
<1>1. CASE Become(w, Return(k))
  <2>1. work'[w] = Return(k)
        BY <1>0, <1>1 DEF Become
  <2> QED BY <2>1, ReturnIs DEF Goes
<1>2. ASSUME NEW ttl \in Nat, ttl = Deadline(KeyOf(k)) - now,
             Become(w, [k EXCEPT !.pc = "setnx", !.ttl = ttl])
      PROVE  Fires(work[w], work'[w])
  <2> DEFINE m == [k EXCEPT !.pc = "setnx", !.ttl = ttl]
  <2>1. work'[w] = m
        BY <1>0, <1>2 DEF Become
  <2>2. /\ KeyOf(m) = KeyOf(k) /\ m.ttl = ttl /\ m.pc = "setnx" /\ m.row = k.row
        /\ m.kind = k.kind /\ m.at = k.at /\ m.observed = k.observed
        BY DEF KeyOf, Locals
  <2>3. Deadline(KeyOf(k)) \in Nat
        BY <1>0, DeadlineOf
  <2>4. now + ttl >= Deadline(KeyOf(k))
        BY <1>0, <1>2, <2>3
  <2> HIDE DEF m
  <2> QED BY <2>1, <2>2, <2>4 DEF Timely, Fires
<1> QED BY <1>0, <1>1, <1>2, FireType

\* What one step makes of the worker that takes it.
Continues(l, n) ==
  \/ Goes(l, n) \/ Takes(l, n) \/ Adds(l, n) \/ Sums(l, n)
  \/ Fires(l, n) \/ Claims(l, n) \/ Writes(l, n) \/ Tells(l, n)

\* Every step of a worker is one of these.
LEMMA WorkedIs ==
  ASSUME TypeInv, NEW w \in Worker, Works(w)
  PROVE  Continues(work[w], work'[w])
<1> DEFINE l == work[w]
           n == work'[w]
<1>0. /\ work \in [Worker -> Locals] /\ l \in Locals /\ baseline \in Baseline
      /\ l.rolling \in Nat /\ l.at \in Time /\ l.observed \in Nat /\ l.row \in Row
      BY DEF TypeInv, TypeOK, Locals
<1>1. ASSUME NEW m, Become(w, m) PROVE n = m
      BY <1>0, <1>1 DEF Become
<1>2. ASSUME NEW m \in Locals, Become(w, Return(m)) PROVE Continues(l, n)
      BY <1>1, <1>2, ReturnIs DEF Goes, Continues
<1>3. ASSUME Become(w, Idle) PROVE Continues(l, n)
  <2>1. Idle.pc = "idle" /\ Idle.row = NoRow
        BY DEF Idle
  <2> QED BY <1>1, <1>3, <2>1 DEF Goes, Continues
<1>4. ASSUME NEW k \in Locals, Fire(w, k), k.row = l.row,
             k.kind = "burst" => l.pc = "burst" /\ k.at = l.at /\ k.observed = l.rolling
      PROVE  Continues(l, n)
      BY <1>4, FireIs DEF Continues
<1> SUFFICES Continues(l, n)
    OBVIOUS
<1> HIDE DEF l, n
<1>5. CASE HandleEvent(w)
  <2>1. PICK e \in Event :
          n = [Idle EXCEPT !.pc = IF Cost[e] > 0 THEN "zadd" ELSE "load",
                           !.at = At[e], !.cost = Cost[e]]
        BY <1>1, <1>5 DEF HandleEvent
  <2>2. /\ n.pc \in {"zadd", "load"} /\ n.row = NoRow
        /\ At[e] = n.at /\ Cost[e] = n.cost
        BY <2>1 DEF Idle
  <2> QED BY <2>2 DEF Continues, Goes, Takes
<1>6. CASE ZAdd(w)
  <2>1. n = [l EXCEPT !.pc = "trim"]
        BY <1>1, <1>6 DEF ZAdd, l
  <2> QED BY <1>0, <2>1 DEF Locals, Continues, Adds
<1>7. CASE Trim(w)
  <2>1. n = [l EXCEPT !.pc = "range"]
        BY <1>1, <1>7 DEF Trim, l
  <2> QED BY <1>0, <2>1 DEF Locals, Continues, Adds
<1>8. CASE ZRange(w)
  <2> DEFINE s == Sum([m \in Reach(l.at) |-> m.cost])
  <2>1. n = [l EXCEPT !.pc = "burst", !.cost = 0, !.rolling = s]
        BY <1>1, <1>8 DEF ZRange, Reach, l
  <2> HIDE DEF s
  <2>2. n.pc = "burst" /\ n.row = l.row /\ n.at = l.at /\ n.rolling = s
        BY <1>0, <2>1 DEF Locals
  <2> QED BY <2>2 DEF s, Continues, Sums
<1>9. CASE CheckBurst(w)
  <2> DEFINE sev == IF 2 * l.rolling >= 3 * (Multiplier * baseline.p95) THEN "critical" ELSE "warn"
             k == [l EXCEPT !.kind = "burst", !.observed = l.rolling, !.fits = TRUE,
                            !.sev = sev]
  <2>1. (Become(w, Return(k)) \/ Fire(w, k)) /\ l.pc = "burst"
        BY <1>9 DEF CheckBurst, l
  <2>2. sev \in Severity
        BY DEF Severity
  <2> HIDE DEF sev
  <2>3. k \in Locals /\ k.row = l.row /\ k.at = l.at /\ k.observed = l.rolling
        BY <1>0, <2>2 DEF Locals, Kind
  <2> HIDE DEF k
  <2> QED BY <1>2, <1>4, <2>1, <2>3
<1>10. CASE CheckRhythmBreak(w)
  <2> DEFINE sev == RhythmSeverity(baseline.frac)
             k == [l EXCEPT !.base = baseline, !.kind = "rhythm_break",
                            !.observed = baseline.frac, !.fits = TRUE, !.sev = sev]
  <2>1. Become(w, Idle) \/ Become(w, Return(k)) \/ Fire(w, k)
        BY <1>10 DEF CheckRhythmBreak, l
  <2>2. sev \in Severity /\ baseline.frac \in Nat
        BY <1>0 DEF Severity, RhythmSeverity, Baseline
  <2> HIDE DEF sev
  <2>3. k \in Locals /\ k.row = l.row /\ k.kind # "burst"
        BY <1>0, <2>2 DEF Locals, Kind
  <2> HIDE DEF k
  <2> QED BY <1>2, <1>3, <1>4, <2>1, <2>3
<1>11. CASE CheckZScore(w)
  <2> DEFINE sev(today) == IF AtLeast(ZCritical, today, l.base) THEN "critical" ELSE "warn"
             fits(today) == ~AtLeast(ZLimit, today, l.base)
             k(today) == [l EXCEPT !.kind = "spend_zscore_high", !.observed = today,
                                   !.fits = fits(today), !.sev = sev(today)]
  <2>1. PICK today \in Spends : Become(w, Idle) \/ Fire(w, k(today))
        BY <1>11 DEF CheckZScore, l
  <2>2. sev(today) \in Severity /\ fits(today) \in BOOLEAN /\ today \in Nat
        BY Constants DEF Severity, AtLeast
  <2> HIDE DEF sev, fits
  <2>3. k(today) \in Locals /\ k(today).row = l.row /\ k(today).kind # "burst"
        BY <1>0, <2>2 DEF Locals, Kind
  <2> HIDE DEF k
  <2> QED BY <1>3, <1>4, <2>1, <2>3
<1>12. CASE SetNX(w)
  <2>1. Become(w, [l EXCEPT !.pc = "insert"]) \/ Become(w, Return(l))
        BY <1>12 DEF SetNX, l
  <2>2. l.pc = "setnx"
        BY <1>12 DEF SetNX, l
  <2>3. CASE Become(w, [l EXCEPT !.pc = "insert"])
        BY <1>0, <1>1, <2>2, <2>3 DEF Locals, Continues, Claims
  <2> QED BY <1>0, <1>2, <2>1, <2>3
<1>13. CASE WriteSignalEvent(w)
  <2>1. Become(w, [l EXCEPT !.pc = "engineer", !.row = RowOf(l)]) \/ Become(w, Return(l))
        BY <1>13 DEF WriteSignalEvent, RowOf, l
  <2>2. l.pc = "insert"
        BY <1>13 DEF WriteSignalEvent, l
  <2>3. CASE Become(w, [l EXCEPT !.pc = "engineer", !.row = RowOf(l)])
        BY <1>0, <1>1, <2>2, <2>3 DEF Locals, Continues, Writes
  <2> QED BY <1>0, <1>2, <2>1, <2>3
<1>14. ASSUME NEW r \in {"engineer", "manager"}, PostDM(w, r) PROVE Continues(l, n)
  <2> DEFINE then == IF r = "engineer" THEN "manager" ELSE "mark"
             told == [l.row EXCEPT !.sent = @ \cup {r}]
  <2>1. n = [l EXCEPT !.pc = then, !.row = told] \/ n = [l EXCEPT !.pc = then]
        BY <1>1, <1>14 DEF PostDM, l
  <2>2. then \in {"manager", "mark"}
        OBVIOUS
  <2>3. told.key = l.row.key /\ told.at = l.row.at /\ told.observed = l.row.observed
        BY <1>0 DEF Row
  <2> HIDE DEF then, told
  <2>4. n.pc = then /\ (n.row = told \/ n.row = l.row)
        BY <1>0, <2>1 DEF Locals
  <2> QED BY <2>2, <2>3, <2>4 DEF Continues, Tells
<1>15. CASE MarkSignalNotified(w)
       BY <1>0, <1>2, <1>15 DEF MarkSignalNotified, l
<1>16. CASE CallFails(w) \/ WorkerCrash(w)
  <2>1. \/ Become(w, Return([l EXCEPT !.kind = "burst"]))
        \/ Become(w, Idle) \/ Become(w, Return(l))
        BY <1>16 DEF CallFails, WorkerCrash, l
  <2>2. [l EXCEPT !.kind = "burst"] \in Locals
        BY <1>0 DEF Locals, Kind
  <2> QED BY <1>0, <1>2, <1>3, <2>1, <2>2
<1> QED BY <1>5, <1>6, <1>7, <1>8, <1>9, <1>10, <1>11, <1>12, <1>13, <1>14, <1>15, <1>16
       DEF Works

\* Every step leaves all workers timely.
LEMMA TtlStep == ASSUME TypeInv, TtlInv, [Next]_vars PROVE TtlInv'
<1>0. work \in [Worker -> Locals] /\ now \in Nat
      BY DEF TypeInv, TypeOK, Locals, Time
<1>1. ASSUME work' = work, now' = now \/ now' = now + 1 PROVE TtlInv'
  <2> SUFFICES ASSUME NEW w \in Worker, work[w].pc = "setnx"
               PROVE  now' + work[w].ttl >= Deadline(KeyOf(work[w]))
      BY <1>1 DEF TtlInv, Timely
  <2>1. now + work[w].ttl >= Deadline(KeyOf(work[w]))
        BY DEF TtlInv, Timely
  <2>2. work[w].ttl \in Nat /\ work[w].at \in Nat
        BY <1>0 DEF Locals, Time
  <2>3. Deadline(KeyOf(work[w])) \in Nat
        BY <2>2, DeadlineOf
  <2> QED BY <1>0, <1>1, <2>1, <2>2, <2>3
<1>2. CASE Tick
      BY <1>1, <1>2 DEF Tick
<1>3. CASE RedisRestart \/ RebuildBaseline \/ SaveHours
      BY <1>1, <1>3 DEF RedisRestart, RebuildBaseline, SaveHours
<1>4. CASE UNCHANGED vars
      BY <1>1, <1>4 DEF vars
<1>5. ASSUME NEW w \in Worker, Works(w) PROVE TtlInv'
  <2>1. now' = now /\ \A v \in Worker : v # w => work'[v] = work[v]
        BY <1>0, <1>5, Others
  <2>2. Timely(work'[w])
    <3>1. Continues(work[w], work'[w])
          BY <1>5, WorkedIs
    <3> QED BY <3>1 DEF Continues, Goes, Takes, Adds, Sums, Fires, Claims, Writes, Tells, Timely
  <2>3. \A v \in Worker : Timely(work'[v])
        BY <2>1, <2>2 DEF TtlInv
  <2> QED BY <2>1, <2>3 DEF TtlInv, Timely
<1> QED BY <1>2, <1>3, <1>4, <1>5, NextIs

\* The claims change when Redis restarts, and by SETNX.
LEMMA ClaimsChange ==
  ASSUME [Next]_vars, ~RedisRestart, \A w \in Worker : ~SetNX(w)
  PROVE  UNCHANGED <<claim, wins, restarts>>
<1>1. CASE Tick \/ RebuildBaseline \/ SaveHours
      BY <1>1 DEF Tick, RebuildBaseline, SaveHours, redis, history
<1>2. CASE UNCHANGED vars
      BY <1>2 DEF vars
<1>3. ASSUME NEW w \in Worker, Works(w) PROVE UNCHANGED <<claim, wins, restarts>>
  <2>1. CASE HandleEvent(w) \/ ZAdd(w) \/ Trim(w) \/ ZRange(w) \/ CheckBurst(w)
        BY <2>1 DEF HandleEvent, ZAdd, Trim, ZRange, CheckBurst, redis, history
  <2>2. CASE CheckRhythmBreak(w) \/ CheckZScore(w) \/ WriteSignalEvent(w)
        BY <2>2 DEF CheckRhythmBreak, CheckZScore, WriteSignalEvent, redis, history
  <2>3. CASE \/ PostDM(w, "engineer") \/ PostDM(w, "manager") \/ MarkSignalNotified(w)
             \/ CallFails(w) \/ WorkerCrash(w)
        BY <2>3 DEF PostDM, MarkSignalNotified, CallFails, WorkerCrash, redis, history
  <2> QED BY <1>3, <2>1, <2>2, <2>3 DEF Works
<1> QED BY <1>1, <1>2, <1>3, NextIs

\* SETNX wins a key anew only if the claim is gone, which it is not before
\* its deadline.
LEMMA SetNXOnce ==
  ASSUME TypeInv, TtlInv, OnceInv, NEW w \in Worker, SetNX(w)
  PROVE  OnceInv'
<1> DEFINE l == work[w]
<1>0. /\ l \in Locals /\ now \in Nat /\ l.ttl \in Nat /\ l.at \in Nat /\ l.at \in Time
      BY DEF TypeInv, TypeOK, Locals, Time
<1>k. PICK k \in Key : k = KeyOf(l)
  <2>1. KeyOf(l) \in Key
        BY <1>0, KeyType DEF KeyOf, Locals
  <2> QED BY <2>1
<1> DEFINE D == Deadline(k)
           won == now >= claim[k]
<1>1. k \in Key /\ D \in Nat
      BY <1>0, <1>k, DeadlineOf
<1>2. l.pc = "setnx" /\ restarts' = restarts
      BY DEF SetNX
<1>3. now + l.ttl >= D
      BY <1>2, <1>k DEF TtlInv, Timely
<1>4. /\ claim' = IF won THEN [claim EXCEPT ![k] = now + l.ttl] ELSE claim
      /\ wins' = IF won /\ now < D THEN [wins EXCEPT ![k] = @ + 1] ELSE wins
      BY <1>k DEF SetNX
<1>5. /\ claim \in [Key -> Nat] /\ wins \in [Key -> Nat] /\ restarts \in Nat
      BY Constants DEF TypeInv, TypeOK
<1> HIDE DEF l, D
<1>6. ASSUME NEW j \in Key, j # k PROVE Held(j)'
  <2>1. claim'[j] = claim[j] /\ wins'[j] = wins[j]
        BY <1>4, <1>5, <1>6
  <2> QED BY <1>2, <2>1 DEF OnceInv, Held
<1>7. Held(k)'
  <2>1. CASE ~won
    <3>1. claim' = claim /\ wins' = wins
          BY <1>4, <2>1
    <3> QED BY <1>1, <1>2, <3>1 DEF OnceInv, Held
  <2>2. CASE won
    <3>1. claim'[k] = now + l.ttl
          BY <1>1, <1>4, <1>5, <2>2
    <3>2. CASE now < D
      <4>1. wins'[k] = wins[k] + 1
            BY <1>1, <1>4, <1>5, <2>2, <3>2
      <4>2. ~(claim[k] >= Deadline(k)) /\ wins[k] \in Nat
            BY <1>0, <1>1, <1>5, <2>2, <3>2 DEF D
      <4>3. wins[k] <= restarts
            BY <1>1, <4>2 DEF OnceInv, Held
      <4>4. wins'[k] <= restarts' + 1
            BY <1>2, <1>5, <4>1, <4>2, <4>3
      <4> QED BY <1>3, <3>1, <4>4 DEF Held, D
    <3>3. CASE ~(now < D)
      <4>1. wins'[k] = wins[k] /\ wins[k] \in Nat
            BY <1>1, <1>4, <1>5, <3>3
      <4>2. wins[k] <= restarts + 1
            BY <1>1, <1>5, <4>1 DEF OnceInv, Held
      <4> QED BY <1>2, <1>3, <3>1, <4>1, <4>2 DEF Held, D
    <3> QED BY <3>2, <3>3
  <2> QED BY <2>1, <2>2
<1> QED BY <1>6, <1>7 DEF OnceInv

\* Every step leaves the claims held.
LEMMA OnceStep == ASSUME TypeInv, TtlInv, OnceInv, [Next]_vars PROVE OnceInv'
<1>1. CASE RedisRestart
  <2>1. wins' = wins /\ restarts' = restarts + 1
        BY <1>1 DEF RedisRestart
  <2>2. \A k \in Key : wins[k] \in Nat /\ restarts \in Nat
        BY Constants DEF TypeInv, TypeOK
  <2>3. \A k \in Key : wins[k] <= restarts + 1
        BY <2>2 DEF OnceInv, Held
  <2> QED BY <2>1, <2>3 DEF OnceInv, Held
<1>2. ASSUME NEW w \in Worker, SetNX(w) PROVE OnceInv'
      BY <1>2, SetNXOnce
<1>3. CASE UNCHANGED <<claim, wins, restarts>>
      BY <1>3 DEF OnceInv, Held
<1> QED BY <1>1, <1>2, <1>3, ClaimsChange

\* Both are invariant.
LEMMA OnceAlways == Spec => [](TtlInv /\ OnceInv)
<1>1. Init => TtlInv /\ OnceInv
  <2> SUFFICES ASSUME Init PROVE TtlInv /\ OnceInv
      OBVIOUS
  <2>1. TtlInv
        BY DEF Init, Idle, TtlInv, Timely
  <2>2. OnceInv
        BY DEF Init, OnceInv, Held
  <2> QED BY <2>1, <2>2
<1>2. TypeInv /\ TtlInv /\ OnceInv /\ [Next]_vars => (TtlInv /\ OnceInv)'
  <2> SUFFICES ASSUME TypeInv, TtlInv, OnceInv, [Next]_vars PROVE TtlInv' /\ OnceInv'
      OBVIOUS
  <2> QED BY TtlStep, OnceStep
<1> QED BY <1>1, <1>2, TypeAlways, PTL DEF Spec

\* Whatever the workers, the events and their order, and however often Kafka
\* delivers them, fire claims a signal of a kind, a severity and a day once in
\* a life of Redis.
THEOREM ClaimedOnce == Spec => []OneSignalPerDay
<1>1. TypeInv /\ OnceInv => OneSignalPerDay
  <2> SUFFICES ASSUME TypeInv, OnceInv, NEW k \in Key PROVE wins[k] <= 1 + restarts
      BY DEF OneSignalPerDay
  <2>1. wins[k] \in Nat /\ restarts \in Nat
        BY Constants DEF TypeInv, TypeOK
  <2> QED BY <2>1 DEF OnceInv, Held
<1> QED BY <1>1, TypeAlways, OnceAlways, PTL

-----------------------------------------------------------------------------
(* A claim is written                                                      *)

\* A row of the key, a reason why there is none, or a worker about to insert.
HasRow(k) == \E r \in signals : r.key = k
Inserting(w, k) == work[w].pc = "insert" /\ KeyOf(work[w]) = k
Traced(k) == HasRow(k) \/ unwritten[k] # "no" \/ \E w \in Worker : Inserting(w, k)

\* What fire, and the ends of it, do to what is traced.
LEMMA TraceWorker ==
  ASSUME TypeInv, NEW w \in Worker, Works(w), NEW k \in Key
  PROVE  /\ HasRow(k) => HasRow(k)'
         /\ unwritten[k] # "no" => unwritten'[k] # "no"
         /\ Inserting(w, k) => Traced(k)'
         /\ wins'[k] # wins[k] => Traced(k)'
<1> DEFINE l == work[w]
           j == KeyOf(l)
<1>0. /\ work \in [Worker -> Locals] /\ l \in Locals /\ l.row \in Row /\ l.at \in Time
      /\ signals \subseteq Row /\ wins \in [Key -> Nat]
      /\ unwritten \in [Key -> {"no", "fault", "overflow"}]
      BY DEF TypeInv, TypeOK, Locals
<1>1. j \in Key
      BY <1>0, KeyType DEF KeyOf, Locals
<1>2. ASSUME NEW u, u # "no", unwritten' = [unwritten EXCEPT ![j] = u]
      PROVE  /\ unwritten[k] # "no" => unwritten'[k] # "no"
             /\ j = k => unwritten'[k] # "no"
      BY <1>0, <1>1, <1>2
<1> HIDE DEF j
<1>3. CASE \/ HandleEvent(w) \/ ZAdd(w) \/ Trim(w) \/ ZRange(w) \/ CheckBurst(w)
           \/ CheckRhythmBreak(w) \/ CheckZScore(w)
  <2>1. UNCHANGED <<signals, unwritten, wins>> /\ l.pc # "insert"
        BY <1>3 DEF HandleEvent, ZAdd, Trim, ZRange, CheckBurst, CheckRhythmBreak,
                    CheckZScore, history
  <2> QED BY <2>1 DEF HasRow, Inserting
<1>4. CASE SetNX(w)
  <2>1. signals' = signals /\ l.pc = "setnx"
        BY <1>4 DEF SetNX
  <2>2. \/ unwritten' = unwritten
        \/ unwritten' = [unwritten EXCEPT ![j] = "fault"]
        \/ unwritten' = [unwritten EXCEPT ![j] = @]
        BY <1>4 DEF SetNX, j
  <2>3. unwritten[k] # "no" => unwritten'[k] # "no"
        BY <1>0, <1>2, <2>2
  <2>4. ASSUME wins'[k] # wins[k] PROVE Traced(k)'
    <3>1. j = k /\ now >= claim[j]
          BY <1>0, <1>1, <1>4, <2>4 DEF SetNX, j
    <3>2. CASE unwritten' = [unwritten EXCEPT ![j] = "fault"]
          BY <1>2, <3>1, <3>2 DEF Traced
    <3>3. CASE Become(w, [l EXCEPT !.pc = "insert"])
      <4>1. work'[w] = [l EXCEPT !.pc = "insert"]
            BY <1>0, <3>3 DEF Become
      <4>2. work'[w].pc = "insert" /\ KeyOf(work'[w]) = j
            BY <1>0, <4>1 DEF KeyOf, Locals, j
      <4> QED BY <3>1, <4>2 DEF Traced, Inserting
    <3>4. unwritten' = [unwritten EXCEPT ![j] = "fault"] \/ Become(w, [l EXCEPT !.pc = "insert"])
          BY <1>4, <3>1 DEF SetNX, j
    <3> QED BY <3>2, <3>3, <3>4
  <2> QED BY <2>1, <2>3, <2>4 DEF HasRow, Inserting
<1>5. CASE WriteSignalEvent(w)
  <2>1. wins' = wins /\ l.pc = "insert"
        BY <1>5 DEF WriteSignalEvent
  <2>2. CASE l.fits
    <3>1. signals' = signals \cup {RowOf(l)} /\ unwritten' = unwritten
          BY <1>5, <2>2 DEF WriteSignalEvent, Insert, RowOf
    <3>2. RowOf(l).key = j
          BY DEF RowOf, j
    <3> QED BY <2>1, <3>1, <3>2 DEF HasRow, Inserting, Traced, j
  <2>3. CASE ~l.fits
    <3>1. signals' = signals /\ unwritten' = [unwritten EXCEPT ![j] = "overflow"]
          BY <1>5, <2>3 DEF WriteSignalEvent, j
    <3> QED BY <1>2, <2>1, <3>1 DEF HasRow, Inserting, Traced, j
  <2> QED BY <2>2, <2>3
<1>6. ASSUME NEW p \in {"engineer", "manager"}, PostDM(w, p)
      PROVE  /\ HasRow(k) => HasRow(k)'
             /\ unwritten' = unwritten /\ wins' = wins /\ l.pc # "insert"
  <2>1. unwritten' = unwritten /\ wins' = wins /\ l.pc # "insert"
        BY <1>6 DEF PostDM, history
  <2> DEFINE told == [l.row EXCEPT !.sent = @ \cup {p}]
  <2>2. told.key = l.row.key
        BY <1>0 DEF Row
  <2>3. signals' = (signals \ {l.row}) \cup {told} \/ signals' = signals
        BY <1>6 DEF PostDM
  <2> HIDE DEF told, l
  <2> QED BY <2>1, <2>2, <2>3 DEF HasRow
<1>7. CASE MarkSignalNotified(w)
  <2>1. unwritten' = unwritten /\ wins' = wins /\ l.pc # "insert"
        BY <1>7 DEF MarkSignalNotified, history
  <2> DEFINE m(r) == IF r.key = l.row.key /\ r.at = l.row.at
                     THEN [r EXCEPT !.notified = TRUE] ELSE r
  <2>2. \A r \in signals : m(r).key = r.key
        BY <1>0 DEF Row
  <2>3. signals' = signals \/ signals' = {m(r) : r \in signals}
        BY <1>7 DEF MarkSignalNotified
  <2> HIDE DEF m
  <2>4. HasRow(k) => HasRow(k)'
        BY <2>2, <2>3 DEF HasRow
  <2> QED BY <2>1, <2>4 DEF Inserting
<1>8. CASE CallFails(w) \/ WorkerCrash(w)
  <2>1. /\ signals' = signals /\ wins' = wins
        /\ unwritten' = IF l.pc = "insert" THEN [unwritten EXCEPT ![j] = "fault"] ELSE unwritten
        BY <1>8 DEF CallFails, WorkerCrash, j
  <2> QED BY <1>2, <2>1 DEF HasRow, Inserting, Traced, j
<1> QED BY <1>3, <1>4, <1>5, <1>6, <1>7, <1>8 DEF Works, Inserting

\* Every step keeps the claims traced.
LEMMA TraceStep == ASSUME TypeInv, ClaimIsWritten, [Next]_vars PROVE ClaimIsWritten'
<1>0. work \in [Worker -> Locals] /\ wins \in [Key -> Nat]
      BY DEF TypeInv, TypeOK, Locals
<1>1. CASE UNCHANGED <<wins, signals, unwritten, work>>
      BY <1>1 DEF ClaimIsWritten
<1>2. CASE Tick \/ RedisRestart \/ RebuildBaseline \/ SaveHours \/ UNCHANGED vars
  <2>1. UNCHANGED <<wins, signals, unwritten, work>>
        BY <1>2 DEF Tick, RedisRestart, RebuildBaseline, SaveHours, vars, history
  <2> QED BY <1>1, <2>1
<1>3. ASSUME NEW w \in Worker, Works(w) PROVE ClaimIsWritten'
  <2> SUFFICES ASSUME NEW k \in Key, wins'[k] > 0 PROVE Traced(k)'
      BY DEF ClaimIsWritten, Traced, HasRow, Inserting
  <2>1. CASE wins'[k] # wins[k]
        BY <1>3, <2>1, TraceWorker
  <2>2. CASE wins'[k] = wins[k]
    <3>1. Traced(k)
          BY <2>2 DEF ClaimIsWritten, Traced, HasRow, Inserting
    <3>2. CASE HasRow(k) \/ unwritten[k] # "no" \/ Inserting(w, k)
          BY <1>3, <3>2, TraceWorker DEF Traced
    <3>3. ASSUME NEW v \in Worker, v # w, Inserting(v, k) PROVE Traced(k)'
      <4>1. work'[v] = work[v]
            BY <1>0, <1>3, <3>3, Others
      <4> QED BY <3>3, <4>1 DEF Inserting, Traced
    <3> QED BY <3>1, <3>2, <3>3 DEF Traced
  <2> QED BY <2>1, <2>2
<1> QED BY <1>2, <1>3, NextIs

\* A claim that was won leads to a row: only a failed call, a crash or a
\* z-score that overflows its column comes between the two.
THEOREM WrittenOrExplained == Spec => []ClaimIsWritten
<1>1. Init => ClaimIsWritten
      BY DEF Init, ClaimIsWritten
<1>2. TypeInv /\ ClaimIsWritten /\ [Next]_vars => ClaimIsWritten'
      BY TraceStep
<1> QED BY <1>1, <1>2, TypeAlways, PTL DEF Spec

-----------------------------------------------------------------------------
(* A burst is not inflated                                                 *)

\* What the events in S cost that are within reach of t.
InReach(t, S) == {e \in S : At[e] >= t - Window}
Spent(t, S) == Sum([e \in InReach(t, S) |-> Cost[e]])

\* What a row reports of a burst was spent by events of S.
Covered(r, S) == r.key[1] = "burst" => r.observed <= Spent(r.at, S)

\* So is what a worker has summed and may still report; and what it is about
\* to add to the window is an event's.
Backed(l, S) ==
  /\ l.pc = "zadd" => \E e \in Event : At[e] = l.at /\ Cost[e] = l.cost
  /\ l.pc = "burst" => l.rolling <= Spent(l.at, S)
  /\ l.pc \in {"setnx", "insert"} /\ l.kind = "burst" => l.observed <= Spent(l.at, S)
  /\ Covered(l.row, S)

\* Every member of the window is an event that was seen.
SourceInv == \A m \in window : \E e \in seen : At[e] = m.at /\ Cost[e] = m.cost
BurstInv ==
  /\ SourceInv
  /\ \A w \in Worker : Backed(work[w], seen)
  /\ \A r \in signals : Covered(r, seen)

\* The more events were seen, the more was spent.
LEMMA SpentGrows ==
  ASSUME NEW t \in Time, NEW S \in SUBSET Event, NEW T \in SUBSET Event, S \subseteq T
  PROVE  Spent(t, S) \in Nat /\ Spent(t, T) \in Nat /\ Spent(t, S) <= Spent(t, T)
<1> DEFINE f == [e \in InReach(t, S) |-> Cost[e]]
           g == [e \in InReach(t, T) |-> Cost[e]]
           h == [e \in InReach(t, S) |-> e]
<1>1. IsFiniteSet(Event) /\ Cost \in [Event -> Nat]
      BY Constants
<1>2. InReach(t, S) \in SUBSET Event /\ InReach(t, T) \in SUBSET Event
      BY DEF InReach
<1>3. InReach(t, S) \subseteq InReach(t, T)
      BY DEF InReach
<1>4. /\ DOMAIN f = InReach(t, S) /\ \A e \in DOMAIN f : f[e] = Cost[e] /\ f[e] \in Nat
      /\ DOMAIN g = InReach(t, T) /\ \A e \in DOMAIN g : g[e] = Cost[e] /\ g[e] \in Nat
      BY <1>1, <1>2
<1>5. IsFiniteSet(DOMAIN f) /\ IsFiniteSet(DOMAIN g)
      BY <1>1, <1>2, FS_Subset
<1>6. h \in [DOMAIN f -> DOMAIN g] /\ \A e \in DOMAIN f : h[e] = e
      BY <1>3
<1>7. \A e \in DOMAIN f : f[e] = g[h[e]]
      BY <1>3, <1>4, <1>6
<1>8. \A d, e \in DOMAIN f : h[d] = h[e] => d = e
      BY <1>6
<1>d. Spent(t, S) = Sum(f) /\ Spent(t, T) = Sum(g)
      BY DEF Spent
<1> HIDE DEF f, g, h
<1>9. Sum(f) \in Nat
      BY <1>4, <1>5, SumNat
<1>10. Sum(g) \in Nat
      BY <1>4, <1>5, SumNat
<1>11. Sum(f) <= Sum(g)
      BY <1>4, <1>5, <1>6, <1>7, <1>8, TotInjects
<1> QED BY <1>d, <1>9, <1>10, <1>11

\* The sum of the window is at most what was spent by the events seen: each
\* member is one of them, and no two members are the same one, for an event
\* has one time and one cost.
LEMMA RollingIsSpent ==
  ASSUME TypeInv, SourceInv, NEW t \in Time
  PROVE  Sum([m \in Reach(t) |-> m.cost]) <= Spent(t, seen)
<1> DEFINE f == [m \in Reach(t) |-> m.cost]
           g == [e \in InReach(t, seen) |-> Cost[e]]
           Of(m, e) == At[e] = m.at /\ Cost[e] = m.cost
           h == [m \in Reach(t) |-> CHOOSE e \in seen : Of(m, e)]
<1>1. IsFiniteSet(Event) /\ Cost \in [Event -> Nat] /\ seen \in SUBSET Event
      BY Constants DEF TypeInv, TypeOK
<1>2. InReach(t, seen) \in SUBSET Event
      BY <1>1 DEF InReach
<1>3. /\ Reach(t) \subseteq [at : Time, cost : Nat] /\ IsFiniteSet(Reach(t))
      BY MembersType
<1>4. \A m \in Reach(t) : m \in window /\ m.at >= t - Window
      BY DEF Reach, Members
<1>5. /\ DOMAIN f = Reach(t) /\ \A m \in DOMAIN f : f[m] = m.cost /\ f[m] \in Nat
      BY <1>3
<1>6. /\ DOMAIN g = InReach(t, seen) /\ \A e \in DOMAIN g : g[e] = Cost[e] /\ g[e] \in Nat
      BY <1>1, <1>2
<1>7. IsFiniteSet(DOMAIN f) /\ IsFiniteSet(DOMAIN g)
      BY <1>1, <1>2, <1>3, <1>5, <1>6, FS_Subset
<1>8. ASSUME NEW m \in Reach(t) PROVE h[m] \in InReach(t, seen) /\ Of(m, h[m])
  <2>1. \E e \in seen : Of(m, e)
        BY <1>4 DEF SourceInv
  <2>2. h[m] = CHOOSE e \in seen : Of(m, e)
        OBVIOUS
  <2> HIDE DEF h, Of
  <2>3. h[m] \in seen /\ Of(m, h[m])
        BY <2>1, <2>2
  <2>4. At[h[m]] = m.at
        BY <2>3 DEF Of
  <2> QED BY <1>4, <2>3, <2>4 DEF InReach
<1>9. DOMAIN h = Reach(t)
      OBVIOUS
<1>10. h \in [DOMAIN f -> DOMAIN g]
      BY <1>5, <1>6, <1>8
<1>d. Spent(t, seen) = Sum(g)
      BY DEF Spent
<1> HIDE DEF f, g, h
<1>11. \A m \in DOMAIN f : f[m] = g[h[m]]
      BY <1>5, <1>6, <1>8
<1>12. \A m, n \in DOMAIN f : h[m] = h[n] => m = n
  <2> SUFFICES ASSUME NEW m \in Reach(t), NEW n \in Reach(t), h[m] = h[n] PROVE m = n
      BY <1>5
  <2>1. m.at = n.at /\ m.cost = n.cost
        BY <1>8
  <2>2. m \in [at : Time, cost : Nat] /\ n \in [at : Time, cost : Nat]
        BY <1>3
  <2> QED BY <2>1, <2>2
<1>13. Sum(f) <= Sum(g)
      BY <1>5, <1>6, <1>7, <1>10, <1>11, <1>12, TotInjects
<1> QED BY <1>d, <1>13 DEF f

\* What is covered or backed stays so as more events are seen.
LEMMA BackedGrows ==
  ASSUME NEW S \in SUBSET Event, NEW T \in SUBSET Event, S \subseteq T
  PROVE  /\ \A r \in Row : Covered(r, S) => Covered(r, T)
         /\ \A l \in Locals : Backed(l, S) => Backed(l, T)
<1>1. ASSUME NEW t \in Time, NEW n \in Nat, n <= Spent(t, S) PROVE n <= Spent(t, T)
  <2>1. Spent(t, S) \in Nat /\ Spent(t, T) \in Nat /\ Spent(t, S) <= Spent(t, T)
        BY SpentGrows
  <2> QED BY <1>1, <2>1
<1>2. \A r \in Row : Covered(r, S) => Covered(r, T)
      BY <1>1 DEF Row, Covered
<1>3. ASSUME NEW l \in Locals, Backed(l, S) PROVE Backed(l, T)
  <2>1. l.at \in Time /\ l.rolling \in Nat /\ l.observed \in Nat /\ l.row \in Row
        BY DEF Locals
  <2> QED BY <1>1, <1>2, <1>3, <2>1 DEF Backed
<1> QED BY <1>2, <1>3

\* The empty row reports nothing.
LEMMA NoRowCovered == ASSUME NEW S \in SUBSET Event PROVE Covered(NoRow, S)
<1>1. NoRow.at \in Time /\ NoRow.observed = 0
      BY Constants DEF NoRow, Time
<1>2. Spent(NoRow.at, S) \in Nat
      BY <1>1, SpentGrows
<1> QED BY <1>1, <1>2 DEF Covered

\* A worker's step leaves it backed by what had been seen before.
LEMMA WorkedBacked ==
  ASSUME TypeInv, BurstInv, NEW w \in Worker, Works(w)
  PROVE  Backed(work'[w], seen)
<1> DEFINE l == work[w]
           n == work'[w]
<1>0. seen \in SUBSET Event /\ l.at \in Time /\ l.kind \in Kind
      BY DEF TypeInv, TypeOK
<1>1. Backed(l, seen) /\ SourceInv
      BY DEF BurstInv
<1>2. Continues(l, n)
      BY WorkedIs
<1>3. Covered(NoRow, seen)
      BY <1>0, NoRowCovered
<1>4. Sum([m \in Reach(l.at) |-> m.cost]) <= Spent(l.at, seen)
      BY <1>0, <1>1, RollingIsSpent
<1> HIDE DEF l, n
<1>5. Backed(n, seen)
  <2>1. CASE Goes(l, n) \/ Takes(l, n)
        BY <1>3, <2>1 DEF Goes, Takes, Backed
  <2>2. CASE Adds(l, n)
        BY <1>1, <2>2 DEF Adds, Backed
  <2>3. CASE Sums(l, n)
        BY <1>1, <1>4, <2>3 DEF Sums, Backed
  <2>4. CASE Fires(l, n) \/ Claims(l, n)
        BY <1>1, <2>4 DEF Fires, Claims, Backed
  <2>5. CASE Writes(l, n)
    <3>1. Covered(RowOf(l), seen)
          BY <1>1, <2>5 DEF Writes, Backed, Covered, RowOf, KeyOf
    <3> QED BY <2>5, <3>1 DEF Writes, Backed
  <2>6. CASE Tells(l, n)
    <3>1. Covered(n.row, seen)
          BY <1>1, <2>6 DEF Tells, Backed, Covered
    <3> QED BY <2>6, <3>1 DEF Tells, Backed
  <2> QED BY <1>2, <2>1, <2>2, <2>3, <2>4, <2>5, <2>6 DEF Continues
<1> QED BY <1>5 DEF n

\* The window holds what was seen, after every step.
LEMMA SourceStep ==
  ASSUME TypeInv, BurstInv, [Next]_vars
  PROVE  SourceInv' /\ seen' \in SUBSET Event /\ seen \subseteq seen'
<1>0. seen \in SUBSET Event /\ SourceInv
      BY DEF TypeInv, TypeOK, BurstInv
<1>1. CASE seen' = seen /\ window' \in SUBSET window
      BY <1>0, <1>1 DEF SourceInv
<1>2. CASE RedisRestart
      BY <1>1, <1>2 DEF RedisRestart
<1>3. CASE Tick \/ RebuildBaseline \/ SaveHours \/ UNCHANGED vars
      BY <1>1, <1>3 DEF Tick, RebuildBaseline, SaveHours, vars, redis, history
<1>4. ASSUME NEW w \in Worker, Works(w) PROVE SourceInv' /\ seen' \in SUBSET Event /\ seen \subseteq seen'
  <2>1. CASE ZAdd(w)
    <3>1. \E e \in Event : At[e] = work[w].at /\ Cost[e] = work[w].cost
          BY <2>1 DEF ZAdd, BurstInv, Backed
    <3>2. /\ window' = Members \cup {Member(w)}
          /\ seen' = seen \cup {e \in Event : At[e] = work[w].at /\ Cost[e] = work[w].cost}
          BY <2>1 DEF ZAdd
    <3>3. Member(w).at = work[w].at /\ Member(w).cost = work[w].cost
          BY DEF Member
    <3>4. \A m \in Members : m \in window
          BY DEF Members
    <3>5. seen' \in SUBSET Event /\ seen \subseteq seen'
          BY <1>0, <3>2
    <3>6. ASSUME NEW m \in window' PROVE \E e \in seen' : At[e] = m.at /\ Cost[e] = m.cost
      <4>1. CASE m \in Members
        <5>1. PICK e \in seen : At[e] = m.at /\ Cost[e] = m.cost
              BY <1>0, <3>4, <4>1 DEF SourceInv
        <5> QED BY <3>5, <5>1
      <4>2. CASE m = Member(w)
        <5>1. PICK e \in Event : At[e] = work[w].at /\ Cost[e] = work[w].cost
              BY <3>1
        <5>2. e \in seen'
              BY <3>2, <5>1
        <5> QED BY <3>3, <4>2, <5>1, <5>2
      <4> QED BY <3>2, <4>1, <4>2
    <3> QED BY <3>5, <3>6 DEF SourceInv
  <2>2. CASE Trim(w)
        BY <1>1, <2>2 DEF Trim, Members, history
  <2>3. CASE HandleEvent(w) \/ ZRange(w) \/ CheckBurst(w) \/ CheckRhythmBreak(w) \/ CheckZScore(w)
        BY <1>1, <2>3 DEF HandleEvent, ZRange, CheckBurst, CheckRhythmBreak, CheckZScore,
                          redis, history
  <2>4. CASE SetNX(w) \/ WriteSignalEvent(w) \/ CallFails(w) \/ WorkerCrash(w)
        BY <1>1, <2>4 DEF SetNX, WriteSignalEvent, CallFails, WorkerCrash, redis
  <2>5. CASE PostDM(w, "engineer") \/ PostDM(w, "manager") \/ MarkSignalNotified(w)
        BY <1>1, <2>5 DEF PostDM, MarkSignalNotified, redis, history
  <2> QED BY <1>4, <2>1, <2>2, <2>3, <2>4, <2>5 DEF Works
<1> QED BY <1>2, <1>3, <1>4, NextIs

\* The rows written stay covered by what had been seen.
LEMMA RowsCovered ==
  ASSUME TypeInv, BurstInv, [Next]_vars
  PROVE  \A r \in signals' : Covered(r, seen)
<1>0. \A r \in signals : Covered(r, seen)
      BY DEF BurstInv
<1>1. CASE signals' = signals
      BY <1>0, <1>1
<1>2. CASE Tick \/ RedisRestart \/ RebuildBaseline \/ SaveHours \/ UNCHANGED vars
  <2>1. signals' = signals
        BY <1>2 DEF Tick, RedisRestart, RebuildBaseline, SaveHours, vars
  <2> QED BY <1>1, <2>1
<1>3. ASSUME NEW w \in Worker, Works(w) PROVE \A r \in signals' : Covered(r, seen)
  <2> DEFINE l == work[w]
  <2>0. Backed(l, seen) /\ l.row \in Row /\ signals \subseteq Row
        BY DEF BurstInv, TypeInv, TypeOK
  <2>1. CASE WriteSignalEvent(w)
    <3>1. l.pc = "insert" /\ (signals' = signals \/ signals' = signals \cup {RowOf(l)})
          BY <2>1 DEF WriteSignalEvent, Insert, RowOf
    <3> HIDE DEF l
    <3>2. Covered(RowOf(l), seen)
          BY <2>0, <3>1 DEF Backed, Covered, RowOf, KeyOf
    <3> QED BY <1>0, <3>1, <3>2
  <2>2. ASSUME NEW p \in {"engineer", "manager"}, PostDM(w, p)
        PROVE  \A r \in signals' : Covered(r, seen)
    <3> DEFINE told == [l.row EXCEPT !.sent = @ \cup {p}]
    <3>1. told.key = l.row.key /\ told.at = l.row.at /\ told.observed = l.row.observed
          BY <2>0 DEF Row
    <3>2. signals' = (signals \ {l.row}) \cup {told} \/ signals' = signals
          BY <2>2 DEF PostDM
    <3> HIDE DEF l, told
    <3>3. Covered(told, seen)
          BY <2>0, <3>1 DEF Backed, Covered
    <3> QED BY <1>0, <3>2, <3>3
  <2>3. CASE MarkSignalNotified(w)
    <3> DEFINE m(r) == IF r.key = l.row.key /\ r.at = l.row.at
                       THEN [r EXCEPT !.notified = TRUE] ELSE r
    <3>1. ASSUME NEW r \in signals PROVE Covered(m(r), seen)
      <4>1. m(r).key = r.key /\ m(r).at = r.at /\ m(r).observed = r.observed
            BY <2>0 DEF Row
      <4> HIDE DEF m
      <4> QED BY <1>0, <4>1 DEF Covered
    <3>2. signals' = signals \/ signals' = {m(r) : r \in signals}
          BY <2>3 DEF MarkSignalNotified
    <3> HIDE DEF m
    <3> QED BY <1>0, <3>1, <3>2
  <2>4. CASE \/ HandleEvent(w) \/ ZAdd(w) \/ Trim(w) \/ ZRange(w) \/ CheckBurst(w)
             \/ CheckRhythmBreak(w) \/ CheckZScore(w)
        BY <1>1, <2>4 DEF HandleEvent, ZAdd, Trim, ZRange, CheckBurst, CheckRhythmBreak,
                          CheckZScore
  <2>5. CASE SetNX(w) \/ CallFails(w) \/ WorkerCrash(w)
        BY <1>1, <2>5 DEF SetNX, CallFails, WorkerCrash
  <2> QED BY <1>3, <2>1, <2>2, <2>3, <2>4, <2>5 DEF Works
<1> QED BY <1>2, <1>3, NextIs

\* Every step keeps the bursts covered.
LEMMA BurstStep == ASSUME TypeInv, BurstInv, [Next]_vars PROVE BurstInv'
<1>0. /\ seen \in SUBSET Event /\ work \in [Worker -> Locals]
      /\ \A w \in Worker : Backed(work[w], seen)
      BY DEF TypeInv, TypeOK, BurstInv, Locals
<1>1. SourceInv' /\ seen' \in SUBSET Event /\ seen \subseteq seen'
      BY SourceStep
<1>2. TypeInv'
      BY TypeStep
<1>3. work' \in [Worker -> Locals] /\ signals' \subseteq Row
      BY <1>2 DEF TypeInv, TypeOK, Locals
<1>4. \A w \in Worker : Backed(work'[w], seen)
  <2>1. CASE Tick \/ RedisRestart \/ RebuildBaseline \/ SaveHours \/ UNCHANGED vars
    <3>1. work' = work
          BY <2>1 DEF Tick, RedisRestart, RebuildBaseline, SaveHours, vars
    <3> QED BY <1>0, <3>1
  <2>2. ASSUME NEW w \in Worker, Works(w) PROVE \A v \in Worker : Backed(work'[v], seen)
    <3>1. Backed(work'[w], seen)
          BY <2>2, WorkedBacked
    <3>2. \A v \in Worker : v # w => work'[v] = work[v]
          BY <1>0, <2>2, Others
    <3> QED BY <1>0, <3>1, <3>2
  <2> QED BY <2>1, <2>2, NextIs
<1>5. \A r \in signals' : Covered(r, seen)
      BY RowsCovered
<1>6. \A w \in Worker : Backed(work'[w], seen')
      BY <1>0, <1>1, <1>3, <1>4, BackedGrows
<1>7. \A r \in signals' : Covered(r, seen')
      BY <1>0, <1>1, <1>3, <1>5, BackedGrows
<1> QED BY <1>1, <1>6, <1>7 DEF BurstInv

\* A redelivered event adds nothing to the window, so that what a burst
\* reports was spent by different events, none older than the window:
\* for any events, redeliveries, restarts of Redis and crashes of workers.
THEOREM BurstIsSpent == Spec => []BurstNotInflated
<1>1. Init => BurstInv
  <2> SUFFICES ASSUME Init PROVE BurstInv
      OBVIOUS
  <2>1. SourceInv /\ seen = {} /\ signals = {}
        BY DEF Init, SourceInv
  <2>2. ASSUME NEW w \in Worker PROVE Backed(work[w], seen)
    <3>1. work[w] = Idle
          BY DEF Init
    <3>2. Idle.pc = "idle" /\ Idle.row = NoRow
          BY DEF Idle
    <3>3. Covered(NoRow, seen)
          BY <2>1, NoRowCovered
    <3> QED BY <3>1, <3>2, <3>3 DEF Backed
  <2> QED BY <2>1, <2>2 DEF BurstInv
<1>2. TypeInv /\ BurstInv /\ [Next]_vars => BurstInv'
      BY BurstStep
<1>3. BurstInv => BurstNotInflated
      BY DEF BurstInv, Covered, Spent, InReach, BurstNotInflated
<1> QED BY <1>1, <1>2, <1>3, TypeAlways, PTL DEF Spec
=============================================================================
