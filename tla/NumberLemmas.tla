---------------------------- MODULE NumberLemmas ----------------------------
(***************************************************************************)
(* Division with remainder, for the modules whose addresses, counts and    *)
(* indices are split by a constant, the least number of a set, and the     *)
(* order of the numbers of a set.                                          *)
(***************************************************************************)
EXTENDS Integers, FiniteSets, FiniteSetTheorems, WellFoundedInduction, TLAPS

(* Division with remainder.                                                *)
LEMMA DivMod ==
  ASSUME NEW a \in Int, NEW N \in Nat \ {0}
  PROVE  /\ a = N * (a \div N) + (a % N)
         /\ a \div N \in Int
         /\ a % N \in 0 .. N - 1
BY SMTT(30)

(* Multiples of N that differ, differ by at least N.                       *)
LEMMA MultipleGap ==
  ASSUME NEW N \in Nat \ {0}, NEW p \in Int, NEW q \in Int, N * p < N * q
  PROVE  N * q >= N * p + N
<1>1. p < q
  BY SMTT(30)
<1>2. q - p \in Nat /\ q - p >= 1 /\ N >= 1
  BY <1>1
<1>3. N * (q - p) >= N
  BY <1>2, SMTT(30)
<1> QED
  BY <1>3, SMTT(30)

(* Quotient and remainder are the only ones.                               *)
LEMMA DivModUnique ==
  ASSUME NEW N \in Nat \ {0}, NEW q \in Int, NEW r \in 0 .. N - 1
  PROVE  /\ N * q + r \in Int
         /\ (N * q + r) \div N = q
         /\ (N * q + r) % N = r
<1> DEFINE a == N * q + r
<1>1. a \in Int /\ N * q \in Int
  OBVIOUS
<1> DEFINE p == a \div N  s == a % N
<1>2. a = N * p + s /\ p \in Int /\ s \in 0 .. N - 1
  BY <1>1, DivMod
<1>3. N * p \in Int
  BY <1>2
<1> HIDE DEF p, s
<1>4. ~(N * p < N * q)
  <2> SUFFICES ASSUME N * p < N * q PROVE FALSE
    OBVIOUS
  <2>1. N * q >= N * p + N
    BY <1>2, MultipleGap
  <2> QED
    BY <1>1, <1>2, <1>3, <2>1
<1>5. ~(N * q < N * p)
  <2> SUFFICES ASSUME N * q < N * p PROVE FALSE
    OBVIOUS
  <2>1. N * p >= N * q + N
    BY <1>2, MultipleGap
  <2> QED
    BY <1>1, <1>2, <1>3, <2>1
<1>6. N * p = N * q
  BY <1>1, <1>3, <1>4, <1>5
<1>7. s = r
  BY <1>1, <1>2, <1>3, <1>6
<1>8. ~(p < q) /\ ~(q < p)
  BY <1>2, <1>6, SMTT(30)
<1>9. p = q
  BY <1>2, <1>8
<1> QED
  BY <1>1, <1>7, <1>9 DEF p, s

(* A number smaller than the divisor is its own remainder, and the divisor *)
(* leaves none.                                                            *)
LEMMA ModSmall ==
  ASSUME NEW N \in Nat \ {0}
  PROVE  /\ N % N = 0
         /\ \A r \in 0 .. N - 1 : r % N = r /\ r \div N = 0
<1>1. N = N * 1 + 0 /\ \A r \in 0 .. N - 1 : r = N * 0 + r
  OBVIOUS
<1> QED
  BY <1>1, DivModUnique

(* Positions less than N apart have different remainders.                  *)
LEMMA SlotsDiffer ==
  ASSUME NEW a \in Int, NEW b \in Int, NEW N \in Nat \ {0}, a < b, b < a + N
  PROVE  a % N # b % N
<1> SUFFICES ASSUME a % N = b % N PROVE FALSE
  OBVIOUS
<1> DEFINE p == a \div N  q == b \div N
<1>1. a = N * p + (a % N) /\ p \in Int /\ b = N * q + (b % N) /\ q \in Int
      /\ a % N \in Int /\ b % N \in Int
  BY DivMod
<1>2. N * p \in Int /\ N * q \in Int
  BY <1>1
<1>3. N * p < N * q /\ N * q < N * p + N
  BY <1>1, <1>2
<1>4. N * q >= N * p + N
  BY <1>1, <1>3, MultipleGap
<1> QED
  BY <1>2, <1>3, <1>4

(* Advancing a remainder is advancing the position it stands for.          *)
LEMMA NextSlot ==
  ASSUME NEW a \in Int, NEW N \in Nat \ {0}
  PROVE  ((a % N) + 1) % N = (a + 1) % N
<1> DEFINE p == a \div N  r == a % N
<1>1. a = N * p + r /\ p \in Int /\ r \in 0 .. N - 1
  BY DivMod
<1> HIDE DEF p, r
<1>2. CASE r + 1 < N
  <2>1. a + 1 = N * p + (r + 1) /\ r + 1 \in 0 .. N - 1
    BY <1>1, <1>2, SMTT(30)
  <2>2. (a + 1) % N = r + 1
    BY <1>1, <2>1, DivModUnique
  <2>3. (r + 1) % N = r + 1
    BY <2>1, ModSmall
  <2> QED
    BY <2>2, <2>3 DEF r
<1>3. CASE r + 1 = N
  <2>1. a + 1 = N * (p + 1) + 0 /\ p + 1 \in Int /\ 0 \in 0 .. N - 1
    BY <1>1, <1>3, SMTT(30)
  <2>2. (a + 1) % N = 0
    BY <2>1, DivModUnique
  <2>3. (r + 1) % N = 0
    BY <1>3, ModSmall
  <2> QED
    BY <2>2, <2>3 DEF r
<1> QED
  BY <1>1, <1>2, <1>3

(* The least element of a set of natural numbers.                         *)
LEMMA LeastNat ==
  ASSUME NEW S \in SUBSET Nat, S # {}
  PROVE  \E m \in S : \A n \in S : m <= n
<1> DEFINE R == {ss \in Nat \X Nat : ss[1] < ss[2]}
<1>1. IsWellFoundedOn(R, Nat)
  BY NatLessThanWellFounded DEF OpToRel
<1>2. \A m, n \in Nat : <<n, m>> \in R <=> n < m
  OBVIOUS
<1> HIDE DEF R
<1>3. PICK m \in S : \A n \in S : ~(<<n, m>> \in R)
  BY <1>1, WFMin
<1>4. ASSUME NEW n \in S PROVE m <= n
  <2>1. m \in Nat /\ n \in Nat
    OBVIOUS
  <2>2. ~(n < m)
    BY <1>2, <1>3, <2>1
  <2> QED
    BY <2>1, <2>2
<1> QED
  BY <1>4

(* The greatest element of a bounded set of natural numbers.               *)
LEMMA GreatestNat ==
  ASSUME NEW N \in Nat, NEW S \in SUBSET (0 .. N), S # {}
  PROVE  \E m \in S : \A n \in S : n <= m
<1> DEFINE T == {N - n : n \in S}
<1>1. T \in SUBSET Nat /\ T # {}
  <2>1. \A n \in S : N - n \in Nat
    OBVIOUS
  <2> QED
    BY <2>1
<1> HIDE DEF T
<1>2. PICK t \in T : \A u \in T : t <= u
  BY <1>1, LeastNat
<1>3. PICK m \in S : t = N - m
  BY DEF T
<1>4. \A n \in S : N - m <= N - n
  BY <1>2, <1>3 DEF T
<1> QED
  BY <1>4

(* The members of a finite set of numbers, each numbered by how many are     *)
(* below it, are numbered from 0.                                           *)
LEMMA CountBelow ==
  ASSUME NEW S \in SUBSET Int, IsFiniteSet(S)
  PROVE  /\ Cardinality(S) \in Nat
         /\ \A p \in S : /\ Cardinality({x \in S : x < p}) \in 0 .. Cardinality(S) - 1
                         /\ \A q \in S : p < q => Cardinality({x \in S : x < p}) < Cardinality({x \in S : x < q})
         /\ \A k \in 0 .. Cardinality(S) - 1 : \E p \in S : Cardinality({x \in S : x < p}) = k
<1> DEFINE Below(p) == {q \in S : q < p}
<1>0. Cardinality(S) \in Nat
  BY FS_CardinalityType
<1>1. ASSUME NEW p \in S
      PROVE  /\ IsFiniteSet(Below(p)) /\ Cardinality(Below(p)) \in Nat
             /\ Cardinality(Below(p)) < Cardinality(S)
             /\ \A q \in S : p < q => Cardinality(Below(p)) < Cardinality(Below(q))
  <2>1. /\ IsFiniteSet(Below(p)) /\ Cardinality(Below(p)) <= Cardinality(S)
        /\ Cardinality(S) = Cardinality(Below(p)) => S = Below(p)
    BY FS_Subset, Below(p) \in SUBSET S
  <2>2. Cardinality(Below(p)) \in Nat
    BY <2>1, FS_CardinalityType
  <2>3. p \notin Below(p)
    OBVIOUS
  <2>4. ASSUME NEW q \in S, p < q PROVE Cardinality(Below(p)) < Cardinality(Below(q))
    <3>1. IsFiniteSet(Below(q))
      BY FS_Subset, Below(q) \in SUBSET S
    <3>2. Below(p) \in SUBSET Below(q) /\ p \in Below(q)
      <4>1. \A x \in S : x \in Int
        OBVIOUS
      <4>2. \A x \in S : x < p => x < q
        BY <4>1, <2>4
      <4> QED
        BY <4>2, <2>4
    <3>3. /\ Cardinality(Below(p)) <= Cardinality(Below(q))
          /\ Cardinality(Below(q)) = Cardinality(Below(p)) => Below(q) = Below(p)
      BY <3>1, <3>2, FS_Subset
    <3>4. Cardinality(Below(q)) \in Nat
      BY <3>1, FS_CardinalityType
    <3> HIDE DEF Below
    <3> QED
      BY <3>2, <3>3, <3>4, <2>2, <2>3
  <2> HIDE DEF Below
  <2> QED
    BY <2>1, <2>2, <2>3, <2>4, <1>0
<1>2. \A p : Cardinality({x \in S : x < p}) = Cardinality(Below(p))
  OBVIOUS
<1> HIDE DEF Below
<1> DEFINE f == [p \in S |-> Cardinality({x \in S : x < p})]
           T == 0 .. Cardinality(S) - 1
<1>3. \A p \in S : f[p] \in T
  BY <1>0, <1>1, <1>2
<1>4. f \in [S -> T]
  BY <1>3
<1>5. \A p, q \in S : p < q => f[p] < f[q]
  BY <1>1, <1>2
<1>6. \A p, q \in S : f[p] = f[q] => p = q
  <2> SUFFICES ASSUME NEW p \in S, NEW q \in S, f[p] = f[q] PROVE p = q
    OBVIOUS
  <2>1. p < q \/ q < p \/ p = q
    OBVIOUS
  <2>2. f[p] \in Int /\ f[q] \in Int
    BY <1>3, <1>0
  <2> QED
    BY <2>1, <2>2, <1>5
<1>7. f \in Injection(S, T)
  BY <1>4, <1>6 DEF Injection, IsInjective
<1>8. IsFiniteSet(T) /\ Cardinality(T) = Cardinality(S)
  BY <1>0, FS_Interval
<1>9. f \in Surjection(S, T)
  BY <1>7, <1>8, FS_Injection
<1>10. \A k \in T : \E p \in S : f[p] = k
  BY <1>9 DEF Surjection
<1> QED
  BY <1>0, <1>3, <1>5, <1>10
=============================================================================
