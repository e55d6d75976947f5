---------------------------- MODULE RankTheorems ----------------------------
(***************************************************************************)
(* What ORDER BY ... LIMIT takes, when a row is taken if fewer rows come   *)
(* before it than the limit says.  The queries of cpemon-writer and        *)
(* handleAdmin are modelled this way.                                      *)
(***************************************************************************)
EXTENDS Integers, FiniteSets, FunctionTheorems, FiniteSetTheorems, TLAPS

\* The rows of S that ORDER BY f LIMIT L takes.
FirstRows(S, f, L) ==
  {k \in S : Cardinality({j \in S : f[j] < f[k]}) < L}

\* The numbers below n.
LEMMA FirstNumbers ==
  ASSUME NEW n \in Nat
  PROVE  IsFiniteSet(0 .. n - 1) /\ Cardinality(0 .. n - 1) = n
BY FS_Interval

\* Of the rows S, put in order by distinct values of f, LIMIT L takes L rows,
\* or all if there are no more, and every row it takes comes before every row
\* it leaves.
LEMMA FirstOfMany ==
  ASSUME NEW S, IsFiniteSet(S), NEW L \in Nat,
         NEW f, \A k \in S : f[k] \in Int,
         \A j, k \in S : f[j] = f[k] => j = k
  PROVE  /\ IsFiniteSet(FirstRows(S, f, L))
         /\ Cardinality(FirstRows(S, f, L)) \in 0 .. L
         /\ FirstRows(S, f, L) # S => Cardinality(FirstRows(S, f, L)) = L
         /\ \A k \in FirstRows(S, f, L), j \in S \ FirstRows(S, f, L) : f[k] < f[j]
<1> DEFINE Before(k) == {j \in S : f[j] < f[k]}
           rank(k) == Cardinality(Before(k))
           First == {k \in S : rank(k) < L}
           g == [k \in First |-> rank(k)]
<1>1. ASSUME NEW k \in S
      PROVE  IsFiniteSet(Before(k)) /\ rank(k) \in Nat /\ f[k] \in Int
  <2>1. IsFiniteSet(Before(k))
    BY FS_Subset
  <2> QED
    BY <2>1, FS_CardinalityType
<1>2. ASSUME NEW k \in S, NEW j \in S, f[j] < f[k]
      PROVE  rank(j) < rank(k)
  <2>1. /\ Before(j) \in SUBSET Before(k)
        /\ j \in Before(k) \ Before(j)
    BY <1>1, <1>2
  <2>2. rank(j) <= rank(k) /\ rank(j) # rank(k)
    BY <1>1, <2>1, FS_Subset
  <2>3. rank(j) \in Nat /\ rank(k) \in Nat
    BY <1>1
  <2> HIDE DEF rank
  <2> QED
    BY <2>2, <2>3
<1> HIDE DEF rank
<1>3. ASSUME NEW j \in S, NEW k \in S, rank(j) <= rank(k)
      PROVE  f[j] <= f[k]
  <2>1. f[j] \in Int /\ f[k] \in Int /\ rank(j) \in Nat /\ rank(k) \in Nat
    BY <1>1
  <2>2. ~(f[k] < f[j])
    BY <1>2, <1>3, <2>1
  <2> QED
    BY <2>1, <2>2
<1>4. ASSUME NEW j \in S, NEW k \in S, rank(j) = rank(k)
      PROVE  j = k
  <2>1. f[j] \in Int /\ f[k] \in Int /\ rank(j) \in Nat /\ rank(k) \in Nat
    BY <1>1
  <2>2. f[j] <= f[k] /\ f[k] <= f[j]
    BY <1>3, <1>4, <2>1
  <2> QED
    BY <2>1, <2>2
<1>5. ASSUME NEW k \in First
      PROVE  k \in S /\ rank(k) \in 0 .. L - 1
  <2>1. k \in S /\ rank(k) < L /\ rank(k) \in Nat
    BY <1>1
  <2> QED
    BY <2>1
<1>6. g \in Injection(First, 0 .. L - 1)
  BY <1>4, <1>5 DEF Injection, IsInjective
<1>7. IsFiniteSet(First)
  BY FS_Subset
<1>8. Cardinality(First) \in 0 .. L
  <2>1. Cardinality(First) <= L
    BY <1>6, FirstNumbers, FS_Injection
  <2> QED
    BY <1>7, <2>1, FS_CardinalityType
<1>9. ASSUME NEW k \in First, NEW j \in S \ First
      PROVE  f[k] < f[j]
  <2>1. rank(k) < rank(j) /\ rank(k) \in Nat /\ rank(j) \in Nat
    <3>1. k \in S /\ rank(k) \in 0 .. L - 1
      BY <1>5
    <3>2. j \in S /\ ~(rank(j) < L)
      OBVIOUS
    <3>3. rank(j) \in Nat
      BY <1>1, <3>2
    <3> QED
      BY <3>1, <3>2, <3>3
  <2>2. f[k] \in Int /\ f[j] \in Int /\ f[k] <= f[j]
    BY <1>1, <1>3, <1>5, <2>1
  <2>3. f[k] # f[j]
    BY <1>5, <1>9
  <2> QED
    BY <2>2, <2>3
<1>10. ASSUME First # S
       PROVE  Cardinality(First) = L
  <2>1. PICK x \in S : ~(rank(x) < L)
    BY <1>10
  <2> DEFINE n == rank(x)
             h == [k \in Before(x) |-> rank(k)]
  <2>2. n \in Nat /\ L <= n
    <3>1. rank(x) \in Nat
      BY <1>1
    <3> QED
      BY <2>1, <3>1
  <2>3. ASSUME NEW k \in Before(x)
        PROVE  k \in S /\ rank(k) \in 0 .. n - 1
    <3>1. k \in S /\ rank(k) \in Nat /\ rank(k) < n
      BY <1>1, <1>2
    <3> QED
      BY <2>2, <3>1
  <2>4. h \in Injection(Before(x), 0 .. n - 1)
    BY <1>4, <2>3 DEF Injection, IsInjective
  <2>5. Cardinality(Before(x)) = n
    BY DEF rank
  <2>6. h \in Surjection(Before(x), 0 .. n - 1)
    BY <2>2, <2>4, <2>5, FirstNumbers, FS_Injection
  <2>7. ASSUME NEW i \in 0 .. L - 1
        PROVE  \E k \in First : g[k] = i
    <3>1. i \in 0 .. n - 1
      BY <2>2
    <3>2. PICK k \in Before(x) : h[k] = i
      BY <2>6, <3>1 DEF Surjection
    <3>3. k \in S /\ rank(k) = i
      BY <3>2
    <3> QED
      BY <3>3
  <2>8. g \in Bijection(First, 0 .. L - 1)
    BY <1>6, <2>7 DEF Bijection, Surjection, Injection
  <2>9. ExistsBijection(First, 0 .. L - 1)
    BY <2>8 DEF ExistsBijection
  <2> QED
    BY <1>7, <2>9, FirstNumbers, FS_Bijection
<1>11. First = FirstRows(S, f, L)
  BY DEF FirstRows, rank
<1> QED
  BY <1>7, <1>8, <1>9, <1>10, <1>11
=============================================================================
