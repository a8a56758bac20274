---------------------------- MODULE FiniteFacts ----------------------------
(***************************************************************************)
(* What the proofs of several components need of finite sets and natural   *)
(* numbers and the library states only for operators: the least number of   *)
(* a set, from the well-foundedness of strict inclusion.                     *)
(***************************************************************************)
EXTENDS FiniteSetTheorems, TLAPS

(* A set of natural numbers that is not empty has a least one. *)
LEMMA LeastNumber ==
  ASSUME NEW A \in SUBSET Nat, A # {}
  PROVE  \E m \in A : \A k \in A : m <= k
PROOF
  <1> DEFINE Below == {0 .. (n - 1) : n \in A}
             R == StrictSubsetOrdering(Nat)
  <1>1. \A n \in A : IsFiniteSet(0 .. (n - 1)) /\ 0 .. (n - 1) \in SUBSET Nat
    <2>1. TAKE n \in A
    <2>2. n \in Nat /\ n - 1 \in Int
      OBVIOUS
    <2>3. IsFiniteSet(0 .. (n - 1))
      BY <2>2, FS_Interval
    <2>. QED
      BY <2>2, <2>3
  <1>2. Below \subseteq FiniteSubsetsOf(Nat) /\ Below # {}
    BY <1>1 DEF FiniteSubsetsOf
  <1>3. IsWellFoundedOn(R, FiniteSubsetsOf(Nat))
    BY FS_StrictSubsetOrderingWellFounded
  <1>4. \E x \in Below : \A y \in Below : ~ (<<y, x>> \in R)
    <2> HIDE DEF Below, R
    <2>. QED
      BY <1>2, <1>3, WFMin
  <1>5. PICK m \in A : \A k \in A : <<0 .. (k - 1), 0 .. (m - 1)>> \notin R
    BY <1>4
  <1>6. ASSUME NEW k \in A, k < m
        PROVE  FALSE
    <2>1. 0 .. (k - 1) \subseteq 0 .. (m - 1) /\ k \in 0 .. (m - 1) /\ k \notin 0 .. (k - 1)
      BY <1>6
    <2>. QED
      BY <1>1, <1>5, <2>1 DEF StrictSubsetOrdering
  <1>. QED
    BY <1>6

(* A function into the natural numbers takes its greatest value on a finite  *)
(* set: an element with the least number of elements above it has none.      *)
LEMMA GreatestValue ==
  ASSUME NEW S, IsFiniteSet(S), S # {}, NEW f, \A x \in S : f[x] \in Nat
  PROVE  \E a \in S : \A b \in S : f[b] <= f[a]
PROOF
  <1> DEFINE Above(x) == {y \in S : f[x] < f[y]}
             A == {Cardinality(Above(x)) : x \in S}
  <1>1. ASSUME NEW x \in S PROVE IsFiniteSet(Above(x)) /\ Cardinality(Above(x)) \in Nat
    <2>1. Above(x) \in SUBSET S
      OBVIOUS
    <2> HIDE DEF Above
    <2>. QED
      BY <2>1, FS_Subset, FS_CardinalityType
  <1>2. A \in SUBSET Nat /\ A # {}
    BY <1>1
  <1>3. PICK a \in S : \A k \in A : Cardinality(Above(a)) <= k
    BY <1>2, LeastNumber
  <1>4. ASSUME NEW b \in S, ~ (f[b] <= f[a]) PROVE FALSE
    <2>1. f[a] < f[b]
      BY <1>4
    <2>2. Above(b) \in SUBSET Above(a) /\ b \in Above(a) /\ b \notin Above(b)
      BY <2>1
    <2>3. Cardinality(Above(b)) <= Cardinality(Above(a)) /\ Cardinality(Above(b)) # Cardinality(Above(a))
      <3> HIDE DEF Above
      <3>. QED
        BY <1>1, <2>2, FS_Subset
    <2>4. Cardinality(Above(b)) \in A
      OBVIOUS
    <2>5. Cardinality(Above(a)) <= Cardinality(Above(b))
      BY <1>3, <2>4
    <2>6. Cardinality(Above(a)) \in Nat /\ Cardinality(Above(b)) \in Nat
      BY <1>1
    <2>. QED
      BY <2>3, <2>5, <2>6
  <1>. QED
    BY <1>4

(* The values of a function on a finite set. *)
LEMMA FiniteImage ==
  ASSUME NEW S, IsFiniteSet(S), NEW T, NEW f \in [S -> T]
  PROVE  IsFiniteSet({f[x] : x \in S})
PROOF
  <1>1. f \in Surjection(S, {f[x] : x \in S})
    BY DEF Surjection
  <1>. QED
    BY <1>1, FS_Surjection
=============================================================================
