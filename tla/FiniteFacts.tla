----------------------------- MODULE FiniteFacts -----------------------------
(***************************************************************************)
(* Facts about natural numbers and finite sets that the proofs share.      *)
(***************************************************************************)
EXTENDS Integers, FiniteSetTheorems, TLAPS

\* The order of the natural numbers, as a well-founded relation.
LEMMA LessThanRelation ==
    \E R : IsWellFoundedOn(R, Nat) /\ \A x, y \in Nat : x < y => <<x, y>> \in R
  <1>1. IsWellFoundedOn(OpToRel(<, Nat), Nat)
    BY NatLessThanWellFounded
  <1>2. \A x, y \in Nat : x < y => <<x, y>> \in OpToRel(<, Nat)
    BY DEF OpToRel
  <1>3. QED
    BY <1>1, <1>2, Zenon

\* Every set of natural numbers but the empty one has a least element.
LEMMA LeastNumber ==
    ASSUME NEW S, S \subseteq Nat, S # {}
    PROVE  \E m \in S : \A n \in S : m <= n
  <1>1. PICK R : IsWellFoundedOn(R, Nat) /\ \A x, y \in Nat : x < y => <<x, y>> \in R
    BY LessThanRelation
  <1>2. IsWellFoundedOn(R, Nat)
    BY <1>1
  <1>3. \E m \in S : \A n \in S : ~ (<<n, m>> \in R)
    BY ONLY <1>2, WFMin, S \subseteq Nat, S # {}, ZenonT(30)
  <1>4. PICK m \in S : \A n \in S : ~ (<<n, m>> \in R)
    BY <1>3
  <1>5. ASSUME NEW n \in S
        PROVE  m <= n
    <2>1. m \in Nat /\ n \in Nat
      OBVIOUS
    <2>2. ~ (n < m)
      BY <1>1, <1>4, <2>1, Zenon
    <2>3. QED
      BY <2>1, <2>2
  <1>6. QED
    BY <1>5

\* Every set of natural numbers up to some m but the empty one has a greatest.
LEMMA GreatestNumber ==
    ASSUME NEW m \in Nat, NEW S, S \subseteq 0..m, S # {}
    PROVE  \E x \in S : \A y \in S : y <= x
  <1> DEFINE T == {d \in 0..m : m - d \in S}
  <1>1. T \subseteq Nat /\ T # {}
    <2>1. PICK x \in S : TRUE
      OBVIOUS
    <2>2. m - x \in 0..m /\ m - (m - x) = x
      OBVIOUS
    <2>3. m - x \in T
      BY <2>2
    <2>4. T # {}
      BY <2>3, Zenon
    <2>5. T \subseteq Nat
      OBVIOUS
    <2>6. QED
      BY <2>4, <2>5
  <1>2. PICK t \in T : \A u \in T : t <= u
    BY <1>1, LeastNumber
  <1>3. ASSUME NEW y \in S
        PROVE  y <= m - t
    <2>1. m - y \in 0..m /\ m - (m - y) = y
      OBVIOUS
    <2>2. m - y \in T
      BY <2>1
    <2>3. QED
      BY <1>2, <2>2
  <1>4. QED
    BY <1>3

\* Induction up to m, over a set instead of a predicate.
LEMMA Induction ==
    ASSUME NEW m \in Nat, NEW S, 0 \in S, \A n \in 0..m : n < m /\ n \in S => n + 1 \in S
    PROVE  \A n \in 0..m : n \in S
  <1> SUFFICES ASSUME NEW k \in 0..m, k \notin S
               PROVE  FALSE
    OBVIOUS
  <1> DEFINE T == {n \in 0..m : n \notin S}
  <1>1. PICK t \in T : \A u \in T : t <= u
    <2>1. T \subseteq Nat /\ T # {}
      OBVIOUS
    <2>2. QED
      BY <2>1, LeastNumber
  <1>2. t # 0 /\ t - 1 \in 0..m /\ t - 1 < m /\ t - 1 + 1 = t
    BY <1>1
  <1>3. t - 1 \in S
    BY <1>1, <1>2
  <1>4. QED
    BY <1>1, <1>2, <1>3

\* A set that a function maps one to one onto another one has its size.
LEMMA OneToOne ==
    ASSUME NEW S, IsFiniteSet(S), NEW T, NEW f \in [S -> T],
           \A x, y \in S : f[x] = f[y] => x = y, \A t \in T : \E x \in S : f[x] = t
    PROVE  IsFiniteSet(T) /\ Cardinality(T) = Cardinality(S)
  <1>1. f \in Bijection(S, T)
    BY DEF Bijection, Injection, Surjection, IsInjective
  <1>2. ExistsBijection(S, T)
    BY <1>1 DEF ExistsBijection
  <1>3. QED
    BY <1>2, FS_Bijection

\* A set that a function maps onto another one is at least as large.
LEMMA Onto ==
    ASSUME NEW S, IsFiniteSet(S), NEW T, NEW f \in [S -> T], \A t \in T : \E x \in S : f[x] = t
    PROVE  IsFiniteSet(T) /\ Cardinality(T) <= Cardinality(S)
  <1>1. f \in Surjection(S, T)
    BY DEF Surjection
  <1>2. QED
    BY <1>1, FS_Surjection

\* A set that a function maps into a finite one, one to one, is not larger.
LEMMA Into ==
    ASSUME NEW S, NEW T, IsFiniteSet(T), NEW f \in [S -> T], \A x, y \in S : f[x] = f[y] => x = y
    PROVE  IsFiniteSet(S) /\ Cardinality(S) <= Cardinality(T)
  <1>1. f \in Injection(S, T)
    BY DEF Injection, IsInjective
  <1>2. QED
    BY <1>1, FS_Injection
=============================================================================
