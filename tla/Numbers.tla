------------------------------ MODULE Numbers ------------------------------
(***************************************************************************)
(* What stands in for induction in the proofs about lists and texts: of    *)
(* the numbers for which a claim fails there is a least one.               *)
(***************************************************************************)
EXTENDS Integers, FiniteSetTheorems, WellFoundedInduction, TLAPS

\* A set of naturals has a least element.
LEMMA LeastNat ==
  ASSUME NEW N \in SUBSET Nat, N # {}
  PROVE  \E n \in N : \A m \in N : n <= m
<1> DEFINE T == {0..n : n \in N}
<1>1. T \subseteq FiniteSubsetsOf(Nat) /\ T # {}
  <2>1. \A n \in N : IsFiniteSet(0..n) /\ 0..n \subseteq Nat
    BY FS_Interval
  <2> QED  BY <2>1 DEF FiniteSubsetsOf
<1>2. PICK x \in T : \A y \in T : ~ (<<y, x>> \in StrictSubsetOrdering(Nat))
  <2> HIDE DEF T
  <2>1. IsWellFoundedOn(StrictSubsetOrdering(Nat), FiniteSubsetsOf(Nat))
    BY FS_StrictSubsetOrderingWellFounded
  <2> QED  BY <1>1, <2>1, WFMin
<1>3. PICK n \in N : x = 0..n
  BY <1>2
<1>4. ASSUME NEW m \in N, m < n PROVE FALSE
  <2>1. 0..m \in T /\ 0..m \subseteq Nat /\ 0..n \subseteq Nat
    OBVIOUS
  <2>2. 0..m \subseteq 0..n /\ 0..m # 0..n
    <3>1. n \in Nat /\ m \in Nat /\ n \in 0..n /\ n \notin 0..m
      BY <1>4
    <3> QED  BY <1>4, <3>1
  <2>3. <<0..m, 0..n>> \in StrictSubsetOrdering(Nat)
    BY <2>1, <2>2 DEF StrictSubsetOrdering
  <2> QED  BY <1>2, <1>3, <2>1, <2>3
<1>5. \A m \in N : n \in Nat /\ m \in Nat /\ ~(m < n)
  BY <1>4
<1> QED  BY <1>5

=============================================================================
