---------------------------- MODULE SetInduction ----------------------------
(***************************************************************************)
(* Induction without operator parameters: what is to be proved of every    *)
(* number, or of every subset of a finite set, is given as the set of      *)
(* those it holds of.                                                      *)
(***************************************************************************)
EXTENDS Integers, FiniteSets, FiniteSetTheorems, WellFoundedInduction, TLAPS

(* Every non-empty set of natural numbers has a least element.             *)
LEMMA LeastNatural ==
  ASSUME NEW T, T \subseteq Nat, T # {}
  PROVE  \E m \in T : \A n \in T : m <= n
  <1> DEFINE R == OpToRel(<, Nat)
  <1>1. IsWellFoundedOn(R, Nat)
    BY NatLessThanWellFounded
  <1>2. \A x, y \in Nat : x < y => <<x, y>> \in R
    BY DEF OpToRel
  <1> HIDE DEF R
  <1>3. PICK m \in T : \A n \in T : <<n, m>> \notin R
    BY <1>1, WFMin, Zenon
  <1>4. \A n \in T : ~(n < m)
    BY <1>2, <1>3
  <1>5. \A n \in T : m <= n
    BY <1>4
  <1> QED
    BY <1>5

(* What holds of 0, and of n + 1 if it holds of n, holds of all numbers.   *)
LEMMA NumberInduction ==
  ASSUME NEW T, 0 \in T, \A n \in Nat : n \in T => n + 1 \in T
  PROVE  Nat \subseteq T
  <1> SUFFICES ASSUME Nat \ T # {} PROVE FALSE
    OBVIOUS
  <1>1. PICK m \in Nat \ T : \A n \in Nat \ T : m <= n
    BY LeastNatural
  <1>2. m # 0 /\ m - 1 \in Nat
    BY <1>1
  <1>3. m - 1 \in T
    BY <1>1, <1>2
  <1> QED
    BY <1>1, <1>2, <1>3

(* What holds of the empty set, and of a set with one more element of S if *)
(* it holds of the set without it, holds of S.                             *)
LEMMA SubsetInduction ==
  ASSUME NEW S, IsFiniteSet(S), NEW P, {} \in P,
         \A U \in SUBSET S : \A x \in S : U \in P /\ x \notin U => U \cup {x} \in P
  PROVE  S \in P
  <1> DEFINE T == {n \in Nat : \A U \in SUBSET S : Cardinality(U) = n => U \in P}
  <1>1. \A U \in SUBSET S : IsFiniteSet(U) /\ Cardinality(U) \in Nat
    BY FS_Subset, FS_CardinalityType
  <1>2. 0 \in T
    BY <1>1, FS_EmptySet
  <1>3. ASSUME NEW n \in Nat, n \in T PROVE n + 1 \in T
    <2> SUFFICES ASSUME NEW U \in SUBSET S, Cardinality(U) = n + 1 PROVE U \in P
      OBVIOUS
    <2>1. U # {}
      BY FS_EmptySet
    <2>2. PICK x \in U : TRUE
      BY <2>1
    <2>3. U \ {x} \in SUBSET S /\ x \in S /\ U = (U \ {x}) \cup {x}
      OBVIOUS
    <2>4. Cardinality(U \ {x}) = n
      <3>1. IsFiniteSet(U)
        BY <1>1
      <3>2. Cardinality(U \ {x}) = Cardinality(U) - 1
        BY <2>2, <3>1, FS_RemoveElement
      <3> QED
        BY <3>2
    <2>5. U \ {x} \in P
      BY <1>3, <2>3, <2>4
    <2> QED
      BY <2>3, <2>5
  <1>4. Nat \subseteq T
    <2> HIDE DEF T
    <2> QED BY <1>2, <1>3, NumberInduction
  <1>5. Cardinality(S) \in T
    BY <1>1, <1>4
  <1> QED
    BY <1>5
=============================================================================
