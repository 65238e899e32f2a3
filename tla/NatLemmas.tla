----------------------------- MODULE NatLemmas -----------------------------
(***************************************************************************)
(* The natural numbers as the other proofs need them: a set of them has a  *)
(* least element, and one that holds 0 and every successor holds them all. *)
(* An induction is stated with such a set, since a theorem with an         *)
(* operator for its hypothesis cannot be instantiated.                     *)
(***************************************************************************)
EXTENDS Integers, WellFoundedInduction, TLAPS

\* Every non-empty set of natural numbers has a least element.
LEMMA LeastNat ==
    ASSUME NEW T \in SUBSET Nat, T # {}
    PROVE  \E x \in T : \A y \in T : x <= y
  <1> DEFINE R == OpToRel(<, Nat)
  <1>1. IsWellFoundedOn(R, Nat)
    BY NatLessThanWellFounded
  <1>3. R = {ss \in Nat \X Nat : ss[1] < ss[2]}
    BY DEF OpToRel
  <1> HIDE DEF R
  <1>2. PICK x \in T : \A y \in T : ~ (<<y, x>> \in R)
    BY <1>1, WFMin
  <1>4. ASSUME NEW y \in T PROVE x <= y
    <2>1. <<y, x>> \notin R /\ <<y, x>> \in Nat \X Nat
      BY <1>2
    <2> QED BY <1>3, <2>1
  <1> QED BY <1>4

\* Induction: the set of the numbers a fact holds of is all of Nat.
LEMMA NatInductive ==
    ASSUME NEW T \in SUBSET Nat, 0 \in T, \A n \in T : n + 1 \in T
    PROVE  T = Nat
  <1> SUFFICES ASSUME Nat \ T # {} PROVE FALSE
    OBVIOUS
  <1>1. PICK x \in Nat \ T : \A y \in Nat \ T : x <= y
    BY LeastNat
  <1>2. x - 1 \in T
    BY <1>1
  <1> QED BY <1>1, <1>2
=============================================================================
