----------------------------- MODULE LeastNumber -----------------------------
(* A non-empty set of natural numbers has a least element.  The proofs use *)
(* it in place of induction: they look at the least counterexample.        *)
EXTENDS Integers, TLAPS, WellFoundedInduction

LEMMA LeastExists ==
  ASSUME NEW S, S \subseteq Nat, S # {}
  PROVE  \E e \in S : \A f \in S : e <= f
<1> DEFINE R == {p \in Nat \X Nat : p[1] < p[2]}
<1>1. IsWellFoundedOn(R, Nat)
  BY NatLessThanWellFounded, Zenon DEF OpToRel
<1>2. \E x \in S : \A y \in S : ~ (<<y, x>> \in R)
  <2> HIDE DEF R
  <2> QED BY <1>1, WFMin, Zenon
<1>3. \A x, y \in S : <<y, x>> \notin R => x <= y
  OBVIOUS
<1> HIDE DEF R
<1> QED BY <1>2, <1>3

(* And so has a greatest element, if it has a bound.                       *)
LEMMA GreatestExists ==
  ASSUME NEW n \in Nat, NEW S, S \subseteq 0 .. n, S # {}
  PROVE  \E e \in S : \A f \in S : f <= e
<1> DEFINE T == {n - e : e \in S}
<1>0. PICK e0 \in S : TRUE
  OBVIOUS
<1>1. T \subseteq Nat /\ n - e0 \in T
  OBVIOUS
<1>2. PICK d \in T : \A f \in T : d <= f
  <2> HIDE DEF T
  <2> QED BY <1>1, LeastExists
<1>3. PICK e \in S : d = n - e
  OBVIOUS
<1>4. \A f \in S : n - f \in T
  OBVIOUS
<1> HIDE DEF T
<1> QED BY <1>2, <1>3, <1>4
=============================================================================
