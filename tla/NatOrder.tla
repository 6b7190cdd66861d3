------------------------------ MODULE NatOrder ------------------------------
(***************************************************************************)
(* Facts about the order of the naturals that the proofs of several      *)
(* components rest on: a nonempty set of naturals has a least element,  *)
(* and a property that fails somewhere fails first somewhere.  They are  *)
(* derived from the well-foundedness of < on Nat.                        *)
(***************************************************************************)
EXTENDS Naturals, WellFoundedInduction, TLAPS

(* A nonempty set of naturals has a least element.  This is what makes a *)
(* CHOOSE of the first index with some property well defined, and what   *)
(* replaces induction on a bound: the least counterexample.              *)
LEMMA MinExists ==
    ASSUME NEW T \in SUBSET Nat, T # {}
    PROVE  \E x \in T : \A y \in T : x <= y
<1>. DEFINE Less == {ss \in Nat \X Nat : ss[1] < ss[2]}
<1>1. IsWellFoundedOn(Less, Nat)
  BY NatLessThanWellFounded, Zenon DEF OpToRel
<1>2. \E x \in T : \A y \in T : ~(<<y, x>> \in Less)
  BY <1>1, WFMin, Zenon
<1>3. \A x, y \in Nat : (<<y, x>> \in Less) = (y < x)
  OBVIOUS
<1>. HIDE DEF Less
<1>4. PICK x \in T : \A y \in T : ~(<<y, x>> \in Less)
  BY <1>2
<1>5. ASSUME NEW y \in T PROVE x <= y
  <2>1. x \in Nat /\ y \in Nat
    OBVIOUS
  <2>2. ~(y < x)
    BY <1>3, <1>4, <2>1
  <2>. QED
    BY <2>1, <2>2
<1>. QED
  BY <1>4, <1>5

=============================================================================
