---------------------------- MODULE NatInduction ----------------------------
(***************************************************************************)
(* Induction over the natural numbers in the form the proofs need: for a   *)
(* set of numbers, and as the least member of one.                         *)
(***************************************************************************)
EXTENDS Integers, WellFoundedInduction, TLAPS

\* Induction over the natural numbers, for a set of them.
LEMMA NatSetInduction ==
    ASSUME NEW T, 0 \in T, \A n \in Nat : n \in T => n + 1 \in T
    PROVE  Nat \subseteq T
  <1> DEFINE Rest == Nat \ T
  <1>1. SUFFICES ASSUME Rest # {} PROVE FALSE
    OBVIOUS
  <1>2. IsWellFoundedOn(OpToRel(<, Nat), Nat) /\ Rest \subseteq Nat
    BY NatLessThanWellFounded, Zenon
  <1> HIDE DEF Rest
  <1>3. PICK m \in Rest : \A n \in Rest : ~ (<<n, m>> \in OpToRel(<, Nat))
    BY <1>1, <1>2, WFMin, Zenon
  <1>4. m \in Nat /\ m # 0 /\ m \notin T
    BY DEF Rest
  <1>5. m - 1 \in Nat /\ m - 1 < m
    BY <1>4
  <1>6. <<m - 1, m>> \in OpToRel(<, Nat)
    BY <1>4, <1>5, Zenon DEF OpToRel
  <1>7. m - 1 \in T
    BY <1>3, <1>5, <1>6 DEF Rest
  <1>8. (m - 1) + 1 = m
    BY <1>4
  <1> QED  BY <1>4, <1>5, <1>7, <1>8

\* Every set of natural numbers but the empty one has a least member.
LEMMA LeastMember ==
    ASSUME NEW T, T \subseteq Nat, T # {}
    PROVE  \E m \in T : \A n \in T : m <= n
  <1>1. IsWellFoundedOn(OpToRel(<, Nat), Nat)
    BY NatLessThanWellFounded, Zenon
  <1>2. PICK m \in T : \A n \in T : ~ (<<n, m>> \in OpToRel(<, Nat))
    BY <1>1, WFMin, Zenon
  <1>3. ASSUME NEW n \in T PROVE m <= n
    <2>1. n \in Nat /\ m \in Nat
      OBVIOUS
    <2>2. ~ (n < m)
      BY <1>2, <2>1, Zenon DEF OpToRel
    <2> QED  BY <2>1, <2>2
  <1> QED  BY <1>2, <1>3
=============================================================================
