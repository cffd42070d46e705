----------------------------- MODULE Induction -----------------------------
(***************************************************************************)
(* Facts that the proofs about recursive functions and sequences rest on.   *)
(* Induction is stated with a set, the numbers that have the property, so   *)
(* that it can be cited for any property.                                   *)
(***************************************************************************)
EXTENDS Naturals, SequencesExt, FiniteSetTheorems, WellFoundedInduction, TLAPS

\* A set that holds 0 and every successor holds every number.
LEMMA NatSetInduction ==
  ASSUME NEW S, 0 \in S, \A n \in Nat : n \in S => n + 1 \in S
  PROVE  Nat \subseteq S
<1> DEFINE Rest == Nat \ S
<1> SUFFICES ASSUME Rest # {} PROVE FALSE
  OBVIOUS
<1>1. PICK k \in Rest : \A j \in Rest : <<j, k>> \notin OpToRel(<, Nat)
  <2> HIDE DEF Rest
  <2>1. IsWellFoundedOn(OpToRel(<, Nat), Nat)
    BY NatLessThanWellFounded
  <2>2. Rest \subseteq Nat
    BY DEF Rest
  <2> QED
    BY <2>1, <2>2, WFMin
<1>2. k \in Nat \ {0}
  OBVIOUS
<1>3. k - 1 \in Nat /\ <<k - 1, k>> \in OpToRel(<, Nat)
  BY <1>2 DEF OpToRel
<1>4. k - 1 \in S
  BY <1>1, <1>3
<1>5. (k - 1) + 1 = k
  BY <1>2
<1>6. k \in S
  BY <1>3, <1>4, <1>5
<1> QED
  BY <1>6

\* A function on 1 .. n is a sequence of its values.
LEMMA FunctionIsSequence ==
  ASSUME NEW f, NEW n \in Nat, f = [i \in 1 .. n |-> f[i]]
  PROVE  f \in Seq({f[i] : i \in DOMAIN f}) /\ Len(f) = n
  OBVIOUS

\* The sequence s goes through the members of S.
Enumerates(s, S) == s \in Seq(S) /\ Range(s) = S

\* SetToSeq goes through the members of a finite set.
LEMMA SetToSeqEnumerates ==
  ASSUME NEW S, IsFiniteSet(S)
  PROVE  Enumerates(SetToSeq(S), S) /\ IsInjective(SetToSeq(S))
<1> DEFINE n == Cardinality(S)
<1>1. n \in Nat /\ ExistsBijection(1 .. n, S)
  BY FS_CardinalityType
<1>2. PICK g : g \in Bijection(1 .. n, S)
  BY <1>1 DEF ExistsBijection
<1>3. g \in [1 .. n -> S] /\ IsInjective(g)
  BY <1>2 DEF Bijection, Injection, IsInjective
<1> DEFINE f == SetToSeq(S)
<1>4. f \in [1 .. n -> S] /\ IsInjective(f)
  BY <1>3 DEF SetToSeq
<1> HIDE DEF f
<1>5. f \in Seq(S)
  BY <1>1, <1>4
<1>6. f \in Injection(1 .. n, S)
  BY <1>4 DEF Injection, IsInjective
<1>7. Cardinality(1 .. n) = n
  BY <1>1, FS_Interval
<1>8. f \in Surjection(1 .. n, S)
  BY <1>6, <1>7, FS_Injection
<1>9. Range(f) = S
  BY <1>4, <1>8 DEF Range, Surjection
<1> QED
  BY <1>4, <1>5, <1>9 DEF Enumerates, f
=============================================================================
