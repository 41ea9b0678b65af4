-------------------------------- MODULE Counting --------------------------------
(***************************************************************************)
(* The facts about numbers and finite sets that the proofs about histories *)
(* and searches rest on.                                                   *)
(***************************************************************************)
EXTENDS Integers, FiniteSets, Functions

LeastNumberLaw == \A S \in SUBSET Nat : S # {} => \E x \in S : \A n \in S : x <= n

EmptyCountLaw ==
    /\ IsFiniteSet({}) /\ Cardinality({}) = 0
    /\ \A S : IsFiniteSet(S) => (Cardinality(S) = 0 <=> S = {})
CountTypeLaw == \A S : IsFiniteSet(S) => Cardinality(S) \in Nat
AddCountLaw ==
    \A S, x : IsFiniteSet(S) =>
        /\ IsFiniteSet(S \cup {x})
        /\ Cardinality(S \cup {x}) = IF x \in S THEN Cardinality(S) ELSE Cardinality(S) + 1
SubsetCountLaw ==
    \A S : IsFiniteSet(S) => \A T \in SUBSET S :
        /\ IsFiniteSet(T) /\ Cardinality(T) <= Cardinality(S)
        /\ Cardinality(S) = Cardinality(T) => S = T
IntervalCountLaw ==
    \A a \in Int, b \in Int :
        IsFiniteSet(a .. b) /\ Cardinality(a .. b) = IF a > b THEN 0 ELSE b - a + 1

BijectionCountLaw ==
    \A S, T : IsFiniteSet(S) /\ ExistsBijection(S, T) =>
        IsFiniteSet(T) /\ Cardinality(T) = Cardinality(S)
ListCountLaw ==
    \A S : \A n \in Nat : ExistsBijection(1 .. n, S) => IsFiniteSet(S) /\ Cardinality(S) = n
InjectionCountLaw ==
    \A S, T : \A f \in Injection(S, T) : IsFiniteSet(T) =>
        /\ IsFiniteSet(S) /\ Cardinality(S) <= Cardinality(T)
        /\ Cardinality(S) = Cardinality(T) <=> f \in Surjection(S, T)
SurjectionCountLaw ==
    \A S, T : \A f \in Surjection(S, T) : IsFiniteSet(S) =>
        /\ IsFiniteSet(T) /\ Cardinality(T) <= Cardinality(S)
        /\ Cardinality(T) = Cardinality(S) <=> f \in Injection(S, T)

CountingLaws ==
    /\ LeastNumberLaw /\ EmptyCountLaw /\ CountTypeLaw /\ AddCountLaw /\ SubsetCountLaw
    /\ IntervalCountLaw /\ BijectionCountLaw /\ ListCountLaw
    /\ InjectionCountLaw /\ SurjectionCountLaw

=================================================================================
