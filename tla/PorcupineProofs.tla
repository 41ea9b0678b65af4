------------------------------ MODULE PorcupineProofs ------------------------------
(***************************************************************************)
(* What Porcupine promises, for every history, Input and Word: the proofs  *)
(* about histories, about a single search and about the checker together.  *)
(***************************************************************************)
EXTENDS CheckerProofs, PorcupineSearchProofs, PorcupineHistoryProofs, FiniteSetTheorems

\* Numbers have a least one.
LEMMA LeastExists ==
    ASSUME NEW S \in SUBSET Nat, S # {}
    PROVE  \E x \in S : \A n \in S : x <= n
<1> DEFINE Initials == {0 .. n : n \in S}
<1>1. Initials \subseteq FiniteSubsetsOf(Nat) /\ Initials # {}
  <2>1. ASSUME NEW n \in S PROVE 0 .. n \in SUBSET Nat /\ IsFiniteSet(0 .. n)
    BY FS_Interval
  <2> QED
    BY <2>1, Zenon DEF FiniteSubsetsOf
<1>2. PICK B \in Initials : \A C \in Initials : <<C, B>> \notin StrictSubsetOrdering(Nat)
  BY <1>1, FS_StrictSubsetOrderingWellFounded, WFMin, Zenon
<1>3. PICK x \in S : B = 0 .. x
  OBVIOUS
<1>4. ASSUME NEW y \in S, y < x PROVE FALSE
  <2>1. 0 .. y \in Initials /\ 0 .. y \in SUBSET Nat /\ 0 .. x \in SUBSET Nat
    OBVIOUS
  <2>2. 0 .. y \subseteq 0 .. x /\ x \in 0 .. x /\ x \notin 0 .. y
    BY <1>4
  <2> QED
    BY <1>2, <1>3, <2>1, <2>2, Zenon DEF StrictSubsetOrdering
<1> QED
  BY <1>4

\* What the proofs take for granted about numbers and finite sets.
LEMMA CountingHolds == CountingLaws
<1>1. LeastNumberLaw
  BY LeastExists, Zenon DEF LeastNumberLaw
<1>2. EmptyCountLaw
  BY FS_EmptySet, Zenon DEF EmptyCountLaw
<1>3. CountTypeLaw
  BY FS_CardinalityType, Zenon DEF CountTypeLaw
<1>4. AddCountLaw
  BY FS_AddElement, Zenon DEF AddCountLaw
<1>5. SubsetCountLaw
  BY FS_Subset, Zenon DEF SubsetCountLaw
<1>6. IntervalCountLaw
  BY FS_Interval, Zenon DEF IntervalCountLaw
<1>7. BijectionCountLaw
  BY FS_Bijection, Zenon DEF BijectionCountLaw
<1>8. ListCountLaw
  BY FS_CountingElements, FS_NatBijection, Zenon DEF ListCountLaw
<1>9. InjectionCountLaw
  BY FS_Injection, Zenon DEF InjectionCountLaw
<1>10. SurjectionCountLaw
  BY FS_Surjection, Zenon DEF SurjectionCountLaw
<1> QED
  BY <1>1, <1>2, <1>3, <1>4, <1>5, <1>6, <1>7, <1>8, <1>9, <1>10, Zenon DEF CountingLaws

\* The laws that the checker's invariant rests on hold.
LEMMA TheoryHolds == Theory
BY CountingHolds, HistoryLawsHold, SearchLawsHold, Zenon DEF Theory

\* CheckerInv is an invariant of the checker.
THEOREM CheckerInvariant == Spec => []CheckerInv
<1>1. Init => CheckerInv
  BY TheoryHolds, InitInv
<1>2. CheckerInv /\ [Next]_vars => CheckerInv'
  BY TheoryHolds, InvStep
<1> QED
  BY <1>1, <1>2, PTL DEF Spec

\* Whatever the history, every variable of the checker stays in its domain: no more results are
\* sent than the channel holds, and the list and the bitset of a search fit its entries.
THEOREM CheckerTypes == Spec => []TypeOK
<1>1. CheckerInv => TypeOK
  BY TheoryHolds, InvTypes
<1> QED
  BY <1>1, CheckerInvariant, PTL

\* At every point of every search the list holds exactly the entries whose calls are not on the
\* stack, the bitset exactly the calls that are, and state is what they lead to.
THEOREM SearchesMatch == Spec => []SearchMatchesCalls
<1>1. CheckerInv => SearchMatchesCalls
  BY TheoryHolds, InvMatches
<1> QED
  BY <1>1, CheckerInvariant, PTL

\* Every partial linearization that checkParallel hands out is legal and respects the order in
\* time, also after a timeout.
THEOREM PartialsAreRight == Spec => []PartialsAreLinearizable
<1>1. CheckerInv => PartialsAreLinearizable
  BY TheoryHolds, InvPartials
<1> QED
  BY <1>1, CheckerInvariant, PTL

\* computeVisualizationData never panics, and the linearization it shows for an operation is as
\* long as the one checkSingle kept for it.
THEOREM PictureShowsLongest == Spec => []VisualizerShowsLongest
<1>1. CheckerInv => VisualizerShowsLongest
  BY TheoryHolds, InvShown
<1> QED
  BY <1>1, CheckerInvariant, PTL

\* Without a timeout, what checkSingle keeps for an operation is as long as any linearizable prefix
\* with it, in spite of what the cache prunes.
THEOREM LongestIsKept == Spec => []LongestIsLongest
<1>1. CheckerInv => LongestIsLongest
  BY TheoryHolds, InvLongest
<1> QED
  BY <1>1, CheckerInvariant, PTL

\* checkParallel answers Ok only for a history that is linearizable, Illegal only for one that is
\* not, and Unknown only after a timeout, for histories of any size and any interleaving.
THEOREM VerdictsAreRight == Spec => []VerdictIsRight
<1>1. CheckerInv => VerdictIsRight
  BY TheoryHolds, CountingHolds, VerdictLawHolds, InvVerdict
<1> QED
  BY <1>1, CheckerInvariant, PTL

\* Without a timeout, no operation that the page draws as illegal after a partial linearization
\* is one that the model accepts there.
THEOREM DrawnErrorsAreErrors == Spec => []IllegalPointsAreIllegal
<1>1. CheckerInv => IllegalPointsAreIllegal
  BY TheoryHolds, InvIllegal
<1> QED
  BY <1>1, CheckerInvariant, PTL

=================================================================================
