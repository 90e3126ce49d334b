--------------------------- MODULE SequenceFacts ----------------------------
(***************************************************************************)
(* Facts about sequences and their places that the proofs of more than one *)
(* module need.                                                            *)
(***************************************************************************)
EXTENDS Naturals, Sequences, SequenceTheorems, FiniteSetTheorems,
        WellFoundedInduction, TLAPS

\* A function on 1..n is a sequence of length n.
LEMMA FunctionIsSeq ==
  ASSUME NEW S, NEW n \in Nat, NEW f \in [1 .. n -> S]
  PROVE  f \in Seq(S) /\ Len(f) = n
  <1>1. f \in Seq(S)
    BY SeqDef
  <1> QED
    BY <1>1, LenProperties

\* A nonempty set of places in a sequence has a last one.
LEMMA LastPlace ==
  ASSUME NEW n \in Nat, NEW S \in SUBSET (1 .. n), S # {}
  PROVE  \E k \in S : \A l \in S : l <= k
  <1> DEFINE From(k) == {l \in S : k <= l}
             T == {From(k) : k \in S}
  <1>1. IsWellFoundedOn(StrictSubsetOrdering(1 .. n), SUBSET (1 .. n))
    <2>1. IsFiniteSet(1 .. n)
      BY FS_Interval
    <2>2. FiniteSubsetsOf(1 .. n) = SUBSET (1 .. n)
      BY <2>1, FS_FiniteSubsetsOfFinite
    <2> QED
      BY <2>2, FS_StrictSubsetOrderingWellFounded
  <1>2. PICK U \in T : \A V \in T : <<V, U>> \notin StrictSubsetOrdering(1 .. n)
    <2>1. T \subseteq SUBSET (1 .. n) /\ T # {}
      OBVIOUS
    <2> HIDE DEF T
    <2> QED
      BY <1>1, <2>1, WFMin
  <1>3. PICK k \in S : U = From(k)
    BY <1>2
  <1>4. ASSUME NEW l \in S, k < l
        PROVE  FALSE
    <2>1. From(l) \subseteq From(k) /\ k \in From(k) /\ k \notin From(l)
      <3>1. k \in Int /\ l \in Int /\ \A j \in S : j \in Int
        OBVIOUS
      <3>2. k <= k /\ ~(l <= k) /\ \A j \in S : l <= j => k <= j
        BY <1>4, <3>1, SMT
      <3> QED
        BY <3>2, Zenon
    <2>2. <<From(l), U>> \in StrictSubsetOrdering(1 .. n)
      BY <1>3, <2>1 DEF StrictSubsetOrdering
    <2> QED
      BY <1>2, <2>2
  <1> QED
    BY <1>4

=============================================================================
