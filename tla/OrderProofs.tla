---------------------------- MODULE OrderProofs -----------------------------
(***************************************************************************)
(* What the proofs about sorted data rest on: a finite order has a first   *)
(* element.                                                                *)
(***************************************************************************)
EXTENDS Integers, FiniteSets, FiniteSetTheorems, WellFoundedInduction, TLAPS

\* A finite strict order has a minimal element: of the sets of elements before
\* some element, one contains no other.
LEMMA MinimalElement ==
  ASSUME NEW D, IsFiniteSet(D), D # {}, NEW R,
         \A x \in D : <<x, x>> \notin R,
         \A x, y, z \in D : <<x, y>> \in R /\ <<y, z>> \in R => <<x, z>> \in R
  PROVE  \E x \in D : \A y \in D : <<y, x>> \notin R
<1> DEFINE below(x) == {y \in D : <<y, x>> \in R}
           T == {below(x) : x \in D}
<1>0. \A x \in D : below(x) \in SUBSET D
  OBVIOUS
<1>1. IsWellFoundedOn(StrictSubsetOrdering(D), SUBSET D)
  <2>1. FiniteSubsetsOf(D) = SUBSET D
    BY FS_FiniteSubsetsOfFinite
  <2>2. IsWellFoundedOn(StrictSubsetOrdering(D), FiniteSubsetsOf(D))
    BY FS_StrictSubsetOrderingWellFounded
  <2> QED
    BY <2>1, <2>2
<1>2. T \subseteq SUBSET D /\ T # {}
  <2>1. PICK d \in D : TRUE
    OBVIOUS
  <2>2. below(d) \in T
    BY <2>1
  <2>3. T \subseteq SUBSET D
    <3> HIDE DEF below
    <3> QED
      BY <1>0
  <2> QED
    BY <2>2, <2>3
<1>3. PICK b \in T : \A c \in T : <<c, b>> \notin StrictSubsetOrdering(D)
  <2> HIDE DEF T
  <2> QED
    BY <1>1, <1>2, WFMin
<1>4. PICK x \in D : b = below(x)
  BY <1>3
<1>5. \A y \in D : <<y, x>> \notin R
  <2> SUFFICES ASSUME NEW y \in D, <<y, x>> \in R PROVE FALSE
    OBVIOUS
  <2>1. below(y) \subseteq below(x)
    OBVIOUS
  <2>2. y \in below(x) /\ y \notin below(y)
    OBVIOUS
  <2>3. below(y) \in T /\ below(y) \in SUBSET D /\ below(x) \in SUBSET D
    OBVIOUS
  <2>4. <<below(y), below(x)>> \in StrictSubsetOrdering(D)
    <3> HIDE DEF below, T
    <3> QED
      BY <2>1, <2>2, <2>3 DEF StrictSubsetOrdering
  <2> QED
    BY <1>3, <1>4, <2>3, <2>4
<1> QED
  BY <1>5

=============================================================================
