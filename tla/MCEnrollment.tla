---------------------------- MODULE MCEnrollment ----------------------------
(***************************************************************************)
(* Enrollment on small sets.  Nodes, ids, challenges and workers are       *)
(* interchangeable: no definition tells one from another.                  *)
(***************************************************************************)
EXTENDS Enrollment, TLC

Symmetry ==
  Permutations(Nodes) \cup Permutations(Eids) \cup Permutations(Challenges)
    \cup Permutations(Workers)

=============================================================================
