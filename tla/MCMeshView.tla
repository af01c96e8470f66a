----------------------------- MODULE MCMeshView -----------------------------
(***************************************************************************)
(* A controller heard under one address and two members, the first with a  *)
(* mesh and a wired address, the second with one.                          *)
(***************************************************************************)
EXTENDS MeshView

CONSTANTS c0, w1, m1, m2

MCAddrs == {c0, w1, m1, m2}
MCAddrsOf == [d \in 0..2 |-> CASE d = 0 -> {c0} [] d = 1 -> {w1, m1} [] d = 2 -> {m2}]
MCTQ == [a \in MCAddrs |-> IF a = w1 THEN 2 ELSE 1]

=============================================================================
