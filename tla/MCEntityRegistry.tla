-------------------------- MODULE MCEntityRegistry --------------------------
(* EntityRegistry for TLC. *)
EXTENDS EntityRegistry, TLC

CONSTANTS e1, e2, r1, r2

Symmetry == Permutations({e1, e2}) \cup Permutations({r1, r2})
=============================================================================
