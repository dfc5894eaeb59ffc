----------------------------- MODULE MCFluke45 -----------------------------
(* Fluke45 on small instances.                                             *)
EXTENDS Fluke45, TLC

Symmetry == Permutations(Askers)
=============================================================================
