---------------------------- MODULE MCAutoEnroll ----------------------------
(* Instances of AutoEnroll for TLC. *)
EXTENDS AutoEnroll, TLC
Symmetry == Permutations(Agents) \union Permutations(States)
=============================================================================
