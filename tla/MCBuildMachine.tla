--------------------------- MODULE MCBuildMachine ---------------------------
(* Instances of BuildMachine for TLC. *)
EXTENDS BuildMachine, TLC
Symmetry == Permutations(Disks) \cup Permutations(Names)
=============================================================================
