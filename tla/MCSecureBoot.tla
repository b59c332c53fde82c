---------------------------- MODULE MCSecureBoot ----------------------------
\* Instances of SecureBoot for TLC: keystores are interchangeable.
EXTENDS SecureBoot, TLC

Symmetry == Permutations(Keystores)
=============================================================================
