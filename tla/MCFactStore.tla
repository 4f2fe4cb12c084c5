---------------------------- MODULE MCFactStore ----------------------------
EXTENDS FactStore, TLC
CONSTANTS k1, k2, k3, v1, v2
Symmetry == Permutations({k1, k2, k3}) \cup Permutations({v1, v2})
=============================================================================
