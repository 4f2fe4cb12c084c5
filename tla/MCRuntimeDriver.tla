-------------------------- MODULE MCRuntimeDriver --------------------------
EXTENDS RuntimeDriver, TLC
CONSTANTS d1, d2, a1, a2
Symmetry == Permutations({d1, d2}) \cup Permutations({a1, a2})
=============================================================================
