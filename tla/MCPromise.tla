------------------------------ MODULE MCPromise ------------------------------
\* Symmetry for the safety runs of Promise.
EXTENDS Promise, TLC
Symmetry == Permutations(Made)
=============================================================================
