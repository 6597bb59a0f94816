---------------------------- MODULE MCCodeCache ----------------------------
\* Symmetry of the threads, for the run of CodeCache.
EXTENDS CodeCache, TLC
CacheSymmetry == Permutations(Threads)
=============================================================================
