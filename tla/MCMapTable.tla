----------------------------- MODULE MCMapTable -----------------------------
\* Symmetry of the keys and values, for the run of MapTable.
EXTENDS MapTable, TLC
TableSymmetry == Permutations(Objects) \union Permutations(Vals)
=============================================================================
