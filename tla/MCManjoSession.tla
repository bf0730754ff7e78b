--------------------------- MODULE MCManjoSession ---------------------------
EXTENDS ManjoSession, TLC
Symmetry == Permutations(Queriers)
=============================================================================
