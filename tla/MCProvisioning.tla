--------------------------- MODULE MCProvisioning ---------------------------
EXTENDS Provisioning, TLC
Symmetry == Permutations(Operators) \cup Permutations(Merchants)
=============================================================================
