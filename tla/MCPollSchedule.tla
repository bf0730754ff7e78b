--------------------------- MODULE MCPollSchedule ---------------------------
EXTENDS PollSchedule, TLC
Symmetry == Permutations(Tx) \cup Permutations(Instances)
=============================================================================
