--------------------------- MODULE MCToolApproval ---------------------------
EXTENDS ToolApproval, TLC

CONSTANTS a1, a2
TwoApprovals == <<a1, a2>>

Symmetry == Permutations(Calls) \cup Permutations(Procs)
=============================================================================
