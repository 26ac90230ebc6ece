--------------------------- MODULE MCCompensation ---------------------------
EXTENDS Compensation, TLC

Symmetry == Permutations(Nodes) \cup Permutations(Resumers)
=============================================================================
