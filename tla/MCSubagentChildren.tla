-------------------------- MODULE MCSubagentChildren --------------------------
EXTENDS SubagentChildren, TLC

Symmetry == Permutations(Launches)
=============================================================================
