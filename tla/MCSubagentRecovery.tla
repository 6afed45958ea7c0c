-------------------------- MODULE MCSubagentRecovery --------------------------
EXTENDS SubagentRecovery, TLC

Symmetry == Permutations(Launches)

\* Two children while nothing fails and the process goes on, or one child, with
\* everything that may become of it.
Room ==
  \/ faults + sendFaults + restarts = 0 /\ batches[MaxBatches].st = "none"
  \/ \E l \in Launches : ~Known(jobs[l])
=============================================================================
