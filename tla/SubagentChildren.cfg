\* Two children, two failures: every interleaving of launches, failures,
\* acknowledgements and stops.
CONSTANTS
  Launches = {l1, l2}
  MaxBatches = 0
  MaxFaults = 2
SPECIFICATION Spec
SYMMETRY Symmetry
CHECK_DEADLOCK FALSE
INVARIANTS TypeOK NoOrphanedResources PublishedIsFinal ReleasedJobIsNotRunning
PROPERTIES StopLeavesNoChild
