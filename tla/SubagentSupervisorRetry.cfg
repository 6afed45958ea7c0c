\* Two children, one abort and one send fail, and the stop is retried.
CONSTANTS
  Launches = {l1, l2}
  MaxBatches = 3
  MaxFaults = 1
  MaxSendFaults = 1
SPECIFICATION FairSupervisorSpec
CONSTRAINT OneCancellation
CHECK_DEADLOCK FALSE
PROPERTIES StopEnds
