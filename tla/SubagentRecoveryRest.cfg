CONSTANTS
  Launches = {l1}
  MaxBatches = 2
  MaxFaults = 0
  MaxSendFaults = 0
  MaxRestarts = 1
SPECIFICATION RecoverySpec
CHECK_DEADLOCK FALSE
INVARIANTS IdleOwnerIsQuiescent
