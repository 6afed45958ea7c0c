\* One child whose startup reports a foreign handle and whose disposal fails.
CONSTANTS
  Launches = {l1}
  MaxBatches = 0
  MaxFaults = 2
SPECIFICATION Spec
CHECK_DEADLOCK FALSE
PROPERTIES RetainedHandleRetried
