\* One child, one failure of it and two failures of the sends.
CONSTANTS
  Launches = {l1}
  MaxBatches = 4
  MaxFaults = 1
  MaxSendFaults = 2
SPECIFICATION FairSupervisorSpec
CHECK_DEADLOCK FALSE
INVARIANTS ToldOnce AwaitedBatchIsOnItsWay
PROPERTIES HooksReturn StopEnds EveryOutcomeIsDelivered BlockedBatchIsRetried
