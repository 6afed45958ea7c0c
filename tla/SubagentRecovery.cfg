CONSTANTS
  Launches = {l1, l2}
  MaxBatches = 3
  MaxFaults = 1
  MaxSendFaults = 1
  MaxRestarts = 2
SPECIFICATION RecoverySpec
SYMMETRY Symmetry
CONSTRAINT Room
CHECK_DEADLOCK FALSE
INVARIANTS RecoveryTypeOK ToldOnceAcrossRestarts LogAndJournalAgree RunningJobHasChild OutcomeReportedOnce ReportIsFinal
PROPERTIES RecoveryReports
