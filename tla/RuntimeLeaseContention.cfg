CONSTANTS
  Process = {p1, p2}
  Token = {t1, t2}
  NoProcess = NoProcess
  NoToken = NoToken
  MaxCrashes = 2
  MaxFaults = 1
  LegacyLease = FALSE
SPECIFICATION LeaseSpec
INVARIANTS NothingCleanIsUnverifiable
CHECK_DEADLOCK FALSE
