CONSTANTS
  Process = {p1, p2, p3}
  Token = {t1, t2, t3}
  NoProcess = NoProcess
  NoToken = NoToken
  MaxCrashes = 2
  MaxFaults = 1
  LegacyLease = TRUE
  Requester = {r1, r2}
  Starter = r1
  Dispatcher = r2
  Binder = r2
  MaxVersions = 2
  MaxGenerations = 4
  MaxLiveFaults = 1
  MaxRetries = 1
  MaxEpochs = 2
  Owner = {o1, o2, o3}
  NoOwner = NoOwner
  Lease = {l1, l2}
  MaxFailures = 1
  History = {s1, s2, s3, s4}
  Workspaces = {w1, w2}
  Flow = {f1, f2}
  Logout = {u1}
  Deletion = {d1}
  NoFlow = NoFlow
  View = {v1}
  MaxEnds = 1
  MaxLosses = 1
  Parts = {"lease", "dispatch", "binding", "models", "deletion", "auth", "events", "compaction"}
SPECIFICATION ServerSpec
SYMMETRY ServerSymmetry
INVARIANTS ServerTypeOK CustodyIsExclusive AppliedChangesAreLoaded NothingIsLeftBehind
PROPERTIES LiveRecordsStay HandoffFailsClosed DispatchUsesAccepted BoundariesKeepUp DeletionKeepsTheTree CancelledCompactionIsDropped CredentialFollowsRequests
CHECK_DEADLOCK FALSE
