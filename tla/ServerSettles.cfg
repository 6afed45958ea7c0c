CONSTANTS
  Process = {p1, p2}
  Token = {t1, t2, t3}
  NoProcess = NoProcess
  NoToken = NoToken
  MaxCrashes = 1
  MaxFaults = 0
  LegacyLease = TRUE
  Requester = {r1, r2}
  Starter = r1
  Dispatcher = r2
  Binder = r2
  MaxVersions = 2
  MaxGenerations = 3
  MaxLiveFaults = 1
  MaxRetries = 1
  MaxEpochs = 2
  Owner = {o1, o2, o3}
  NoOwner = NoOwner
  Lease = {l1, l2}
  MaxFailures = 1
  History = {s1, s2, s3, s4}
  Workspaces = {w1, w2}
  Flow = {f1, f2}
  Logout = {}
  Deletion = {d1}
  NoFlow = NoFlow
  View = {v1, v2}
  MaxEnds = 1
  MaxLosses = 1
  Parts = {"lease", "live", "auth", "events"}
SPECIFICATION ServerSpec
INVARIANTS ChangedProjectIsKnown
PROPERTIES ImplementsAccepted EditsTakeEffect StaleLeaseIsRecovered LoginsMakeWay SubscriptionsConverge
CHECK_DEADLOCK FALSE
