CONSTANTS
 s1 = s1
 s2 = s2
 c1 = c1
 c2 = c2
 Session = {s1, s2}
 Cwd = {c1, c2}
 CwdOf <- Directories
 MaxRuntimes = 2
 NoSession = NoSession
 Workspace = Workspace
 Shutdown = Shutdown
SPECIFICATION RestartSpec
CHECK_DEADLOCK FALSE
CONSTRAINTS Bystander OneByOne
INVARIANTS RestartTypeOK IdleSessionsAreTimed
PROPERTIES ImplementsOwnership UnforcedRestartSparesWork EveryOperationEnds
