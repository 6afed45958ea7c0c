--------------------------- MODULE SessionRegistry ---------------------------
(***************************************************************************)
(* The registry of live sessions of the Web server                         *)
(* (web/active-sessions.ts).  One thread runs it, but every operation      *)
(* awaits: an action is what runs between two awaits, and between two      *)
(* actions of one operation any other operation may move.                  *)
(*                                                                         *)
(* A runtime passes through `pendingLaunches` while it is launched and,    *)
(* once its client says which session it has, through `records`.  The two  *)
(* collections are one function here, from a runtime's slot to its state;  *)
(* a slot is used again when its runtime has left both.                    *)
(***************************************************************************)
EXTENDS Naturals, FiniteSets

CONSTANTS
  Session,
  Cwd,
  CwdOf,         \* the working directory of a session
  MaxRuntimes,   \* runtimes launched or live at one time
  NoSession,
  Workspace,     \* the operation on workspaces, as one that waits for runtimes
  Shutdown       \* the shutdown, as one that waits for runtimes

ASSUME RegistryAssumption ==
  /\ CwdOf \in [Session -> Cwd]
  /\ MaxRuntimes \in Nat
  /\ NoSession \notin Session
  /\ Workspace \notin Session /\ Shutdown \notin Session /\ Workspace # Shutdown

VARIABLES
  runtime,       \* the launches and the records, by slot
  operation,     \* `lifecycleOperations`, by the session they are about
  workspace,     \* `workspaceOperation`
  lingering,     \* sessions with a stopped record that a failed removal put back
  shuttingDown,
  shutdown,      \* the call of shutdown()
  waits,         \* the runtimes that a waiting operation has not heard of yet
  failed,        \* whether it has heard of one that did not stop
  file           \* the session's file; the first answer of a new session writes it

registryVars == <<runtime, operation, workspace, lingering, shuttingDown, shutdown,
                  waits, failed, file>>

Runtime == 1 .. MaxRuntimes
Waiter == Session \cup {Workspace, Shutdown}

-----------------------------------------------------------------------------
\* Runtimes

Free ==
  [at |-> "free", session |-> NoSession, known |-> FALSE, cancelled |-> FALSE,
   client |-> "none", working |-> FALSE, error |-> FALSE, closing |-> FALSE,
   stop |-> "none", mutating |-> FALSE, timer |-> FALSE, lazy |-> FALSE]

RuntimeType ==
  [at : {"free", "reserved", "preparing", "starting", "state", "cleanup", "retained", "active"},
   session : Session \cup {NoSession},
   known : BOOLEAN,      \* the launch was asked for by path, or its client has answered
   cancelled : BOOLEAN,
   client : {"none", "alive", "stopped"},
   working : BOOLEAN,    \* the client streams, supervises or compacts
   error : BOOLEAN,      \* the status is "error"
   closing : BOOLEAN,
   stop : {"none", "client", "mutations"},   \* what stopPromise waits for
   mutating : BOOLEAN,   \* `mutations` is not empty
   timer : BOOLEAN,      \* the idle timer is set
   lazy : BOOLEAN]       \* historyMayBeMissing

\* The members of pendingLaunches and of records.
Pending == {r \in Runtime : runtime[r].at \notin {"free", "active"}}
Records == {r \in Runtime : runtime[r].at = "active"}
RecordsOf(s) == {r \in Records : runtime[r].session = s}
PendingOf(s) == {r \in Pending : runtime[r].known /\ runtime[r].session = s}
InScope(r, scopes) == CwdOf[runtime[r].session] \in scopes

NextSlot(r) ==
  /\ runtime[r].at = "free"
  /\ \A q \in Runtime : runtime[q].at = "free" => r <= q

\* The bound on runtimes keeps a slot for every restart that has been asked for.
Room ==
  Cardinality({r \in Runtime : runtime[r].at = "free"})
    > Cardinality({s \in Session : operation[s].kind = "restart" /\ operation[s].at = "queued"})

workspaceBlocked(cwd) == cwd \in workspace.scopes
conflictingOperation(s) == operation[s].kind # "none"

isBusy(r) == runtime[r].working \/ runtime[r].mutating \/ runtime[r].closing

\* activeWorkCount() > 0
ActiveWork ==
  \/ Pending # {}
  \/ \E s \in Session : operation[s].kind # "none"
  \/ workspace.at # "none"
  \/ \E r \in Records : isBusy(r)

canIdleStop(x) ==
  /\ ~x.error /\ ~x.working /\ ~x.closing /\ ~x.mutating
  /\ ~workspaceBlocked(CwdOf[x.session])
  /\ ~conflictingOperation(x.session)

\* reconcileIdleLease, scheduleIdleStop: both leave the timer set exactly when
\* the session may be stopped for being idle.
Reconciled(x) == [x EXCEPT !.timer = canIdleStop(x)]

\* stopRecord up to its first await; a stop under way is joined.
Stopping(x) ==
  [x EXCEPT !.closing = TRUE, !.timer = FALSE, !.stop = IF @ = "none" THEN "client" ELSE @]

\* What an operation does to a runtime it waits for: a record is stopped, a
\* launch is cancelled, and a launch whose cleanup failed is cleaned up again.
Collected(x) ==
  IF x.at = "active" THEN Stopping(x)
  ELSE [x EXCEPT !.cancelled = TRUE, !.at = IF @ = "retained" THEN "cleanup" ELSE @]

Collect(S) == [r \in Runtime |-> IF r \in S THEN Collected(runtime[r]) ELSE runtime[r]]

\* Every operation that waits for a runtime hears how its stop or its cleanup ended.
Heard(r, ok) ==
  /\ waits' = [w \in Waiter |-> waits[w] \ {r}]
  /\ failed' = [w \in Waiter |-> failed[w] \/ (~ok /\ r \in waits[w])]

AwaitAll(w, S) ==
  /\ waits' = [waits EXCEPT ![w] = S]
  /\ failed' = [failed EXCEPT ![w] = FALSE]

NoOperation == [kind |-> "none", at |-> "none", force |-> FALSE, lazy |-> FALSE, launch |-> 0]
NoWorkspace == [at |-> "none", scopes |-> {}]

\* A restart's launch has come to its end, one way or the other.
LaunchEnds(r) ==
  operation' = [s \in Session |->
    IF operation[s].at = "launching" /\ operation[s].launch = r
    THEN [operation[s] EXCEPT !.at = "ended", !.launch = 0] ELSE operation[s]]

-----------------------------------------------------------------------------
\* Launches

Reserved(s, known, at) ==
  [Free EXCEPT !.at = at, !.session = s, !.known = known, !.lazy = ~known]

\* reserveLaunch; a caller that launches at once runs up to the first await.
Reserve(r, s, known) ==
  /\ ~shuttingDown
  /\ ~workspaceBlocked(CwdOf[s])
  /\ Room /\ NextSlot(r)
  /\ runtime' = [runtime EXCEPT ![r] = Reserved(s, known, "preparing")]

\* create(): a session that exists nowhere yet.
Create(s, r) ==
  /\ file[s] = "unused"
  /\ \A q \in Runtime : runtime[q].session # s
  /\ Reserve(r, s, FALSE)
  /\ UNCHANGED <<operation, workspace, lingering, shuttingDown, shutdown, waits, failed, file>>

\* open(): a live record is returned, its timer reset; a pending launch is
\* joined, which changes nothing; else the session is launched.  Nobody knows
\* the path of a new session before its launch is over.
OpenLive(r) ==
  LET x == runtime[r] IN
  /\ ~shuttingDown
  /\ x.at = "active" /\ ~x.closing /\ ~x.error
  /\ ~workspaceBlocked(CwdOf[x.session]) /\ ~conflictingOperation(x.session)
  /\ runtime' = [runtime EXCEPT ![r] = Reconciled(x)]
  /\ UNCHANGED <<operation, workspace, lingering, shuttingDown, shutdown, waits, failed, file>>

Open(s, r) ==
  /\ file[s] # "unused" /\ \A q \in Pending : runtime[q].session # s
  /\ ~conflictingOperation(s)
  /\ RecordsOf(s) = {} /\ s \notin lingering
  /\ Reserve(r, s, TRUE)
  /\ UNCHANGED <<operation, workspace, lingering, shuttingDown, shutdown, waits, failed, file>>

throwIfLaunchCancelled(x) == shuttingDown \/ x.cancelled

\* The awaits before the client exists are over: the client is created and
\* start() is called.  A session asked for by path is validated first.
LaunchStarts(r) ==
  LET x == runtime[r] IN
  /\ x.at = "preparing"
  /\ ~throwIfLaunchCancelled(x)
  /\ x.known => file[x.session] = "written"
  /\ runtime' = [runtime EXCEPT ![r].at = "starting", ![r].client = "alive"]
  /\ file' = [file EXCEPT ![x.session] = IF @ = "unused" THEN "none" ELSE @]
  /\ UNCHANGED <<operation, workspace, lingering, shuttingDown, shutdown, waits, failed>>

LaunchStarted(r) ==
  /\ runtime[r].at = "starting"
  /\ ~throwIfLaunchCancelled(runtime[r])
  /\ runtime' = [runtime EXCEPT ![r].at = "state"]
  /\ UNCHANGED <<operation, workspace, lingering, shuttingDown, shutdown, waits, failed, file>>

\* Mutant: no look, after the last await, whether the launch was cancelled.
MutantLaunchReady(r) ==
  LET x == runtime[r] IN
  /\ x.at = "state"
  /\ \E working \in BOOLEAN :
       runtime' = [runtime EXCEPT ![r] = Reconciled(
         [x EXCEPT !.at = "active", !.known = TRUE, !.working = working])]
  /\ LaunchEnds(r)
  /\ Heard(r, TRUE)
  /\ UNCHANGED <<workspace, lingering, shuttingDown, shutdown, file>>

\* getState() has answered: the runtime moves from pendingLaunches to records.
LaunchReady(r) ==
  LET x == runtime[r] IN
  /\ x.at = "state"
  /\ ~throwIfLaunchCancelled(x)
  /\ \E working \in BOOLEAN :
       runtime' = [runtime EXCEPT ![r] = Reconciled(
         [x EXCEPT !.at = "active", !.known = TRUE, !.working = working,
                   !.lazy = @ /\ file[x.session] = "none"])]
  /\ LaunchEnds(r)
  /\ Heard(r, TRUE)
  /\ UNCHANGED <<workspace, lingering, shuttingDown, shutdown, file>>

\* A launch without a client has nothing to clean up: it leaves at once.
LaunchAborted(r) ==
  /\ runtime[r].at = "preparing"
  /\ runtime' = [runtime EXCEPT ![r] = Free]
  /\ LaunchEnds(r)
  /\ Heard(r, TRUE)
  /\ UNCHANGED <<workspace, lingering, shuttingDown, shutdown, file>>

\* Something threw, or the launch was cancelled: its client is stopped.
LaunchFails(r) ==
  /\ runtime[r].at \in {"starting", "state"}
  /\ runtime' = [runtime EXCEPT ![r].at = "cleanup"]
  /\ UNCHANGED <<operation, workspace, lingering, shuttingDown, shutdown, waits, failed, file>>

\* cleanupPendingLaunch.  What fails, the file watcher or the client, decides
\* whether the client runs on; either way the launch is kept and tried again.
CleanupDone(r) ==
  /\ runtime[r].at = "cleanup"
  /\ runtime' = [runtime EXCEPT ![r] = Free]
  /\ LaunchEnds(r)
  /\ Heard(r, TRUE)
  /\ UNCHANGED <<workspace, lingering, shuttingDown, shutdown, file>>

\* Mutant: a launch whose cleanup failed does not settle its settlement.
MutantCleanupFails(r) ==
  /\ runtime[r].at = "cleanup"
  /\ \E client \in {runtime[r].client, "stopped"} :
       runtime' = [runtime EXCEPT ![r].at = "retained", ![r].client = client]
  /\ LaunchEnds(r)
  /\ UNCHANGED <<workspace, lingering, shuttingDown, shutdown, waits, failed, file>>

CleanupFails(r) ==
  /\ runtime[r].at = "cleanup"
  /\ \E client \in {runtime[r].client, "stopped"} :
       runtime' = [runtime EXCEPT ![r].at = "retained", ![r].client = client]
  /\ LaunchEnds(r)
  /\ Heard(r, FALSE)
  /\ UNCHANGED <<workspace, lingering, shuttingDown, shutdown, file>>

-----------------------------------------------------------------------------
\* Live sessions

\* withMutation; a prompt clears the idle timer before it is sent.
MutationBegins(r, prompt) ==
  LET x == runtime[r] IN
  /\ ~shuttingDown
  /\ x.at = "active" /\ ~x.closing /\ ~x.mutating
  /\ ~workspaceBlocked(CwdOf[x.session]) /\ ~conflictingOperation(x.session)
  /\ runtime' = [runtime EXCEPT ![r].mutating = TRUE, ![r].timer = @ /\ ~prompt]
  /\ UNCHANGED <<operation, workspace, lingering, shuttingDown, shutdown, waits, failed, file>>

MutationEnds(r) ==
  /\ runtime[r].mutating
  /\ runtime' = [runtime EXCEPT ![r] = Reconciled([runtime[r] EXCEPT !.mutating = FALSE])]
  /\ UNCHANGED <<operation, workspace, lingering, shuttingDown, shutdown, waits, failed, file>>

\* The events by which the client tells of its work (syncDtoFromEvent): a
\* prompt starts it, and it outlives the prompt.  The first answer of a new
\* session writes its file.
WorkBegins(r) ==
  LET x == runtime[r] IN
  /\ x.at = "active" /\ x.client = "alive" /\ x.mutating /\ ~x.working
  /\ runtime' = [runtime EXCEPT ![r] = Reconciled([x EXCEPT !.working = TRUE])]
  /\ UNCHANGED <<operation, workspace, lingering, shuttingDown, shutdown, waits, failed, file>>

WorkEnds(r) ==
  LET x == runtime[r] IN
  /\ x.at = "active" /\ x.client = "alive" /\ x.working
  /\ runtime' = [runtime EXCEPT ![r] = Reconciled([x EXCEPT !.working = FALSE])]
  /\ UNCHANGED <<operation, workspace, lingering, shuttingDown, shutdown, waits, failed, file>>

Answered(r) ==
  LET x == runtime[r] IN
  /\ x.at = "active" /\ x.client = "alive" /\ x.working /\ x.lazy
  /\ runtime' = [runtime EXCEPT ![r] = Reconciled([x EXCEPT !.lazy = FALSE])]
  /\ file' = [file EXCEPT ![x.session] = "written"]
  /\ UNCHANGED <<operation, workspace, lingering, shuttingDown, shutdown, waits, failed>>

\* refreshFromClient of a snapshot or an abort: the client does not answer.
RefreshFails(r) ==
  /\ runtime[r].at = "active" /\ ~runtime[r].error
  /\ runtime' = [runtime EXCEPT ![r].error = TRUE]
  /\ UNCHANGED <<operation, workspace, lingering, shuttingDown, shutdown, waits, failed, file>>

\* The timeout of the idle timer, which looks again before it stops anything.
IdleTimeout(r) ==
  LET x == [runtime[r] EXCEPT !.timer = FALSE] IN
  /\ runtime[r].timer
  /\ runtime' = [runtime EXCEPT ![r] = IF x.at = "active" /\ canIdleStop(x) THEN Stopping(x) ELSE x]
  /\ UNCHANGED <<operation, workspace, lingering, shuttingDown, shutdown, waits, failed, file>>

\* stop()
Stop(r) ==
  LET x == runtime[r] IN
  /\ x.at = "active"
  /\ ~workspaceBlocked(CwdOf[x.session]) /\ ~conflictingOperation(x.session)
  /\ runtime' = [runtime EXCEPT ![r] = Stopping(x)]
  /\ UNCHANGED <<operation, workspace, lingering, shuttingDown, shutdown, waits, failed, file>>

StopLingering(s) ==
  /\ s \in lingering
  /\ ~workspaceBlocked(CwdOf[s]) /\ ~conflictingOperation(s)
  /\ lingering' = lingering \ {s}
  /\ UNCHANGED <<runtime, operation, workspace, shuttingDown, shutdown, waits, failed, file>>

\* The rest of stopRecord: client.stop(), then the mutations under way.
ClientStops(r) ==
  /\ runtime[r].at = "active" /\ runtime[r].stop = "client"
  /\ runtime' = [runtime EXCEPT ![r].stop = "mutations", ![r].client = "stopped",
                                ![r].working = FALSE]
  /\ UNCHANGED <<operation, workspace, lingering, shuttingDown, shutdown, waits, failed, file>>

\* stopPromise is reset, `closing` is not: the record waits for another stop.
StopFails(r) ==
  /\ runtime[r].at = "active" /\ runtime[r].stop = "client"
  /\ runtime' = [runtime EXCEPT ![r].stop = "none"]
  /\ Heard(r, FALSE)
  /\ UNCHANGED <<operation, workspace, lingering, shuttingDown, shutdown, file>>

\* Mutant: the waiting operations are not told that the record has gone.
MutantStopEnds(r) ==
  /\ runtime[r].stop = "mutations" /\ ~runtime[r].mutating
  /\ runtime' = [runtime EXCEPT ![r] = Free]
  /\ UNCHANGED <<operation, workspace, lingering, shuttingDown, shutdown, waits, failed, file>>

StopEnds(r) ==
  /\ runtime[r].stop = "mutations" /\ ~runtime[r].mutating
  /\ runtime' = [runtime EXCEPT ![r] = Free]
  /\ Heard(r, TRUE)
  /\ UNCHANGED <<operation, workspace, lingering, shuttingDown, shutdown, file>>

-----------------------------------------------------------------------------
\* Lifecycle operations (runLifecycle): one at a time for a session.

Begin(s, kind, force, lazy) ==
  /\ ~shuttingDown
  /\ workspace.at = "none"
  /\ ~conflictingOperation(s)
  /\ operation' = [operation EXCEPT ![s] =
       [kind |-> kind, at |-> "queued", force |-> force, lazy |-> lazy, launch |-> 0]]

\* The end of an operation looks after the idle timers it has held back.
Ended(s) == operation' = [operation EXCEPT ![s] = NoOperation]

Rearmed(s) ==
  [r \in Runtime |->
    LET x == runtime[r] IN
    IF x.at = "active" /\ x.session = s
    THEN [x EXCEPT !.timer = /\ ~x.error /\ ~x.working /\ ~x.closing /\ ~x.mutating
                             /\ ~workspaceBlocked(CwdOf[s])]
    ELSE x]

\* Mutant: the idle timers that the operation held back are not set again.
MutantEndOperation(s) == Ended(s) /\ UNCHANGED runtime

EndOperation(s) == Ended(s) /\ runtime' = Rearmed(s)

\* deleteSession.  A deletion under way is joined, which changes nothing.
DeleteBegins(s, force) ==
  /\ file[s] = "written" \/ RecordsOf(s) # {} \/ s \in lingering
  /\ \A r \in RecordsOf(s) : ~force => ~isBusy(r)
  /\ Begin(s, "delete", force, s \in lingering \/ \E r \in RecordsOf(s) : runtime[r].lazy)
  /\ UNCHANGED <<runtime, workspace, lingering, shuttingDown, shutdown, waits, failed, file>>

\* The session's path is known: its record and its launches are looked up,
\* as they are now, and stopped.  A session that is nowhere is not resolved.
DeleteCollects(s) ==
  LET found == RecordsOf(s) \cup PendingOf(s)
      lazy == IF RecordsOf(s) = {} THEN operation[s].lazy ELSE \E r \in RecordsOf(s) : runtime[r].lazy IN
  /\ operation[s].kind = "delete" /\ operation[s].at = "queued"
  /\ operation[s].force \/ (PendingOf(s) = {} /\ \A r \in RecordsOf(s) : ~isBusy(r))
  /\ operation' = [operation EXCEPT ![s].at = "waiting", ![s].lazy = lazy /\ file[s] = "none"]
  /\ runtime' = Collect(found)
  /\ lingering' = lingering \ {s}
  /\ AwaitAll(s, found)
  /\ UNCHANGED <<workspace, shuttingDown, shutdown, file>>

\* The listing fails, or the session has become busy.
DeleteRefused(s) ==
  /\ operation[s].kind = "delete" /\ operation[s].at = "queued"
  /\ EndOperation(s)
  /\ UNCHANGED <<workspace, lingering, shuttingDown, shutdown, waits, failed, file>>

\* Every runtime of the session has stopped: its files are removed.
DeleteRemoves(s) ==
  /\ operation[s].kind = "delete" /\ operation[s].at = "waiting"
  /\ waits[s] = {} /\ ~failed[s]
  /\ operation' = [operation EXCEPT ![s].at = "working"]
  /\ UNCHANGED <<runtime, workspace, lingering, shuttingDown, shutdown, waits, failed, file>>

DeleteDone(s) ==
  /\ operation[s].kind = "delete" /\ operation[s].at = "working"
  /\ operation[s].lazy \/ file[s] = "written"
  /\ file' = [file EXCEPT ![s] = "removed"]
  /\ EndOperation(s)
  /\ UNCHANGED <<workspace, lingering, shuttingDown, shutdown, waits, failed>>

\* The record of a session without a root file is kept for another attempt.
DeleteFails(s) ==
  /\ operation[s].kind = "delete" /\ operation[s].at = "working"
  /\ lingering' = IF operation[s].lazy THEN lingering \cup {s} ELSE lingering
  /\ EndOperation(s)
  /\ UNCHANGED <<workspace, shuttingDown, shutdown, waits, failed, file>>

\* A runtime that did not stop ends a deletion, and a restart below.
OperationGivesUp(s) ==
  /\ operation[s].kind = "delete" /\ operation[s].at = "waiting"
  /\ waits[s] = {} /\ failed[s]
  /\ EndOperation(s)
  /\ UNCHANGED <<workspace, lingering, shuttingDown, shutdown, waits, failed, file>>

\* restart(), which open() calls for a record whose status is "error".
RestartBegins(s) ==
  /\ RecordsOf(s) # {} \/ s \in lingering
  /\ Room
  /\ Begin(s, "restart", FALSE, FALSE)
  /\ UNCHANGED <<runtime, workspace, lingering, shuttingDown, shutdown, waits, failed, file>>

\* The next launch is reserved before the record is stopped.
RestartReserves(s, r) ==
  /\ operation[s].kind = "restart" /\ operation[s].at = "queued"
  /\ ~shuttingDown
  /\ NextSlot(r)
  /\ operation' = [operation EXCEPT ![s].at = "waiting", ![s].launch = r]
  /\ runtime' = [Collect(RecordsOf(s)) EXCEPT ![r] = Reserved(s, TRUE, "reserved")]
  /\ lingering' = lingering \ {s}
  /\ AwaitAll(s, RecordsOf(s))
  /\ UNCHANGED <<workspace, shuttingDown, shutdown, file>>

RestartRefused(s) ==
  /\ operation[s].kind = "restart" /\ operation[s].at = "queued"
  /\ shuttingDown
  /\ EndOperation(s)
  /\ UNCHANGED <<workspace, lingering, shuttingDown, shutdown, waits, failed, file>>

RestartLaunches(s) ==
  LET r == operation[s].launch IN
  /\ operation[s].kind = "restart" /\ operation[s].at = "waiting"
  /\ waits[s] = {} /\ ~failed[s]
  /\ ~throwIfLaunchCancelled(runtime[r])
  /\ operation' = [operation EXCEPT ![s].at = "launching"]
  /\ runtime' = [runtime EXCEPT ![r].at = "preparing"]
  /\ UNCHANGED <<workspace, lingering, shuttingDown, shutdown, waits, failed, file>>

\* The stop failed, or the launch was cancelled meanwhile: the reservation goes.
RestartReleases(s) ==
  LET r == operation[s].launch IN
  /\ operation[s].kind = "restart" /\ operation[s].at = "waiting"
  /\ waits[s] = {}
  /\ failed[s] \/ throwIfLaunchCancelled(runtime[r])
  /\ Ended(s)
  /\ runtime' = [Rearmed(s) EXCEPT ![r] = Free]
  /\ Heard(r, TRUE)
  /\ UNCHANGED <<workspace, lingering, shuttingDown, shutdown, file>>

RestartEnds(s) ==
  /\ operation[s].at = "ended"
  /\ EndOperation(s)
  /\ UNCHANGED <<workspace, lingering, shuttingDown, shutdown, waits, failed, file>>

\* withHistoryMutation: a session without a runtime is renamed in its file.
RenameBegins(s) ==
  /\ file[s] = "written"
  /\ RecordsOf(s) = {} /\ PendingOf(s) = {} /\ s \notin lingering
  /\ Begin(s, "rename", FALSE, FALSE)
  /\ UNCHANGED <<runtime, workspace, lingering, shuttingDown, shutdown, waits, failed, file>>

RenameEnds(s) ==
  /\ operation[s].kind = "rename"
  /\ EndOperation(s)
  /\ UNCHANGED <<workspace, lingering, shuttingDown, shutdown, waits, failed, file>>

-----------------------------------------------------------------------------
\* withWorkspaceMutation

WorkspaceBegins(scopes, force) ==
  LET found == {r \in Pending \cup Records : InScope(r, scopes)} IN
  /\ ~shuttingDown
  /\ workspace.at = "none" /\ \A s \in Session : ~conflictingOperation(s)
  /\ force \/ \A r \in found : r \in Records /\ ~isBusy(r)
  /\ workspace' = [at |-> "waiting", scopes |-> scopes]
  /\ runtime' = Collect(found)
  /\ lingering' = {s \in lingering : CwdOf[s] \notin scopes}
  /\ AwaitAll(Workspace, found)
  /\ UNCHANGED <<operation, shuttingDown, shutdown, file>>

WorkspaceRuns ==
  /\ workspace.at = "waiting" /\ waits[Workspace] = {}
  /\ workspace' = IF failed[Workspace] \/ shuttingDown THEN NoWorkspace
                  ELSE [workspace EXCEPT !.at = "running"]
  /\ UNCHANGED <<runtime, operation, lingering, shuttingDown, shutdown, waits, failed, file>>

WorkspaceEnds ==
  /\ workspace.at = "running"
  /\ workspace' = NoWorkspace
  /\ UNCHANGED <<runtime, operation, lingering, shuttingDown, shutdown, waits, failed, file>>

-----------------------------------------------------------------------------
\* Shutdown

Cancelled ==
  [r \in Runtime |-> [runtime[r] EXCEPT !.cancelled = @ \/ r \in Pending]]

beginShutdown ==
  /\ ~shuttingDown
  /\ shuttingDown' = TRUE
  /\ runtime' = Cancelled
  /\ UNCHANGED <<operation, workspace, lingering, shutdown, waits, failed, file>>

\* The server stops its registry, and does so again when that failed.
ShutdownBegins ==
  /\ shutdown \in {"none", "failed"}
  /\ shuttingDown' = TRUE
  /\ shutdown' = "waiting"
  /\ runtime' = Collect(Pending \cup Records)
  /\ lingering' = {}
  /\ AwaitAll(Shutdown, Pending \cup Records)
  /\ UNCHANGED <<operation, workspace, file>>

ShutdownEnds ==
  /\ shutdown = "waiting" /\ waits[Shutdown] = {}
  /\ workspace.at = "none" /\ \A s \in Session : ~conflictingOperation(s)
  /\ shutdown' = IF failed[Shutdown] THEN "failed" ELSE "done"
  /\ UNCHANGED <<runtime, operation, workspace, lingering, shuttingDown, waits, failed, file>>

-----------------------------------------------------------------------------

RegistryInit ==
  /\ runtime = [r \in Runtime |-> Free]
  /\ operation = [s \in Session |-> NoOperation]
  /\ workspace = NoWorkspace
  /\ lingering = {}
  /\ shuttingDown = FALSE
  /\ shutdown = "none"
  /\ waits = [w \in Waiter |-> {}]
  /\ failed = [w \in Waiter |-> FALSE]
  /\ file \in [Session -> {"unused", "written"}]

\* What people ask of the registry, and what a client does of its own accord.
RegistryEnvironment ==
  \/ \E s \in Session, r \in Runtime : Create(s, r) \/ Open(s, r)
  \/ \E r \in Runtime :
       \/ OpenLive(r) \/ WorkBegins(r) \/ WorkEnds(r) \/ Answered(r)
       \/ RefreshFails(r) \/ IdleTimeout(r) \/ Stop(r)
  \/ \E r \in Runtime, prompt \in BOOLEAN : MutationBegins(r, prompt)
  \/ \E s \in Session :
       StopLingering(s) \/ RestartBegins(s) \/ RenameBegins(s)
  \/ \E s \in Session, force \in BOOLEAN : DeleteBegins(s, force)
  \/ \E scopes \in (SUBSET Cwd) \ {{}}, force \in BOOLEAN : WorkspaceBegins(scopes, force)
  \/ ShutdownBegins

\* What an await that has been answered goes on with.
RuntimeProceeds(r) ==
  \/ LaunchStarts(r) \/ LaunchStarted(r) \/ LaunchReady(r)
  \/ LaunchAborted(r) \/ LaunchFails(r) \/ CleanupDone(r) \/ CleanupFails(r)
  \/ MutationEnds(r) \/ ClientStops(r) \/ StopFails(r) \/ StopEnds(r)

OperationProceeds(s) ==
  \/ DeleteCollects(s) \/ DeleteRefused(s) \/ DeleteRemoves(s) \/ DeleteDone(s)
  \/ DeleteFails(s) \/ OperationGivesUp(s)
  \/ \E r \in Runtime : RestartReserves(s, r)
  \/ RestartRefused(s) \/ RestartLaunches(s) \/ RestartReleases(s) \/ RestartEnds(s)
  \/ RenameEnds(s)

WholeProceeds == WorkspaceRuns \/ WorkspaceEnds \/ ShutdownEnds

RegistryProceeds ==
  \/ \E r \in Runtime : RuntimeProceeds(r)
  \/ \E s \in Session : OperationProceeds(s)
  \/ WholeProceeds

RegistryFairness ==
  /\ \A r \in Runtime : WF_registryVars(RuntimeProceeds(r))
  /\ \A s \in Session : WF_registryVars(OperationProceeds(s))
  /\ WF_registryVars(WholeProceeds)

RegistryNext == RegistryEnvironment \/ RegistryProceeds \/ beginShutdown

RegistrySpec == RegistryInit /\ [][RegistryNext]_registryVars /\ RegistryFairness

-----------------------------------------------------------------------------
\* Properties

\* The types, and: an operation waits only for runtimes that are still there.
RegistryTypeOK ==
  /\ runtime \in [Runtime -> RuntimeType]
  /\ operation \in [Session ->
       [kind : {"none", "delete", "restart", "rename"},
        at : {"none", "queued", "waiting", "launching", "ended", "working"},
        force : BOOLEAN, lazy : BOOLEAN, launch : Runtime \cup {0}]]
  /\ workspace \in [at : {"none", "waiting", "running"}, scopes : SUBSET Cwd]
  /\ lingering \subseteq Session
  /\ shuttingDown \in BOOLEAN
  /\ shutdown \in {"none", "waiting", "failed", "done"}
  /\ waits \in [Waiter -> SUBSET (Pending \cup Records)]
  /\ failed \in [Waiter -> BOOLEAN]
  /\ file \in [Session -> {"unused", "none", "written", "removed"}]

\* A live session that may be stopped for being idle has its timer set, after
\* every order of prompts, events, timeouts and operations that held the timer
\* back: no runtime is forgotten (scheduleIdleStop, reconcileIdleLease).
IdleSessionsAreTimed ==
  \A r \in Records : canIdleStop(runtime[r]) => runtime[r].timer

AliveRuntimes(s) == {r \in Runtime : runtime[r].client = "alive" /\ runtime[r].session = s}

Exclusive ==
  {s \in Session :
    \/ operation[s].kind = "delete" /\ operation[s].at = "working"
    \/ operation[s].kind = "rename"
    \/ workspace.at = "running" /\ CwdOf[s] \in workspace.scopes}

Gate == IF shutdown = "done" THEN "closed" ELSE IF shuttingDown THEN "closing" ELSE "open"

Ownership ==
  INSTANCE SessionOwnership WITH
    alive <- [s \in Session |-> AliveRuntimes(s)],
    exclusive <- Exclusive,
    gate <- Gate

\* The registry keeps the promise of SessionOwnership: a session has one runtime
\* at most, its files are deleted, renamed or moved only while it has none, no
\* runtime starts once admission is closed, and a shutdown that reports success
\* leaves none behind (launch, stopRecord, deleteSession, withWorkspaceMutation,
\* shutdown).
ImplementsOwnership == Ownership!OwnershipSpec

\* Every deletion, restart, rename, workspace operation and shutdown comes to an
\* end, whatever fails on the way: nobody waits for a launch or a stop whose end
\* he is not told (runLifecycle, settlePendingForShutdown, shutdown).
EveryOperationEnds ==
  /\ \A s \in Session : conflictingOperation(s) ~> ~conflictingOperation(s)
  /\ workspace.at # "none" ~> workspace.at = "none"
  /\ shutdown = "waiting" ~> shutdown # "waiting"
=============================================================================
