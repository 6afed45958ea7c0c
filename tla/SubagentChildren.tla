--------------------------- MODULE SubagentChildren ---------------------------
(***************************************************************************)
(* The children one SubagentSupervisor owns (src/subagent/supervisor.ts):  *)
(* launch, startup and its failures, materialization, settlement, abort,   *)
(* disposal, the parent's acknowledgement of a launch, and the part of     *)
(* stopAll that takes the children down.                                   *)
(*                                                                         *)
(* JavaScript runs one callback at a time, so an action is a maximal run   *)
(* of code between two awaits; every await is a place where the actions of *)
(* other coroutines interleave.  A coroutine is a program counter:         *)
(*   pc    launch(), and its cleanup chain when it fails,                  *)
(*   stop  the callback stopAll runs for each child it owned.              *)
(* A promise several coroutines join (startup, startup cleanup, abort,     *)
(* disposal) is one field that each of them waits for.                     *)
(***************************************************************************)
EXTENDS SubagentJournal

CONSTANT MaxFaults  \* bound: how many startups, aborts, disposals, ... fail

ASSUME FaultsAssumption == MaxFaults \in Nat

VARIABLES
  jobs,           \* the journal's jobs
  batches,        \* the journal's notification batches
  child,          \* the OwnedChild of each launch
  ownerStopping,  \* parentIsStopping(): the owner session is being cancelled
  stopping,       \* the supervisor's flags
  closing,
  stopPhase,      \* how far the current stopAll has got
  disposed,
  scheduled,      \* notificationScheduled
  faults          \* failures so far

childVars == <<jobs, batches, child, ownerStopping, stopping, closing,
               stopPhase, disposed, scheduled, faults>>

LaunchPcs == {"none", "starting", "started", "rejected", "materializing",
              "working", "ended", "fail_cleanup", "fail_abort", "fail_settle",
              "fail_dispose", "threw"}

StopPcs == {"none", "startup", "cleanup", "abort", "settle", "dispose",
            "finish", "done", "rejected"}

Children ==
  [pc : LaunchPcs,
   owned : BOOLEAN,                                \* in the children map
   startup : {"none", "pending", "resolved", "rejected"},
   cleanup : {"none", "needed", "running", "done"}, \* startupCleanup
   handle : BOOLEAN,
   mat : {"pending", "materialized", "failed"},
   settled : BOOLEAN,                              \* completionSettled
   term : Outcomes,                                \* child.terminal
   recorded : BOOLEAN,
   published : BOOLEAN,
   forced : BOOLEAN,                               \* forcedError is set
   abort : {"none", "running", "done"},
   disposal : {"none", "running", "done"},
   failed : SUBSET {"abort", "dispose", "startup"}, \* cleanupFailures
   stop : StopPcs]

NoChild ==
  [pc |-> "none", owned |-> FALSE, startup |-> "none", cleanup |-> "none",
   handle |-> FALSE, mat |-> "pending", settled |-> FALSE, term |-> "none",
   recorded |-> FALSE, published |-> FALSE, forced |-> FALSE,
   abort |-> "none", disposal |-> "none", failed |-> {}, stop |-> "none"]

StopPhases == {"idle", "children", "notify", "sending", "sent", "failed",
               "waiting", "closed"}

TypeOK ==
  /\ jobs \in [Launches -> Jobs]
  /\ batches \in [BatchIds -> Batches]
  /\ child \in [Launches -> Children]
  /\ ownerStopping \in BOOLEAN
  /\ stopping \in BOOLEAN
  /\ closing \in BOOLEAN
  /\ stopPhase \in StopPhases
  /\ disposed \in BOOLEAN
  /\ scheduled \in BOOLEAN
  /\ faults \in 0 .. MaxFaults

Init ==
  /\ jobs = [l \in Launches |-> AbsentJob]
  /\ batches = [b \in BatchIds |-> UnusedBatch]
  /\ child = [l \in Launches |-> NoChild]
  /\ ownerStopping = FALSE
  /\ stopping = FALSE
  /\ closing = FALSE
  /\ stopPhase = "idle"
  /\ disposed = FALSE
  /\ scheduled = FALSE
  /\ faults = 0

-----------------------------------------------------------------------------
(* Synchronous helpers of the supervisor, as functions of one child and    *)
(* its job.                                                                *)

IsStopping == stopping \/ closing \/ ownerStopping

Owned == {l \in Launches : child[l].owned}

HoldsResources(c) ==
  \/ c.startup = "pending"
  \/ c.cleanup \in {"needed", "running"}
  \/ c.handle /\ c.disposal # "done"

HasRunningChildren == \E l \in Owned : HoldsResources(child[l])

CleanupFailed == \E l \in Launches : child[l].failed # {}

\* recordTerminalIfReady records; publishTerminalIfReady then publishes.
RecordReady(c) == ~c.recorded /\ c.mat = "materialized" /\ c.term # "none"

RecordTerminal(c, j) ==
  IF RecordReady(c) THEN Terminal(j, c.term, FALSE) ELSE j

PublishReady(c, j) == c.term # "none" /\ (c.recorded \/ RecordReady(c)) /\ j.ack

RecordAndPublish(c, j) ==
  [c EXCEPT !.recorded = @ \/ RecordReady(c),
            !.published = @ \/ PublishReady(c, j)]

\* publishTerminalIfReady asks for a notification unless a stop is under way.
Notifies(c, j) == ~c.published /\ PublishReady(c, j) /\ ~IsStopping

Removed(c) == [c EXCEPT !.owned = FALSE, !.failed = {}]

\* removeChildIfFinished
SuppressIfFinished(c, j) ==
  IF /\ c.disposal = "done"
     /\ IsStopping
     /\ c.mat = "materialized"
     /\ c.recorded
     /\ ~j.ack
    THEN LaunchSuppressed(j)
    ELSE j

RemoveIfFinished(c) ==
  IF c.disposal = "done" /\ (c.mat = "failed" \/ c.published \/ IsStopping)
    THEN Removed(c)
    ELSE c

\* abortChild, disposeChildResources and retryStartupCleanup join the promise
\* of an attempt that is under way and do nothing once it has succeeded.
StartAbort(c) ==
  IF c.handle /\ c.abort = "none" THEN [c EXCEPT !.abort = "running"] ELSE c

StartDisposal(c) ==
  IF c.handle /\ c.settled /\ c.disposal = "none"
    THEN [c EXCEPT !.disposal = "running"]
    ELSE c

StartCleanup(c) ==
  IF c.cleanup = "needed" THEN [c EXCEPT !.cleanup = "running"] ELSE c

Become(l, c) == child' = [child EXCEPT ![l] = c]

JobBecomes(l, j) == jobs' = [jobs EXCEPT ![l] = j]

CanFail == faults < MaxFaults /\ faults' = faults + 1

Same == UNCHANGED <<batches, ownerStopping, stopping, closing, stopPhase,
                    disposed>>

-----------------------------------------------------------------------------
(* launch(), up to its return or its throw.                                *)

\* The dispatch tool has reserved the launch.  (What the reservation checks
\* is the coordinator's; here it is a journal record.)
Reserve(l) ==
  /\ ~Known(jobs[l])
  /\ JobBecomes(l, Reserved)
  /\ UNCHANGED <<child, scheduled, faults>> /\ Same

Launch(l) ==
  /\ jobs[l].st = "reserved"
  /\ child[l].pc = "none"
  /\ ~IsStopping /\ ~disposed
  /\ Become(l, [child[l] EXCEPT !.pc = "starting", !.owned = TRUE,
                                !.startup = "pending"])
  /\ UNCHANGED <<jobs, scheduled, faults>> /\ Same

\* launch() throws before it owns anything; the tool, finding the job still
\* reserved, records the failure itself.
LaunchRefused(l) ==
  /\ jobs[l].st = "reserved"
  /\ child[l].pc = "none"
  /\ IsStopping \/ disposed
  /\ Become(l, [child[l] EXCEPT !.pc = "threw"])
  /\ JobBecomes(l, PreMaterializationFailed(jobs[l]))
  /\ UNCHANGED <<scheduled, faults>> /\ Same

StartupResolves(l) ==
  /\ child[l].startup = "pending"
  /\ Become(l, [child[l] EXCEPT !.pc = "started", !.startup = "resolved",
                                !.handle = TRUE])
  /\ UNCHANGED <<jobs, scheduled, faults>> /\ Same

\* The stage launcher rejects; with a retryable cleanup when the stage's own
\* setup cleanup failed too.
StartupRejects(l) ==
  /\ child[l].startup = "pending"
  /\ CanFail
  /\ \E cleanup \in {"none", "needed"} :
       Become(l, [child[l] EXCEPT !.pc = "rejected", !.startup = "rejected",
                                  !.cleanup = cleanup])
  /\ UNCHANGED <<jobs, scheduled>> /\ Same

\* ownHandle keeps the handle and then finds that it is not the reserved one.
StartupMismatched(l) ==
  /\ child[l].startup = "pending"
  /\ CanFail
  /\ Become(l, [child[l] EXCEPT !.pc = "rejected", !.startup = "rejected",
                                !.handle = TRUE])
  /\ UNCHANGED <<jobs, scheduled>> /\ Same

LaunchCreated(l) ==
  /\ child[l].pc = "started"
  /\ JobBecomes(l, Created(jobs[l]))
  /\ LET c == [child[l] EXCEPT !.pc = "materializing"]
     IN  Become(l, IF IsStopping THEN StartAbort(c) ELSE c)
  /\ UNCHANGED <<scheduled, faults>> /\ Same

\* handle.materialized resolved: the first assistant message is on disk.
LaunchMaterialized(l) ==
  /\ child[l].pc = "materializing"
  /\ ~jobs[l].supp
  /\ LET c == [child[l] EXCEPT !.pc = "working", !.mat = "materialized"]
         j == Materialized(IF jobs[l].path THEN jobs[l] ELSE Created(jobs[l]))
     IN  /\ JobBecomes(l, RecordTerminal(c, j))
         /\ Become(l, StartDisposal(RecordAndPublish(c, j)))
         /\ scheduled' = (scheduled \/ Notifies(c, j))
  /\ UNCHANGED faults /\ Same

\* Mutant: the failure of a launch is not recorded.
MutantCatchLaunchFailure(l) ==
  /\ Become(l, StartCleanup([child[l] EXCEPT !.pc = "fail_cleanup",
                                             !.mat = "failed"]))
  /\ UNCHANGED <<jobs, scheduled>> /\ Same

\* The catch block of launch(), up to its first await.
CatchLaunchFailure(l) ==
  /\ JobBecomes(l, PreMaterializationFailed(jobs[l]))
  /\ Become(l, StartCleanup([child[l] EXCEPT !.pc = "fail_cleanup",
                                             !.mat = "failed"]))
  /\ UNCHANGED scheduled /\ Same

LaunchFails(l) ==
  /\ child[l].pc = "rejected"
  /\ CatchLaunchFailure(l)
  /\ UNCHANGED faults

\* The launch was suppressed while it waited for the first message.
LaunchStopped(l) ==
  /\ child[l].pc = "materializing"
  /\ jobs[l].supp
  /\ CatchLaunchFailure(l)
  /\ UNCHANGED faults

\* handle.materialized rejected.
MaterializationFails(l) ==
  /\ child[l].pc = "materializing"
  /\ CanFail
  /\ CatchLaunchFailure(l)

\* Mutant: a failed launch lets go of its child whatever its cleanup did.
MutantThrown(c) == Removed([c EXCEPT !.pc = "threw"])

\* The last cleanup step of a failed launch, which then throws.
Thrown(c) ==
  LET t == [c EXCEPT !.pc = "threw"]
  IN  IF \/ ~c.handle /\ c.cleanup \in {"none", "done"}
         \/ c.disposal = "done"
        THEN Removed(t) ELSE t

FailedLaunchCleaned(l) ==
  LET c == child[l] IN
  /\ c.pc = "fail_cleanup"
  /\ c.cleanup \in {"none", "done"}
  /\ Become(l, IF c.handle THEN StartAbort([c EXCEPT !.pc = "fail_abort"])
                           ELSE Thrown(c))
  /\ UNCHANGED <<jobs, scheduled, faults>> /\ Same

FailedLaunchAborted(l) ==
  /\ child[l].pc = "fail_abort"
  /\ child[l].abort = "done"
  /\ Become(l, [child[l] EXCEPT !.pc = "fail_settle"])
  /\ UNCHANGED <<jobs, scheduled, faults>> /\ Same

\* child.settlement includes the disposal that settleChild attempts.
FailedLaunchSettled(l) ==
  LET c == child[l] IN
  /\ c.pc = "fail_settle"
  /\ c.settled /\ c.disposal # "running"
  /\ Become(l, StartDisposal([c EXCEPT !.pc = "fail_dispose"]))
  /\ UNCHANGED <<jobs, scheduled, faults>> /\ Same

FailedLaunchDisposed(l) ==
  /\ child[l].pc = "fail_dispose"
  /\ child[l].disposal = "done"
  /\ Become(l, Thrown(child[l]))
  /\ UNCHANGED <<jobs, scheduled, faults>> /\ Same

-----------------------------------------------------------------------------
(* What the child, its cleanups and the parent report.                     *)

\* settleChild, up to its await
Settle(l) ==
  /\ child[l].handle /\ ~child[l].settled
  /\ \E result \in TerminalStatuses :
       LET c == [child[l] EXCEPT
                   !.settled = TRUE,
                   !.term = IF child[l].forced THEN "error" ELSE result]
           p == RecordAndPublish(c, jobs[l])
       IN  /\ JobBecomes(l, RecordTerminal(c, jobs[l]))
           /\ Become(l, IF c.mat = "pending" THEN p ELSE StartDisposal(p))
           /\ scheduled' = (scheduled \/ Notifies(c, jobs[l]))
  /\ UNCHANGED faults /\ Same

AbortSucceeds(l) ==
  /\ child[l].abort = "running"
  /\ Become(l, [child[l] EXCEPT !.abort = "done", !.failed = @ \ {"abort"}])
  /\ UNCHANGED <<jobs, scheduled, faults>> /\ Same

\* The failure reaches every coroutine that joined the attempt: a failing
\* launch skips to its last step, a stop gives the child up.
Fails(c, cause, launchPc, stopPc) ==
  LET f == [c EXCEPT !.failed = IF c.owned THEN @ \cup {cause} ELSE @,
                     !.stop = IF @ = stopPc THEN "rejected" ELSE @]
  IN  IF c.pc = launchPc THEN Thrown(f) ELSE f

AbortFails(l) ==
  /\ child[l].abort = "running"
  /\ CanFail
  /\ Become(l, Fails([child[l] EXCEPT !.abort = "none"], "abort",
                     "fail_abort", "abort"))
  /\ UNCHANGED <<jobs, scheduled>> /\ Same

CleanupSucceeds(l) ==
  /\ child[l].cleanup = "running"
  /\ Become(l, [child[l] EXCEPT !.cleanup = "done", !.failed = @ \ {"startup"}])
  /\ UNCHANGED <<jobs, scheduled, faults>> /\ Same

CleanupFails(l) ==
  /\ child[l].cleanup = "running"
  /\ CanFail
  /\ Become(l, Fails([child[l] EXCEPT !.cleanup = "needed"], "startup",
                     "fail_cleanup", "cleanup"))
  /\ UNCHANGED <<jobs, scheduled>> /\ Same

\* The resources are gone, and whoever waited for that lets go of the child in
\* the same turn: settleChild, launch() or a stop.
DisposalSucceeds(l) ==
  /\ child[l].disposal = "running"
  /\ LET c == [child[l] EXCEPT !.disposal = "done", !.failed = @ \ {"dispose"}]
     IN  /\ JobBecomes(l, SuppressIfFinished(c, jobs[l]))
         /\ Become(l, RemoveIfFinished(c))
  /\ UNCHANGED <<scheduled, faults>> /\ Same

DisposalFails(l) ==
  /\ child[l].disposal = "running"
  /\ CanFail
  /\ Become(l, Fails([child[l] EXCEPT !.disposal = "none"], "dispose",
                     "fail_dispose", "dispose"))
  /\ UNCHANGED <<jobs, scheduled>> /\ Same

\* observeParentEvent: the parent session reports that the dispatch tool call
\* ended without an error, which a disposed supervisor no longer hears.
ToolEnd(l) ==
  LET c == [child[l] EXCEPT !.pc = "ended"]
      j == IF jobs[l].path /\ jobs[l].st # "pre_materialization_failed"
             THEN LaunchAcknowledged(jobs[l]) ELSE jobs[l]
      heard == ~disposed /\ ~jobs[l].ack /\ ~jobs[l].supp
      done == RecordAndPublish(c, j)
  IN
  /\ child[l].pc = "working"
  /\ IF heard
       THEN /\ JobBecomes(l, IF c.owned
                               THEN SuppressIfFinished(done, RecordTerminal(c, j))
                               ELSE j)
            /\ Become(l, IF c.owned THEN RemoveIfFinished(done) ELSE c)
       ELSE /\ Become(l, c)
            /\ UNCHANGED jobs
  /\ scheduled' = (scheduled \/ (~disposed /\ ~IsStopping
                                   /\ Deliverable(jobs', batches) # {}))
  /\ UNCHANGED faults /\ Same

-----------------------------------------------------------------------------
(* stopAll (cancelAll and abortAll): suppress what the parent has not      *)
(* acknowledged, force the rest to an error, and take every child down.    *)

\* The owner session starts to be cancelled or closed.
RequestStop ==
  /\ ~ownerStopping
  /\ ownerStopping' = TRUE
  /\ UNCHANGED <<jobs, batches, child, stopping, closing, stopPhase, disposed,
                 scheduled, faults>>

\* Mutants: a stop rewrites an outcome that was published, in the child and
\* in the journal.
MutantForceError(c) ==
  [c EXCEPT !.forced = TRUE, !.term = IF @ = "none" THEN @ ELSE "error"]

MutantForceJobError(c, j) ==
  IF c.term # "none" /\ c.recorded THEN Terminal(j, "error", FALSE) ELSE j

\* forceChildError
ForceError(c) ==
  IF c.published THEN c
  ELSE [c EXCEPT !.forced = TRUE,
                 !.term = IF @ = "none" THEN @ ELSE "error"]

ForceJobError(c, j) ==
  IF /\ ~c.published /\ c.term # "none"
     /\ c.recorded /\ c.mat = "materialized"
    THEN Terminal(j, "error", FALSE)
    ELSE j

SuppressUnacknowledged(j) == IF j.ack THEN j ELSE LaunchSuppressed(j)

BeginStop(terminal) ==
  /\ ownerStopping \/ terminal
  /\ ~disposed
  /\ stopPhase = "idle"
  /\ closing' = (closing \/ terminal)
  /\ stopping' = TRUE
  /\ stopPhase' = "children"
  /\ jobs' = [l \in Launches |->
                IF child[l].owned
                  THEN ForceJobError(child[l], SuppressUnacknowledged(jobs[l]))
                  ELSE jobs[l]]
  /\ child' = [l \in Launches |->
                 IF child[l].owned
                   THEN [ForceError(child[l]) EXCEPT !.stop = "startup"]
                   ELSE child[l]]
  /\ UNCHANGED <<batches, ownerStopping, disposed, scheduled, faults>>

\* abortAll during a cancelAll joins it and makes it final.
CloseWhileStopping ==
  /\ stopPhase \notin {"idle", "closed"}
  /\ ~closing
  /\ closing' = TRUE
  /\ UNCHANGED <<jobs, batches, child, ownerStopping, stopping, stopPhase,
                 disposed, scheduled, faults>>

StopStartupResolved(l) ==
  /\ child[l].stop = "startup"
  /\ child[l].startup = "resolved"
  /\ Become(l, StartAbort([child[l] EXCEPT !.stop = "abort"]))
  /\ UNCHANGED <<jobs, scheduled, faults>> /\ Same

StopStartupRejected(l) ==
  /\ child[l].stop = "startup"
  /\ child[l].startup = "rejected"
  /\ Become(l, StartCleanup([child[l] EXCEPT !.stop = "cleanup"]))
  /\ UNCHANGED <<jobs, scheduled, faults>> /\ Same

StopCleaned(l) ==
  LET c == [child[l] EXCEPT !.stop = "finish"] IN
  /\ child[l].stop = "cleanup"
  /\ child[l].cleanup \in {"none", "done"}
  /\ Become(l, IF c.handle THEN c ELSE Removed(c))
  /\ UNCHANGED <<jobs, scheduled, faults>> /\ Same

StopAborted(l) ==
  /\ child[l].stop = "abort"
  /\ child[l].abort = "done"
  /\ Become(l, [child[l] EXCEPT !.stop = "settle"])
  /\ UNCHANGED <<jobs, scheduled, faults>> /\ Same

StopSettled(l) ==
  LET c == child[l] IN
  /\ c.stop = "settle"
  /\ c.settled /\ c.disposal # "running"
  /\ Become(l, StartDisposal([c EXCEPT !.stop = "dispose"]))
  /\ UNCHANGED <<jobs, scheduled, faults>> /\ Same

StopDisposed(l) ==
  LET c == [child[l] EXCEPT !.stop = "finish"]
      p == RecordAndPublish(c, jobs[l])
      j == SuppressIfFinished(p, RecordTerminal(c, jobs[l]))
      r == RemoveIfFinished(p)
  IN
  /\ child[l].stop = "dispose"
  /\ child[l].disposal = "done"
  /\ JobBecomes(l, j)
  /\ Become(l, IF r.owned /\ ~j.ack THEN Removed(r) ELSE r)
  /\ UNCHANGED <<scheduled, faults>> /\ Same

\* Mutant: a stop does not wait until its child is finished.
MutantStopFinished(l) ==
  /\ child[l].stop = "finish"
  /\ Become(l, [child[l] EXCEPT !.stop = "done"])
  /\ UNCHANGED <<jobs, scheduled, faults>> /\ Same

StopFinished(l) ==
  /\ child[l].stop = "finish"
  /\ ~child[l].owned
  /\ Become(l, [child[l] EXCEPT !.stop = "done"])
  /\ UNCHANGED <<jobs, scheduled, faults>> /\ Same

StopChildrenDone ==
  /\ stopPhase = "children"
  /\ \A l \in Launches : child[l].stop \in {"none", "done", "rejected"}
  /\ stopPhase' = "notify"
  /\ UNCHANGED <<jobs, batches, child, ownerStopping, stopping, closing,
                 disposed, scheduled, faults>>

ChildStopFailed == \E l \in Launches : child[l].stop = "rejected"

ForgetStop == child' = [l \in Launches |-> [child[l] EXCEPT !.stop = "none"]]

\* The stop resolves: the supervisor reopens, unless it is closing.  The owner
\* clears its own flag next, when the rest of its cancellation succeeded too.
StopSucceeds ==
  /\ stopping' = closing
  /\ stopPhase' = IF closing THEN "closed" ELSE "idle"
  /\ IF closing THEN UNCHANGED ownerStopping ELSE ownerStopping' \in BOOLEAN
  /\ ForgetStop
  /\ UNCHANGED closing

\* The stop rejects: "stopping" stays set and the owner may stop again.
StopFails ==
  /\ stopPhase' = "idle"
  /\ ForgetStop
  /\ UNCHANGED <<ownerStopping, stopping, closing>>

\* What stopAll does once its notification step has returned.
ConcludeStop ==
  IF ChildStopFailed THEN StopFails
  ELSE IF CleanupFailed \/ HasRunningChildren THEN StopSucceeds
  ELSE /\ stopPhase' = "waiting"
       /\ UNCHANGED <<child, ownerStopping, stopping, closing>>

\* waitForQuiescence
StopWaits(quiet) ==
  /\ stopPhase = "waiting"
  /\ IF CleanupFailed THEN StopFails ELSE quiet /\ StopSucceeds
  /\ UNCHANGED <<jobs, batches, disposed, scheduled, faults>>

\* dispose(), once the supervisor is quiet or its abortAll has resolved.
Dispose(quiet) ==
  /\ ~disposed
  /\ (quiet /\ stopPhase = "idle") \/ stopPhase = "closed"
  /\ disposed' = TRUE
  /\ UNCHANGED <<jobs, batches, child, ownerStopping, stopping, closing,
                 stopPhase, scheduled, faults>>

-----------------------------------------------------------------------------
(* The children on their own.  The notification step of stopAll changes    *)
(* no child, so here it is a single step; SubagentSupervisor details it.   *)

StopNotified ==
  /\ stopPhase = "notify"
  /\ ConcludeStop
  /\ UNCHANGED <<jobs, batches, disposed, scheduled, faults>>

LaunchStep(l) ==
  \/ LaunchCreated(l) \/ LaunchFails(l) \/ LaunchStopped(l)
  \/ FailedLaunchCleaned(l) \/ FailedLaunchAborted(l)
  \/ FailedLaunchSettled(l) \/ FailedLaunchDisposed(l)

StopStep(l) ==
  \/ StopStartupResolved(l) \/ StopStartupRejected(l) \/ StopCleaned(l)
  \/ StopAborted(l) \/ StopSettled(l) \/ StopDisposed(l) \/ StopFinished(l)

StartupEnds(l) ==
  StartupResolves(l) \/ StartupRejects(l) \/ StartupMismatched(l)

AbortEnds(l) == AbortSucceeds(l) \/ AbortFails(l)

CleanupEnds(l) == CleanupSucceeds(l) \/ CleanupFails(l)

DisposalEnds(l) == DisposalSucceeds(l) \/ DisposalFails(l)

ChildStep(l) ==
  \/ Reserve(l) \/ Launch(l) \/ LaunchRefused(l) \/ StartupEnds(l)
  \/ LaunchMaterialized(l) \/ MaterializationFails(l) \/ LaunchStep(l)
  \/ Settle(l) \/ AbortEnds(l) \/ CleanupEnds(l) \/ DisposalEnds(l)
  \/ ToolEnd(l) \/ StopStep(l)

Next ==
  \/ \E l \in Launches : ChildStep(l)
  \/ RequestStop
  \/ \E terminal \in BOOLEAN : BeginStop(terminal)
  \/ CloseWhileStopping
  \/ StopChildrenDone
  \/ StopNotified
  \/ StopWaits(~HasRunningChildren)
  \/ Dispose(~HasRunningChildren)

\* Promise continuations run; a startup, an abort, a cleanup and a disposal
\* settle one way or the other; an aborted child's run ends.
Fairness ==
  /\ \A l \in Launches :
       /\ WF_childVars(StartupEnds(l))
       /\ WF_childVars(LaunchStep(l))
       /\ WF_childVars(StopStep(l))
       /\ WF_childVars(AbortEnds(l))
       /\ WF_childVars(CleanupEnds(l))
       /\ WF_childVars(DisposalEnds(l))
       /\ WF_childVars(child[l].abort = "done" /\ Settle(l))
  /\ WF_childVars(StopChildrenDone)
  /\ WF_childVars(StopNotified)
  /\ WF_childVars(StopWaits(~HasRunningChildren))

Spec == Init /\ [][Next]_childVars /\ Fairness

-----------------------------------------------------------------------------
(* Properties.                                                             *)

\* A child leaves the supervisor's map only when nothing of it is left: its
\* startup is over, a setup that had to be cleaned up is, and its session
\* handle is disposed.  (removeChild is reached from five places.)
NoOrphanedResources ==
  \A l \in Launches :
    child[l].pc # "none" /\ ~child[l].owned => ~HoldsResources(child[l])

\* What the supervisor has published as the end of a child is what the
\* journal says, and a later stop does not rewrite it (forceChildError).
PublishedIsFinal ==
  \A l \in Launches :
    child[l].published =>
      /\ jobs[l].ack /\ ~jobs[l].supp
      /\ jobs[l].st = child[l].term
      /\ jobs[l].term = child[l].term

\* A launch is acknowledged to the parent or suppressed by a stop, never both.
AcknowledgedOrSuppressed ==
  \A l \in Launches : ~(jobs[l].ack /\ jobs[l].supp)

\* Once the supervisor has let go of a child, the journal no longer counts its
\* job as running: the agent id would otherwise be refused for ever.
ReleasedJobIsNotRunning ==
  \A l \in Launches :
    child[l].pc # "none" /\ ~child[l].owned => ~Running(jobs[l])

\* A stop that succeeds leaves no child behind, whatever was launched, failed
\* or finished while it ran.
StopResolves ==
  /\ stopPhase \in {"notify", "waiting"}
  /\ stopPhase' = "closed" \/ ~stopping'

StopLeavesNoChild == [][StopResolves => Owned = {}]_childVars

\* Every stop ends: no child makes the callbacks of stopAll wait on each
\* other or on a promise nobody settles.
StopEnds == stopPhase # "idle" ~> stopPhase \in {"idle", "closed"}

\* A handle whose disposal failed is retained, and a later stop tries again or
\* fails: it does not wait for ever (the comment in settleChild).
RetainedHandleRetried ==
  \A l \in Launches :
    ("dispose" \in child[l].failed /\ stopPhase # "idle")
      ~> ("dispose" \notin child[l].failed \/ stopPhase \in {"idle", "closed"})

=============================================================================
