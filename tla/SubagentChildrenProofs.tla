------------------------ MODULE SubagentChildrenProofs ------------------------
(***************************************************************************)
(* Proofs about SubagentChildren, for every set of launches and every      *)
(* bound on the failures.                                                  *)
(*                                                                         *)
(* The invariants of SubagentChildren relate one child to its own job, so  *)
(* the induction is on a predicate over one child and one job, Consistent: *)
(* each operator the supervisor's handlers are built from preserves it     *)
(* (the lemmas), each action applies such operators to one launch, and     *)
(* the two steps that touch every child, the beginning and the end of a    *)
(* stop, preserve it launch by launch.  A launch of an earlier process has *)
(* no child any more (Past), and no step touches it.                       *)
(***************************************************************************)
EXTENDS SubagentChildren, TLAPS

-----------------------------------------------------------------------------
(* The inductive invariant.                                                *)

Launching == {"starting", "started", "rejected", "materializing"}

Failing == {"fail_cleanup", "fail_abort", "fail_settle", "fail_dispose"}

\* How far the startup has got determines what there is to clean up.
StartupConsistent(c) ==
  /\ c.pc = "none" => /\ c.startup = "none" /\ c.mat = "pending"
                      /\ c.stop = "none" /\ ~c.owned
  /\ c.startup = "pending" <=> c.pc = "starting"
  /\ c.startup \in {"none", "pending"} => ~c.handle /\ c.cleanup = "none"
  /\ c.handle => c.cleanup = "none"
  /\ c.pc \in {"started", "materializing"} => c.handle
  /\ c.mat = "materialized" => c.handle
  /\ c.stop = "cleanup" => c.startup = "rejected"

\* Where launch() is, and what the journal knows of the launch.
LaunchConsistent(c, j) ==
  /\ c.pc # "none" => Known(j)
  /\ c.pc \in Launching => c.mat = "pending" /\ j.st \in RunningStatuses
  /\ c.pc \in {"working", "ended"} => c.mat = "materialized"
  /\ c.pc \in Failing => c.mat = "failed"
  /\ c.mat = "failed" => j.st = "pre_materialization_failed"
  /\ j.ack => c.mat = "materialized" /\ ~j.supp
  /\ c.stop # "none" => j.ack \/ j.supp

\* What the child has come to, and what the journal says it has come to.
OutcomeConsistent(c, j) ==
  /\ c.settled <=> c.term # "none"
  /\ c.settled => c.handle
  /\ c.disposal # "none" => c.settled
  /\ c.disposal # "none" /\ c.mat = "pending" => j.supp
  /\ c.recorded <=> c.settled /\ c.mat = "materialized"
  /\ c.recorded => j.term = c.term
  /\ c.recorded /\ j.ack => j.st = c.term
  /\ c.published => c.recorded /\ j.ack

\* What the supervisor let go of is over, in fact and in the journal.
ReleaseConsistent(c, j) ==
  c.pc # "none" /\ ~c.owned => ~HoldsResources(c) /\ ~Running(j)

Consistent(c, j) ==
  /\ StartupConsistent(c)
  /\ LaunchConsistent(c, j)
  /\ OutcomeConsistent(c, j)
  /\ ReleaseConsistent(c, j)

\* What an earlier process of the session leaves of a launch it knew: no child,
\* and a job whose outcome, if the journal has one, somebody may be told of.
\* (SubagentRecovery puts such launches here; on its own a supervisor has none.)
PastChild == [NoChild EXCEPT !.pc = "ended"]

LeftJob(j) ==
  /\ Known(j)
  /\ j.ack \/ j.term # "none" => j.path
  /\ j.ack => ~j.supp
  /\ j.recovered => j.term # "none"
  /\ j.recovered => j.st = j.term
  /\ j.st \in TerminalStatuses => j.st = j.term /\ (j.ack \/ j.recovered)

Past(c, j) == c = PastChild /\ LeftJob(j) /\ ~Running(j)

Lawful(c, j) == Consistent(c, j) \/ Past(c, j)

IInv == TypeOK /\ \A l \in Launches : Lawful(child[l], jobs[l])

-----------------------------------------------------------------------------
(* The operators the handlers are built from.                              *)

\* Joining or starting an abort changes no fact about the child.
LEMMA StartAbortConsistent ==
  ASSUME NEW c \in Children, NEW j \in Jobs, Consistent(c, j)
  PROVE  StartAbort(c) \in Children /\ Consistent(StartAbort(c), j)
BY DEF StartAbort, Children, Consistent, StartupConsistent, LaunchConsistent,
       OutcomeConsistent, ReleaseConsistent, HoldsResources

\* A disposal starts only for a child that is settled and not yet disposed;
\* before materialization, only a stop gets there.
LEMMA StartDisposalConsistent ==
  ASSUME NEW c \in Children, NEW j \in Jobs, Consistent(c, j),
         c.mat = "pending" => j.supp
  PROVE  StartDisposal(c) \in Children /\ Consistent(StartDisposal(c), j)
BY DEF StartDisposal, Children, Consistent, StartupConsistent, LaunchConsistent,
       OutcomeConsistent, ReleaseConsistent, HoldsResources

\* A startup cleanup that is started is still needed.
LEMMA StartCleanupConsistent ==
  ASSUME NEW c \in Children, NEW j \in Jobs, Consistent(c, j)
  PROVE  StartCleanup(c) \in Children /\ Consistent(StartCleanup(c), j)
BY DEF StartCleanup, Children, Consistent, StartupConsistent, LaunchConsistent,
       OutcomeConsistent, ReleaseConsistent, HoldsResources

\* The journal's operators stay within its jobs.
LEMMA JobsClosed ==
  ASSUME NEW j \in Jobs
  PROVE  /\ AbsentJob \in Jobs /\ Reserved \in Jobs
         /\ Created(j) \in Jobs /\ Materialized(j) \in Jobs
         /\ LaunchAcknowledged(j) \in Jobs
         /\ PreMaterializationFailed(j) \in Jobs
         /\ LaunchSuppressed(j) \in Jobs
         /\ \A s \in TerminalStatuses : Terminal(j, s, FALSE) \in Jobs
<1>1. AbsentJob \in Jobs
  BY DEF AbsentJob, Jobs, Statuses, Outcomes
<1>2. Reserved \in Jobs
  BY <1>1 DEF Reserved, Jobs, Statuses
<1>3. Created(j) \in Jobs /\ Materialized(j) \in Jobs
  BY DEF Created, Materialized, Jobs, Statuses
<1>4. LaunchAcknowledged(j) \in Jobs
  BY DEF LaunchAcknowledged, Jobs, Statuses, Outcomes, TerminalStatuses
<1>5. PreMaterializationFailed(j) \in Jobs /\ LaunchSuppressed(j) \in Jobs
  BY DEF PreMaterializationFailed, LaunchSuppressed, Jobs, Statuses
<1>6. TerminalStatuses \subseteq Statuses /\ TerminalStatuses \subseteq Outcomes
  BY DEF TerminalStatuses, Statuses, Outcomes
<1>7. \A s \in TerminalStatuses : Terminal(j, s, FALSE) \in Jobs
  BY <1>6 DEF Terminal, Jobs
<1> QED BY <1>1, <1>2, <1>3, <1>4, <1>5, <1>7

\* Recording and publishing a terminal state together make the child and its
\* job agree, where only the recording was still to be done.
LEMMA RecordAndPublishConsistent ==
  ASSUME NEW c \in Children, NEW j \in Jobs,
         StartupConsistent(c), LaunchConsistent(c, j), ReleaseConsistent(c, j),
         c.settled <=> c.term # "none",
         c.settled => c.handle,
         c.disposal # "none" => c.settled,
         c.disposal # "none" /\ c.mat = "pending" => j.supp,
         c.recorded => c.settled /\ c.mat = "materialized" /\ j.term = c.term,
         c.recorded /\ j.ack => j.st = c.term,
         c.published => c.recorded /\ j.ack,
         c.settled /\ c.mat = "materialized" /\ ~c.recorded =>
           c.owned \/ j.supp \/ ~HoldsResources(c)
  PROVE  /\ RecordAndPublish(c, j) \in Children
         /\ RecordTerminal(c, j) \in Jobs
         /\ Consistent(RecordAndPublish(c, j), RecordTerminal(c, j))
<1> DEFINE d == RecordAndPublish(c, j)
           k == RecordTerminal(c, j)
<1>1. d \in Children
  <2>1. RecordReady(c) \in BOOLEAN /\ PublishReady(c, j) \in BOOLEAN
    BY DEF RecordReady, PublishReady, Children, Jobs
  <2> QED BY <2>1 DEF RecordAndPublish, Children
<1>2. k \in Jobs
  BY JobsClosed DEF RecordTerminal, RecordReady, Children, Outcomes
<1>3. StartupConsistent(d)
  BY DEF RecordAndPublish, StartupConsistent, Children
<1>4. LaunchConsistent(d, k)
  BY DEF RecordAndPublish, RecordTerminal, RecordReady, Terminal, Known,
         LaunchConsistent, Children, Jobs, Failing, Launching, Outcomes,
         TerminalStatuses
<1>5. OutcomeConsistent(d, k)
  BY DEF RecordAndPublish, RecordTerminal, RecordReady, PublishReady, Terminal,
         Known, LaunchConsistent, StartupConsistent, OutcomeConsistent, Children,
         Jobs
<1>6. ReleaseConsistent(d, k)
  BY DEF RecordAndPublish, RecordTerminal, RecordReady, Terminal, Known,
         ReleaseConsistent, HoldsResources, Running, Children, Jobs, Outcomes,
         TerminalStatuses, RunningStatuses
<1> QED BY <1>1, <1>2, <1>3, <1>4, <1>5, <1>6 DEF Consistent

\* A child that is let go of is still a child.
LEMMA RemovedChild ==
  ASSUME NEW c \in Children
  PROVE  Removed(c) \in Children
<1>1. {} \in SUBSET {"abort", "dispose", "startup"}
  OBVIOUS
<1> QED BY <1>1 DEF Removed, Children

\* removeChildIfFinished suppresses what it must before it lets go.
LEMMA RemoveIfFinishedConsistent ==
  ASSUME NEW c \in Children, NEW j \in Jobs, Consistent(c, j)
  PROVE  /\ RemoveIfFinished(c) \in Children
         /\ SuppressIfFinished(c, j) \in Jobs
         /\ Consistent(RemoveIfFinished(c), SuppressIfFinished(c, j))
<1> DEFINE d == RemoveIfFinished(c)
           k == SuppressIfFinished(c, j)
<1>1. d \in Children
  BY RemovedChild DEF RemoveIfFinished
<1>2. k \in Jobs
  BY JobsClosed DEF SuppressIfFinished
<1>3. StartupConsistent(d)
  BY DEF RemoveIfFinished, Removed, Consistent, StartupConsistent, Children
<1>4. LaunchConsistent(d, k)
  BY DEF RemoveIfFinished, Removed, SuppressIfFinished, LaunchSuppressed, Known,
         Consistent, LaunchConsistent, Children, Jobs, Failing, Launching
<1>5. OutcomeConsistent(d, k)
  BY DEF RemoveIfFinished, Removed, SuppressIfFinished, LaunchSuppressed, Known,
         Consistent, OutcomeConsistent, Children, Jobs
<1>6. ReleaseConsistent(d, k)
  BY DEF RemoveIfFinished, Removed, SuppressIfFinished, LaunchSuppressed, Known,
         Consistent, StartupConsistent, LaunchConsistent, OutcomeConsistent,
         ReleaseConsistent, HoldsResources, Running, Children, Jobs, Outcomes,
         TerminalStatuses, RunningStatuses
<1> QED BY <1>1, <1>2, <1>3, <1>4, <1>5, <1>6 DEF Consistent

\* A failed launch lets go of its child only when nothing of it is left.
LEMMA ThrownConsistent ==
  ASSUME NEW c \in Children, NEW j \in Jobs, Consistent(c, j), c.pc \in Failing
  PROVE  Thrown(c) \in Children /\ Consistent(Thrown(c), j)
<1>1. Thrown(c) \in Children
  <2>1. [c EXCEPT !.pc = "threw"] \in Children
    BY DEF Children, LaunchPcs
  <2> QED BY <2>1, RemovedChild DEF Thrown
<1>2. Consistent(Thrown(c), j)
  BY DEF Thrown, Removed, Consistent, StartupConsistent, LaunchConsistent,
         OutcomeConsistent, ReleaseConsistent, HoldsResources, Running, Children,
         Failing, Launching, RunningStatuses
<1> QED BY <1>1, <1>2

\* A failed attempt leaves the child as it was, to be tried again.
LEMMA FailsConsistent ==
  ASSUME NEW c \in Children, NEW j \in Jobs, Consistent(c, j),
         NEW cause \in {"abort", "dispose", "startup"},
         NEW launchPc \in Failing, NEW stopPc \in StopPcs \ {"none"}
  PROVE  /\ Fails(c, cause, launchPc, stopPc) \in Children
         /\ Consistent(Fails(c, cause, launchPc, stopPc), j)
<1> DEFINE f == [c EXCEPT !.failed = IF c.owned THEN @ \cup {cause} ELSE @,
                          !.stop = IF @ = stopPc THEN "rejected" ELSE @]
<1>1. f \in Children
  <2>1. \A x \in SUBSET {"abort", "dispose", "startup"}, y \in StopPcs :
          [c EXCEPT !.failed = x, !.stop = y] \in Children
    BY DEF Children
  <2>2. (IF c.owned THEN c.failed \cup {cause} ELSE c.failed)
          \in SUBSET {"abort", "dispose", "startup"}
    BY DEF Children
  <2>3. (IF c.stop = stopPc THEN "rejected" ELSE c.stop) \in StopPcs
    BY DEF Children, StopPcs
  <2> QED BY <2>1, <2>2, <2>3
<1>2. Consistent(f, j)
  BY DEF Consistent, StartupConsistent, LaunchConsistent, OutcomeConsistent,
         ReleaseConsistent, HoldsResources, Children, StopPcs
<1>3. f.pc = c.pc
  BY DEF Children
<1>4. Fails(c, cause, launchPc, stopPc) =
        IF c.pc = launchPc THEN Thrown(f) ELSE f
  BY DEF Fails
<1>5. CASE c.pc = launchPc
  BY <1>1, <1>2, <1>3, <1>4, <1>5, ThrownConsistent
<1>6. CASE c.pc # launchPc
  BY <1>1, <1>2, <1>4, <1>6
<1> QED BY <1>5, <1>6

-----------------------------------------------------------------------------
(* The steps of one launch.                                                *)

\* What no step of a single launch touches, and the types of what it does.
Frame ==
  /\ UNCHANGED <<batches, ownerStopping, stopping, closing, stopPhase, disposed>>
  /\ scheduled' \in BOOLEAN
  /\ faults' \in 0 .. MaxFaults

\* A failure is counted, and otherwise the step is one of a single launch.
LEMMA CanFailFrame ==
  ASSUME TypeOK, CanFail, Same, UNCHANGED scheduled
  PROVE  Frame
<1>1. faults' \in 0 .. MaxFaults
  <2>1. faults \in Nat /\ MaxFaults \in Nat
    BY FaultsAssumption DEF TypeOK
  <2> QED BY <2>1 DEF CanFail
<1> QED BY <1>1 DEF Frame, Same, TypeOK

\* A child that is set to itself changes nothing.
LEMMA SameChild ==
  ASSUME TypeOK, NEW l \in Launches
  PROVE  /\ child = [child EXCEPT ![l] = child[l]]
         /\ jobs = [jobs EXCEPT ![l] = jobs[l]]
BY DEF TypeOK

\* A launch of an earlier process takes no step.
LEMMA StepsAreConsistent ==
  ASSUME IInv, NEW l \in Launches, ChildStep(l)
  PROVE  Consistent(child[l], jobs[l])
<1> SUFFICES ASSUME Past(child[l], jobs[l]) PROVE FALSE
  BY DEF IInv, Lawful
<1>1. /\ child[l].pc = "ended" /\ child[l].stop = "none" /\ ~child[l].handle
      /\ child[l].startup = "none" /\ child[l].cleanup = "none"
      /\ child[l].abort = "none" /\ child[l].disposal = "none"
      /\ Known(jobs[l])
  BY DEF Past, PastChild, NoChild, LeftJob
<1> QED BY <1>1 DEF ChildStep, StartupEnds, LaunchStep, AbortEnds, CleanupEnds,
   DisposalEnds, StopStep, Reserve, Launch, LaunchRefused, StartupResolves,
   StartupRejects, StartupMismatched, LaunchCreated, LaunchMaterialized,
   LaunchFails, LaunchStopped, MaterializationFails, FailedLaunchCleaned,
   FailedLaunchAborted, FailedLaunchSettled, FailedLaunchDisposed, Settle,
   AbortSucceeds, AbortFails, CleanupSucceeds, CleanupFails, DisposalSucceeds,
   DisposalFails, ToolEnd, StopStartupResolved, StopStartupRejected,
   StopCleaned, StopAborted, StopSettled, StopDisposed, StopFinished

\* A step that leaves one child consistent with its job, and the others alone,
\* preserves the invariant.
LEMMA OneLaunchStep ==
  ASSUME IInv, NEW l \in Launches, Frame,
         NEW c \in Children, NEW j \in Jobs, Consistent(c, j),
         child' = [child EXCEPT ![l] = c],
         jobs' = [jobs EXCEPT ![l] = j]
  PROVE  IInv'
<1>1. TypeOK'
  BY DEF IInv, TypeOK, Frame
<1>2. \A k \in Launches : Lawful(child'[k], jobs'[k])
  BY DEF IInv, TypeOK, Lawful
<1> QED BY <1>1, <1>2 DEF IInv, Lawful, Past, LeftJob, Consistent,
      StartupConsistent, LaunchConsistent, OutcomeConsistent, ReleaseConsistent,
      HoldsResources, Running, Known

\* launch(), from the reservation to its return.
LEMMA LaunchPreserves ==
  ASSUME IInv, NEW l \in Launches,
         \/ Reserve(l) \/ Launch(l) \/ LaunchRefused(l) \/ StartupEnds(l)
         \/ LaunchCreated(l) \/ LaunchMaterialized(l)
  PROVE  IInv'
<1> DEFINE c == child[l]
           j == jobs[l]
<1>1. /\ TypeOK /\ c \in Children /\ j \in Jobs /\ Consistent(c, j)
      /\ scheduled \in BOOLEAN /\ faults \in 0 .. MaxFaults
  BY StepsAreConsistent DEF IInv, TypeOK, ChildStep, LaunchStep
<1>2. CASE Reserve(l)
  <2>1. Consistent(c, Reserved)
    BY <1>1, <1>2 DEF Reserve, Reserved, AbsentJob, Consistent,
       StartupConsistent, LaunchConsistent, OutcomeConsistent,
       ReleaseConsistent, HoldsResources, Running, Known, Children, Launching,
       Failing, LaunchPcs, RunningStatuses
  <2> QED
    BY <1>1, <1>2, <2>1, JobsClosed, SameChild, OneLaunchStep
       DEF Reserve, JobBecomes, Same, Frame
<1>3. CASE Launch(l)
  <2> DEFINE d == [c EXCEPT !.pc = "starting", !.owned = TRUE,
                            !.startup = "pending"]
  <2>1. d \in Children
    BY <1>1 DEF Children, LaunchPcs
  <2>2. Consistent(d, j)
    BY <1>1, <1>3 DEF Launch, Consistent, StartupConsistent, LaunchConsistent,
       OutcomeConsistent, ReleaseConsistent, HoldsResources, Running, Known,
       Children, Launching, Failing, RunningStatuses
  <2> QED
    BY <1>1, <1>3, <2>1, <2>2, SameChild, OneLaunchStep
       DEF Launch, Become, Same, Frame
<1>4. CASE LaunchRefused(l)
  <2> DEFINE d == [c EXCEPT !.pc = "threw"]
  <2>1. d \in Children
    BY <1>1 DEF Children, LaunchPcs
  <2>2. Consistent(d, PreMaterializationFailed(j))
    BY <1>1, <1>4 DEF LaunchRefused, PreMaterializationFailed, Consistent,
       StartupConsistent, LaunchConsistent, OutcomeConsistent,
       ReleaseConsistent, HoldsResources, Running, Known, Children, Jobs,
       Launching, Failing, RunningStatuses
  <2> QED
    BY <1>1, <1>4, <2>1, <2>2, JobsClosed, OneLaunchStep
       DEF LaunchRefused, Become, JobBecomes, Same, Frame
<1>5. CASE StartupResolves(l)
  <2> DEFINE d == [c EXCEPT !.pc = "started", !.startup = "resolved",
                            !.handle = TRUE]
  <2>1. d \in Children
    BY <1>1 DEF Children, LaunchPcs
  <2>2. Consistent(d, j)
    BY <1>1, <1>5 DEF StartupResolves, Consistent, StartupConsistent,
       LaunchConsistent, OutcomeConsistent, ReleaseConsistent, HoldsResources,
       Running, Known, Children, Launching, Failing, RunningStatuses
  <2> QED
    BY <1>1, <1>5, <2>1, <2>2, SameChild, OneLaunchStep
       DEF StartupResolves, Become, Same, Frame
<1>6. CASE StartupRejects(l)
  <2>1. PICK cleanup \in {"none", "needed"} :
          Become(l, [c EXCEPT !.pc = "rejected", !.startup = "rejected",
                              !.cleanup = cleanup])
    BY <1>6 DEF StartupRejects
  <2> DEFINE d == [c EXCEPT !.pc = "rejected", !.startup = "rejected",
                            !.cleanup = cleanup]
  <2>2. d \in Children
    <3>1. "rejected" \in LaunchPcs
      BY DEF LaunchPcs
    <3> QED BY <1>1, <3>1 DEF Children
  <2>3. Consistent(d, j)
    BY <1>1, <1>6 DEF StartupRejects, Consistent, StartupConsistent,
       LaunchConsistent, OutcomeConsistent, ReleaseConsistent, HoldsResources,
       Running, Known, Children, Launching, Failing, RunningStatuses
  <2>4. Frame /\ UNCHANGED jobs
    BY <1>1, <1>6, CanFailFrame DEF StartupRejects
  <2> HIDE DEF d
  <2> QED
    BY <1>1, <2>1, <2>2, <2>3, <2>4, SameChild, OneLaunchStep DEF Become, d
<1>7. CASE StartupMismatched(l)
  <2> DEFINE d == [c EXCEPT !.pc = "rejected", !.startup = "rejected",
                            !.handle = TRUE]
  <2>1. d \in Children
    BY <1>1 DEF Children, LaunchPcs
  <2>2. Consistent(d, j)
    BY <1>1, <1>7 DEF StartupMismatched, Consistent, StartupConsistent,
       LaunchConsistent, OutcomeConsistent, ReleaseConsistent, HoldsResources,
       Running, Known, Children, Launching, Failing, RunningStatuses
  <2>3. Frame /\ UNCHANGED jobs
    BY <1>1, <1>7, CanFailFrame DEF StartupMismatched
  <2>4. child' = [child EXCEPT ![l] = d]
    BY <1>7 DEF StartupMismatched, Become
  <2> HIDE DEF d
  <2> QED BY <1>1, <2>1, <2>2, <2>3, <2>4, SameChild, OneLaunchStep
<1>8. CASE LaunchCreated(l)
  <2> DEFINE d == [c EXCEPT !.pc = "materializing"]
             k == Created(j)
  <2>1. d \in Children /\ k \in Jobs
    BY <1>1, JobsClosed DEF Children, LaunchPcs
  <2>2. Consistent(d, k)
    BY <1>1, <1>8 DEF LaunchCreated, Created, Consistent, StartupConsistent,
       LaunchConsistent, OutcomeConsistent, ReleaseConsistent, HoldsResources,
       Running, Known, Children, Jobs, Launching, Failing, RunningStatuses
  <2>3. CASE IsStopping
    BY <1>1, <1>8, <2>1, <2>2, <2>3, StartAbortConsistent, OneLaunchStep
       DEF LaunchCreated, Become, JobBecomes, Same, Frame
  <2>4. CASE ~IsStopping
    BY <1>1, <1>8, <2>1, <2>2, <2>4, OneLaunchStep
       DEF LaunchCreated, Become, JobBecomes, Same, Frame
  <2> QED BY <2>3, <2>4
<1>9. CASE LaunchMaterialized(l)
  <2> DEFINE d == [c EXCEPT !.pc = "working", !.mat = "materialized"]
             k == Materialized(IF j.path THEN j ELSE Created(j))
  <2>1. d \in Children /\ k \in Jobs
    <3>1. "working" \in LaunchPcs
      BY DEF LaunchPcs
    <3>2. d \in Children
      BY <1>1, <3>1 DEF Children
    <3>3. k \in Jobs
      BY <1>1, JobsClosed
    <3> QED BY <3>2, <3>3
  <2>2. /\ StartupConsistent(d) /\ LaunchConsistent(d, k)
        /\ ReleaseConsistent(d, k)
    BY <1>1, <1>9 DEF LaunchMaterialized, Created, Materialized, Consistent,
       StartupConsistent, LaunchConsistent, OutcomeConsistent,
       ReleaseConsistent, HoldsResources, Running, Known, Children, Jobs,
       Launching, Failing, RunningStatuses
  <2>3. /\ d.settled <=> d.term # "none"
        /\ d.settled => d.handle
        /\ d.disposal # "none" => d.settled
        /\ d.disposal # "none" /\ d.mat = "pending" => k.supp
        /\ ~d.recorded /\ ~d.published
        /\ d.settled /\ d.mat = "materialized" /\ ~d.recorded =>
             d.owned \/ k.supp \/ ~HoldsResources(d)
    BY <1>1, <1>9 DEF LaunchMaterialized, Created, Materialized, Consistent,
       LaunchConsistent, OutcomeConsistent, ReleaseConsistent, Running, Known,
       Children, Jobs, Launching, RunningStatuses
  <2> HIDE DEF d, k
  <2>4. /\ RecordAndPublish(d, k) \in Children /\ RecordTerminal(d, k) \in Jobs
        /\ Consistent(RecordAndPublish(d, k), RecordTerminal(d, k))
    BY <2>1, <2>2, <2>3, RecordAndPublishConsistent
  <2>5. RecordAndPublish(d, k).mat = "materialized"
    BY <2>1 DEF RecordAndPublish, Children, d
  <2>6. /\ StartDisposal(RecordAndPublish(d, k)) \in Children
        /\ Consistent(StartDisposal(RecordAndPublish(d, k)),
                      RecordTerminal(d, k))
    BY <2>4, <2>5, StartDisposalConsistent
  <2>7. /\ child' = [child EXCEPT ![l] = StartDisposal(RecordAndPublish(d, k))]
        /\ jobs' = [jobs EXCEPT ![l] = RecordTerminal(d, k)]
        /\ Frame
    BY <1>1, <1>9
       DEF LaunchMaterialized, Become, JobBecomes, Same, Frame, d, k, Notifies
  <2> QED BY <2>4, <2>6, <2>7, OneLaunchStep
<1> QED
  BY <1>2, <1>3, <1>4, <1>5, <1>6, <1>7, <1>8, <1>9 DEF StartupEnds

\* The catch block of launch() and the cleanup steps after it.
LEMMA FailingLaunchPreserves ==
  ASSUME IInv, NEW l \in Launches,
         \/ LaunchFails(l) \/ LaunchStopped(l) \/ MaterializationFails(l)
         \/ FailedLaunchCleaned(l) \/ FailedLaunchAborted(l)
         \/ FailedLaunchSettled(l) \/ FailedLaunchDisposed(l)
  PROVE  IInv'
<1> DEFINE c == child[l]
           j == jobs[l]
<1>1. /\ TypeOK /\ c \in Children /\ j \in Jobs /\ Consistent(c, j)
      /\ scheduled \in BOOLEAN /\ faults \in 0 .. MaxFaults
  BY StepsAreConsistent DEF IInv, TypeOK, ChildStep, LaunchStep
<1>2. ASSUME c.pc \in {"rejected", "materializing"}, CatchLaunchFailure(l), Frame
      PROVE  IInv'
  <2> DEFINE d == [c EXCEPT !.pc = "fail_cleanup", !.mat = "failed"]
             k == PreMaterializationFailed(j)
  <2>1. d \in Children /\ k \in Jobs
    <3>1. "fail_cleanup" \in LaunchPcs
      BY DEF LaunchPcs
    <3>2. d \in Children
      BY <1>1, <3>1 DEF Children
    <3> QED BY <1>1, <3>2, JobsClosed
  <2>2. Consistent(d, k)
    BY <1>1, <1>2 DEF PreMaterializationFailed, Consistent, StartupConsistent,
       LaunchConsistent, OutcomeConsistent, ReleaseConsistent, HoldsResources,
       Running, Known, Children, Jobs, Launching, Failing, RunningStatuses
  <2>3. /\ child' = [child EXCEPT ![l] = StartCleanup(d)]
        /\ jobs' = [jobs EXCEPT ![l] = k]
    BY <1>2 DEF CatchLaunchFailure, Become, JobBecomes
  <2> HIDE DEF d, k
  <2>4. StartCleanup(d) \in Children /\ Consistent(StartCleanup(d), k)
    BY <2>1, <2>2, StartCleanupConsistent
  <2> QED BY <1>2, <2>1, <2>3, <2>4, OneLaunchStep
<1>3. CASE LaunchFails(l)
  <2>1. Frame
    BY <1>1, <1>3 DEF LaunchFails, CatchLaunchFailure, Frame, Same
  <2> QED BY <1>2, <1>3, <2>1 DEF LaunchFails
<1>4. CASE LaunchStopped(l)
  <2>1. Frame
    BY <1>1, <1>4 DEF LaunchStopped, CatchLaunchFailure, Frame, Same
  <2> QED BY <1>2, <1>4, <2>1 DEF LaunchStopped
<1>5. CASE MaterializationFails(l)
  <2>1. Frame
    BY <1>1, <1>5, CanFailFrame DEF MaterializationFails, CatchLaunchFailure
  <2> QED BY <1>2, <1>5, <2>1 DEF MaterializationFails
<1>6. CASE FailedLaunchCleaned(l)
  <2>1. Frame /\ UNCHANGED jobs
    BY <1>1, <1>6 DEF FailedLaunchCleaned, Frame, Same
  <2>2. CASE c.handle
    <3> DEFINE d == [c EXCEPT !.pc = "fail_abort"]
    <3>1. d \in Children
      BY <1>1 DEF Children, LaunchPcs
    <3>2. Consistent(d, j)
      BY <1>1, <1>6 DEF FailedLaunchCleaned, Consistent, StartupConsistent,
         LaunchConsistent, OutcomeConsistent, ReleaseConsistent,
         HoldsResources, Children, Launching, Failing
    <3>3. child' = [child EXCEPT ![l] = StartAbort(d)]
      BY <1>6, <2>2 DEF FailedLaunchCleaned, Become
    <3> HIDE DEF d
    <3> QED
      BY <1>1, <2>1, <3>1, <3>2, <3>3, StartAbortConsistent, SameChild,
         OneLaunchStep
  <2>3. CASE ~c.handle
    <3>1. child' = [child EXCEPT ![l] = Thrown(c)] /\ c.pc \in Failing
      BY <1>6, <2>3 DEF FailedLaunchCleaned, Become, Failing
    <3> QED
      BY <1>1, <2>1, <3>1, ThrownConsistent, SameChild, OneLaunchStep
  <2> QED BY <2>2, <2>3
<1>7. CASE FailedLaunchAborted(l)
  <2> DEFINE d == [c EXCEPT !.pc = "fail_settle"]
  <2>1. Frame /\ UNCHANGED jobs
    BY <1>1, <1>7 DEF FailedLaunchAborted, Frame, Same
  <2>2. d \in Children
    BY <1>1 DEF Children, LaunchPcs
  <2>3. Consistent(d, j)
    BY <1>1, <1>7 DEF FailedLaunchAborted, Consistent, StartupConsistent,
       LaunchConsistent, OutcomeConsistent, ReleaseConsistent,
       HoldsResources, Children, Launching, Failing
  <2>4. child' = [child EXCEPT ![l] = d]
    BY <1>7 DEF FailedLaunchAborted, Become
  <2> HIDE DEF d
  <2> QED BY <1>1, <2>1, <2>2, <2>3, <2>4, SameChild, OneLaunchStep
<1>8. CASE FailedLaunchSettled(l)
  <2> DEFINE d == [c EXCEPT !.pc = "fail_dispose"]
  <2>1. Frame /\ UNCHANGED jobs
    BY <1>1, <1>8 DEF FailedLaunchSettled, Frame, Same
  <2>2. d \in Children
    BY <1>1 DEF Children, LaunchPcs
  <2>3. Consistent(d, j) /\ d.mat # "pending"
    BY <1>1, <1>8 DEF FailedLaunchSettled, Consistent, StartupConsistent,
       LaunchConsistent, OutcomeConsistent, ReleaseConsistent,
       HoldsResources, Children, Launching, Failing
  <2>4. child' = [child EXCEPT ![l] = StartDisposal(d)]
    BY <1>8 DEF FailedLaunchSettled, Become
  <2> HIDE DEF d
  <2> QED
    BY <1>1, <2>1, <2>2, <2>3, <2>4, StartDisposalConsistent, SameChild,
       OneLaunchStep
<1>9. CASE FailedLaunchDisposed(l)
  <2>1. Frame /\ UNCHANGED jobs
    BY <1>1, <1>9 DEF FailedLaunchDisposed, Frame, Same
  <2>2. child' = [child EXCEPT ![l] = Thrown(c)] /\ c.pc \in Failing
    BY <1>9 DEF FailedLaunchDisposed, Become, Failing
  <2> QED BY <1>1, <2>1, <2>2, ThrownConsistent, SameChild, OneLaunchStep
<1> QED BY <1>3, <1>4, <1>5, <1>6, <1>7, <1>8, <1>9

\* What a child and its cleanups report.
LEMMA ReportPreserves ==
  ASSUME IInv, NEW l \in Launches,
         \/ Settle(l) \/ AbortEnds(l) \/ CleanupEnds(l) \/ DisposalEnds(l)
  PROVE  IInv'
<1> DEFINE c == child[l]
           j == jobs[l]
<1>1. /\ TypeOK /\ c \in Children /\ j \in Jobs /\ Consistent(c, j)
      /\ scheduled \in BOOLEAN /\ faults \in 0 .. MaxFaults
  BY StepsAreConsistent DEF IInv, TypeOK, ChildStep, LaunchStep
<1>2. CASE Settle(l)
  <2>1. PICK result \in TerminalStatuses :
          LET d == [c EXCEPT !.settled = TRUE,
                             !.term = IF c.forced THEN "error" ELSE result]
              p == RecordAndPublish(d, j)
          IN  /\ JobBecomes(l, RecordTerminal(d, j))
              /\ Become(l, IF d.mat = "pending" THEN p ELSE StartDisposal(p))
              /\ scheduled' = (scheduled \/ Notifies(d, j))
    BY <1>2 DEF Settle
  <2> DEFINE outcome == IF c.forced THEN "error" ELSE result
             d == [c EXCEPT !.settled = TRUE, !.term = outcome]
             p == RecordAndPublish(d, j)
             k == RecordTerminal(d, j)
             e == IF d.mat = "pending" THEN p ELSE StartDisposal(p)
  <2>2. /\ jobs' = [jobs EXCEPT ![l] = k]
        /\ child' = [child EXCEPT ![l] = e]
        /\ Frame
    BY <1>1, <1>2, <2>1 DEF Settle, JobBecomes, Become, Same, Frame, Notifies
  <2>3. outcome \in Outcomes \ {"none"}
    BY DEF Outcomes, TerminalStatuses
  <2> HIDE DEF outcome
  <2>4. d \in Children
    BY <1>1, <2>3 DEF Children
  <2>5. /\ StartupConsistent(d) /\ LaunchConsistent(d, j)
        /\ ReleaseConsistent(d, j)
    BY <1>1, <1>2 DEF Settle, Consistent, StartupConsistent, LaunchConsistent,
       OutcomeConsistent, ReleaseConsistent, HoldsResources, Children,
       Launching, Failing
  <2>6. /\ d.settled <=> d.term # "none"
        /\ d.settled => d.handle
        /\ d.disposal # "none" => d.settled
        /\ d.disposal # "none" /\ d.mat = "pending" => j.supp
        /\ ~d.recorded /\ ~d.published
        /\ d.owned \/ ~HoldsResources(d)
    BY <1>1, <1>2, <2>3 DEF Settle, Consistent, StartupConsistent,
       OutcomeConsistent, ReleaseConsistent, HoldsResources, Children
  <2>7. p.mat = d.mat
    BY <2>4 DEF RecordAndPublish, Children
  <2>8. d.mat = "pending" \/ d.mat # "pending"
    OBVIOUS
  <2> HIDE DEF d
  <2>9. p \in Children /\ k \in Jobs /\ Consistent(p, k)
    BY <1>1, <2>4, <2>5, <2>6, RecordAndPublishConsistent
  <2> HIDE DEF p, k
  <2>10. e \in Children /\ Consistent(e, k)
    BY <2>7, <2>9, StartDisposalConsistent
  <2> HIDE DEF e
  <2> QED BY <2>2, <2>9, <2>10, OneLaunchStep
<1>3. CASE AbortSucceeds(l)
  <2> DEFINE d == [c EXCEPT !.abort = "done", !.failed = @ \ {"abort"}]
  <2>1. Frame /\ UNCHANGED jobs
    BY <1>1, <1>3 DEF AbortSucceeds, Frame, Same
  <2>2. d \in Children
    <3>1. \A x \in SUBSET {"abort", "dispose", "startup"} :
            [c EXCEPT !.abort = "done", !.failed = x] \in Children
      BY <1>1 DEF Children
    <3>2. c.failed \ {"abort"} \in SUBSET {"abort", "dispose", "startup"}
      BY <1>1 DEF Children
    <3> QED BY <3>1, <3>2
  <2>3. Consistent(d, j)
    BY <1>1, <1>3 DEF AbortSucceeds, Consistent, StartupConsistent,
       LaunchConsistent, OutcomeConsistent, ReleaseConsistent, HoldsResources,
       Children, Launching, Failing
  <2>4. child' = [child EXCEPT ![l] = d]
    BY <1>3 DEF AbortSucceeds, Become
  <2> HIDE DEF d
  <2> QED BY <1>1, <2>1, <2>2, <2>3, <2>4, SameChild, OneLaunchStep
<1>4. CASE AbortFails(l)
  <2> DEFINE d == [c EXCEPT !.abort = "none"]
             f == Fails(d, "abort", "fail_abort", "abort")
  <2>1. Frame /\ UNCHANGED jobs
    BY <1>1, <1>4, CanFailFrame DEF AbortFails
  <2>2. d \in Children
    BY <1>1 DEF Children
  <2>3. Consistent(d, j)
    BY <1>1, <1>4 DEF AbortFails, Consistent, StartupConsistent,
       LaunchConsistent, OutcomeConsistent, ReleaseConsistent, HoldsResources,
       Children, Launching, Failing
  <2>4. child' = [child EXCEPT ![l] = f]
    BY <1>4 DEF AbortFails, Become
  <2>5. /\ "abort" \in {"abort", "dispose", "startup"}
        /\ "fail_abort" \in Failing /\ "abort" \in StopPcs \ {"none"}
    BY DEF Failing, StopPcs
  <2> HIDE DEF d
  <2>6. f \in Children /\ Consistent(f, j)
    BY <1>1, <2>2, <2>3, <2>5, FailsConsistent
  <2> HIDE DEF f
  <2> QED BY <1>1, <2>1, <2>4, <2>6, SameChild, OneLaunchStep
<1>5. CASE CleanupSucceeds(l)
  <2> DEFINE d == [c EXCEPT !.cleanup = "done", !.failed = @ \ {"startup"}]
  <2>1. Frame /\ UNCHANGED jobs
    BY <1>1, <1>5 DEF CleanupSucceeds, Frame, Same
  <2>2. d \in Children
    <3>1. \A x \in SUBSET {"abort", "dispose", "startup"} :
            [c EXCEPT !.cleanup = "done", !.failed = x] \in Children
      BY <1>1 DEF Children
    <3>2. c.failed \ {"startup"} \in SUBSET {"abort", "dispose", "startup"}
      BY <1>1 DEF Children
    <3> QED BY <3>1, <3>2
  <2>3. Consistent(d, j)
    BY <1>1, <1>5 DEF CleanupSucceeds, Consistent, StartupConsistent,
       LaunchConsistent, OutcomeConsistent, ReleaseConsistent, HoldsResources,
       Children, Launching, Failing
  <2>4. child' = [child EXCEPT ![l] = d]
    BY <1>5 DEF CleanupSucceeds, Become
  <2> HIDE DEF d
  <2> QED BY <1>1, <2>1, <2>2, <2>3, <2>4, SameChild, OneLaunchStep
<1>6. CASE CleanupFails(l)
  <2> DEFINE d == [c EXCEPT !.cleanup = "needed"]
             f == Fails(d, "startup", "fail_cleanup", "cleanup")
  <2>1. Frame /\ UNCHANGED jobs
    BY <1>1, <1>6, CanFailFrame DEF CleanupFails
  <2>2. d \in Children
    BY <1>1 DEF Children
  <2>3. Consistent(d, j)
    BY <1>1, <1>6 DEF CleanupFails, Consistent, StartupConsistent,
       LaunchConsistent, OutcomeConsistent, ReleaseConsistent, HoldsResources,
       Children, Launching, Failing
  <2>4. child' = [child EXCEPT ![l] = f]
    BY <1>6 DEF CleanupFails, Become
  <2>5. /\ "startup" \in {"abort", "dispose", "startup"}
        /\ "fail_cleanup" \in Failing /\ "cleanup" \in StopPcs \ {"none"}
    BY DEF Failing, StopPcs
  <2> HIDE DEF d
  <2>6. f \in Children /\ Consistent(f, j)
    BY <1>1, <2>2, <2>3, <2>5, FailsConsistent
  <2> HIDE DEF f
  <2> QED BY <1>1, <2>1, <2>4, <2>6, SameChild, OneLaunchStep
<1>7. CASE DisposalSucceeds(l)
  <2> DEFINE d == [c EXCEPT !.disposal = "done", !.failed = @ \ {"dispose"}]
  <2>1. Frame
    BY <1>1, <1>7 DEF DisposalSucceeds, Frame, Same
  <2>2. d \in Children
    <3>1. \A x \in SUBSET {"abort", "dispose", "startup"} :
            [c EXCEPT !.disposal = "done", !.failed = x] \in Children
      BY <1>1 DEF Children
    <3>2. c.failed \ {"dispose"} \in SUBSET {"abort", "dispose", "startup"}
      BY <1>1 DEF Children
    <3> QED BY <3>1, <3>2
  <2>3. Consistent(d, j)
    BY <1>1, <1>7 DEF DisposalSucceeds, Consistent, StartupConsistent,
       LaunchConsistent, OutcomeConsistent, ReleaseConsistent, HoldsResources,
       Children, Launching, Failing
  <2>4. /\ child' = [child EXCEPT ![l] = RemoveIfFinished(d)]
        /\ jobs' = [jobs EXCEPT ![l] = SuppressIfFinished(d, j)]
    BY <1>7 DEF DisposalSucceeds, Become, JobBecomes
  <2> HIDE DEF d
  <2> QED
    BY <1>1, <2>1, <2>2, <2>3, <2>4, RemoveIfFinishedConsistent, OneLaunchStep
<1>8. CASE DisposalFails(l)
  <2> DEFINE d == [c EXCEPT !.disposal = "none"]
             f == Fails(d, "dispose", "fail_dispose", "dispose")
  <2>1. Frame /\ UNCHANGED jobs
    BY <1>1, <1>8, CanFailFrame DEF DisposalFails
  <2>2. d \in Children
    BY <1>1 DEF Children
  <2>3. Consistent(d, j)
    BY <1>1, <1>8 DEF DisposalFails, Consistent, StartupConsistent,
       LaunchConsistent, OutcomeConsistent, ReleaseConsistent, HoldsResources,
       Children, Launching, Failing
  <2>4. child' = [child EXCEPT ![l] = f]
    BY <1>8 DEF DisposalFails, Become
  <2>5. /\ "dispose" \in {"abort", "dispose", "startup"}
        /\ "fail_dispose" \in Failing /\ "dispose" \in StopPcs \ {"none"}
    BY DEF Failing, StopPcs
  <2> HIDE DEF d
  <2>6. f \in Children /\ Consistent(f, j)
    BY <1>1, <2>2, <2>3, <2>5, FailsConsistent
  <2> HIDE DEF f
  <2> QED BY <1>1, <2>1, <2>4, <2>6, SameChild, OneLaunchStep
<1> QED
  BY <1>2, <1>3, <1>4, <1>5, <1>6, <1>7, <1>8
     DEF AbortEnds, CleanupEnds, DisposalEnds

\* The parent's tool call ends: the launch is acknowledged, unless a stop
\* suppressed it or the supervisor is disposed.
LEMMA ToolEndPreserves ==
  ASSUME IInv, NEW l \in Launches, ToolEnd(l)
  PROVE  IInv'
<1> DEFINE c == child[l]
           j == jobs[l]
           d == [c EXCEPT !.pc = "ended"]
           k == IF j.path /\ j.st # "pre_materialization_failed"
                  THEN LaunchAcknowledged(j) ELSE j
           heard == ~disposed /\ ~j.ack /\ ~j.supp
           done == RecordAndPublish(d, k)
           recorded == RecordTerminal(d, k)
<1>1. /\ TypeOK /\ c \in Children /\ j \in Jobs /\ Consistent(c, j)
      /\ scheduled \in BOOLEAN /\ disposed \in BOOLEAN
      /\ faults \in 0 .. MaxFaults
  BY StepsAreConsistent DEF IInv, TypeOK, ChildStep
<1>2. Frame
  <2>1. scheduled' \in BOOLEAN
    BY <1>1 DEF ToolEnd
  <2> QED BY <1>1, <2>1 DEF ToolEnd, Frame, Same
<1>3. d \in Children /\ k \in Jobs
  BY <1>1, JobsClosed DEF Children, LaunchPcs
<1>4. CASE ~heard
  <2>1. Consistent(d, j)
    BY <1>1 DEF ToolEnd, Consistent, StartupConsistent, LaunchConsistent,
       OutcomeConsistent, ReleaseConsistent, HoldsResources, Children,
       Launching, Failing
  <2>2. child' = [child EXCEPT ![l] = d] /\ UNCHANGED jobs
    BY <1>4 DEF ToolEnd, Become
  <2> HIDE DEF d
  <2> QED BY <1>1, <1>2, <1>3, <2>1, <2>2, SameChild, OneLaunchStep
<1>5. CASE heard
  <2>1. /\ StartupConsistent(d) /\ LaunchConsistent(d, k)
        /\ ReleaseConsistent(d, k)
    BY <1>1, <1>5 DEF ToolEnd, LaunchAcknowledged, Known, Consistent,
       StartupConsistent, LaunchConsistent, OutcomeConsistent,
       ReleaseConsistent, HoldsResources, Running, Children, Jobs, Outcomes,
       TerminalStatuses, RunningStatuses, Launching, Failing
  <2>2. /\ d.settled <=> d.term # "none"
        /\ d.settled => d.handle
        /\ d.disposal # "none" => d.settled
        /\ d.mat = "materialized"
        /\ d.recorded <=> d.settled
        /\ d.recorded => k.term = d.term
        /\ d.recorded /\ k.ack => k.st = d.term
        /\ ~d.published
    BY <1>1, <1>5 DEF ToolEnd, LaunchAcknowledged, Known, Consistent,
       LaunchConsistent, OutcomeConsistent, Children, Jobs
  <2>3. CASE c.owned
    <3>1. /\ child' = [child EXCEPT ![l] = RemoveIfFinished(done)]
          /\ jobs' = [jobs EXCEPT ![l] = SuppressIfFinished(done, recorded)]
      BY <1>5, <2>3 DEF ToolEnd, Become, JobBecomes
    <3> HIDE DEF d, k
    <3>2. /\ done \in Children /\ recorded \in Jobs
          /\ Consistent(done, recorded)
      BY <1>3, <2>1, <2>2, RecordAndPublishConsistent
    <3> HIDE DEF done, recorded
    <3> QED BY <1>2, <3>1, <3>2, RemoveIfFinishedConsistent, OneLaunchStep
  <2>4. CASE ~c.owned
    <3>1. child' = [child EXCEPT ![l] = d] /\ jobs' = [jobs EXCEPT ![l] = k]
      BY <1>5, <2>4 DEF ToolEnd, Become, JobBecomes
    <3>2. Consistent(d, k)
      <4> HIDE DEF d, k
      <4> QED BY <2>1, <2>2 DEF Consistent, OutcomeConsistent
    <3> HIDE DEF d, k
    <3> QED BY <1>2, <1>3, <3>1, <3>2, OneLaunchStep
  <2> QED BY <2>3, <2>4
<1> QED BY <1>4, <1>5

\* The callback stopAll runs for one child.
LEMMA StopStepPreserves ==
  ASSUME IInv, NEW l \in Launches, StopStep(l)
  PROVE  IInv'
<1> DEFINE c == child[l]
           j == jobs[l]
<1>1. /\ TypeOK /\ c \in Children /\ j \in Jobs /\ Consistent(c, j)
      /\ scheduled \in BOOLEAN /\ faults \in 0 .. MaxFaults
  BY StepsAreConsistent DEF IInv, TypeOK, ChildStep, LaunchStep
<1>2. CASE StopStartupResolved(l)
  <2> DEFINE d == [c EXCEPT !.stop = "abort"]
  <2>1. Frame /\ UNCHANGED jobs
    BY <1>1, <1>2 DEF StopStartupResolved, Frame, Same
  <2>2. d \in Children
    BY <1>1 DEF Children, StopPcs
  <2>3. Consistent(d, j)
    BY <1>1, <1>2 DEF StopStartupResolved, Consistent, StartupConsistent,
       LaunchConsistent, OutcomeConsistent, ReleaseConsistent, HoldsResources,
       Children, Launching, Failing, StopPcs
  <2>4. child' = [child EXCEPT ![l] = StartAbort(d)]
    BY <1>2 DEF StopStartupResolved, Become
  <2> HIDE DEF d
  <2> QED
    BY <1>1, <2>1, <2>2, <2>3, <2>4, StartAbortConsistent, SameChild,
       OneLaunchStep
<1>3. CASE StopStartupRejected(l)
  <2> DEFINE d == [c EXCEPT !.stop = "cleanup"]
  <2>1. Frame /\ UNCHANGED jobs
    BY <1>1, <1>3 DEF StopStartupRejected, Frame, Same
  <2>2. d \in Children
    BY <1>1 DEF Children, StopPcs
  <2>3. Consistent(d, j)
    BY <1>1, <1>3 DEF StopStartupRejected, Consistent, StartupConsistent,
       LaunchConsistent, OutcomeConsistent, ReleaseConsistent, HoldsResources,
       Children, Launching, Failing, StopPcs
  <2>4. child' = [child EXCEPT ![l] = StartCleanup(d)]
    BY <1>3 DEF StopStartupRejected, Become
  <2> HIDE DEF d
  <2> QED
    BY <1>1, <2>1, <2>2, <2>3, <2>4, StartCleanupConsistent, SameChild,
       OneLaunchStep
<1>4. CASE StopCleaned(l)
  <2> DEFINE d == [c EXCEPT !.stop = "finish"]
             e == IF c.handle THEN d ELSE Removed(d)
  <2>1. Frame /\ UNCHANGED jobs
    BY <1>1, <1>4 DEF StopCleaned, Frame, Same
  <2>2. d \in Children
    BY <1>1 DEF Children, StopPcs
  <2>3. e \in Children
    BY <2>2, RemovedChild
  <2>4. Consistent(e, j)
    BY <1>1, <1>4 DEF StopCleaned, Removed, Consistent, StartupConsistent,
       LaunchConsistent, OutcomeConsistent, ReleaseConsistent, HoldsResources,
       Running, Children, Launching, Failing, StopPcs
  <2>5. child' = [child EXCEPT ![l] = e]
    BY <1>4 DEF StopCleaned, Become
  <2> HIDE DEF e
  <2> QED BY <1>1, <2>1, <2>3, <2>4, <2>5, SameChild, OneLaunchStep
<1>5. CASE StopAborted(l)
  <2> DEFINE d == [c EXCEPT !.stop = "settle"]
  <2>1. Frame /\ UNCHANGED jobs
    BY <1>1, <1>5 DEF StopAborted, Frame, Same
  <2>2. d \in Children
    BY <1>1 DEF Children, StopPcs
  <2>3. Consistent(d, j)
    BY <1>1, <1>5 DEF StopAborted, Consistent, StartupConsistent,
       LaunchConsistent, OutcomeConsistent, ReleaseConsistent, HoldsResources,
       Children, Launching, Failing, StopPcs
  <2>4. child' = [child EXCEPT ![l] = d]
    BY <1>5 DEF StopAborted, Become
  <2> HIDE DEF d
  <2> QED
    BY <1>1, <2>1, <2>2, <2>3, <2>4, SameChild,
       OneLaunchStep
<1>6. CASE StopSettled(l)
  <2> DEFINE d == [c EXCEPT !.stop = "dispose"]
  <2>1. Frame /\ UNCHANGED jobs
    BY <1>1, <1>6 DEF StopSettled, Frame, Same
  <2>2. d \in Children
    BY <1>1 DEF Children, StopPcs
  <2>3. Consistent(d, j) /\ (d.mat = "pending" => j.supp)
    BY <1>1, <1>6 DEF StopSettled, Consistent, StartupConsistent,
       LaunchConsistent, OutcomeConsistent, ReleaseConsistent, HoldsResources,
       Children, Launching, Failing, StopPcs
  <2>4. child' = [child EXCEPT ![l] = StartDisposal(d)]
    BY <1>6 DEF StopSettled, Become
  <2> HIDE DEF d
  <2> QED
    BY <1>1, <2>1, <2>2, <2>3, <2>4, StartDisposalConsistent, SameChild,
       OneLaunchStep
<1>7. CASE StopDisposed(l)
  <2> DEFINE d == [c EXCEPT !.stop = "finish"]
             p == RecordAndPublish(d, j)
             recorded == RecordTerminal(d, j)
             k == SuppressIfFinished(p, recorded)
             r == RemoveIfFinished(p)
             e == IF r.owned /\ ~k.ack THEN Removed(r) ELSE r
  <2>1. Frame
    BY <1>1, <1>7 DEF StopDisposed, Frame, Same
  <2>2. child' = [child EXCEPT ![l] = e] /\ jobs' = [jobs EXCEPT ![l] = k]
    BY <1>7 DEF StopDisposed, Become, JobBecomes
  <2>3. d \in Children
    BY <1>1 DEF Children, StopPcs
  <2>4. Consistent(d, j) /\ d.disposal = "done" /\ (j.ack \/ j.supp)
    BY <1>1, <1>7 DEF StopDisposed, Consistent, StartupConsistent,
       LaunchConsistent, OutcomeConsistent, ReleaseConsistent, HoldsResources,
       Children, Launching, Failing, StopPcs
  <2> HIDE DEF d
  <2>5. p \in Children /\ recorded \in Jobs /\ Consistent(p, recorded)
    BY <1>1, <2>3, <2>4, RecordAndPublishConsistent
       DEF Consistent, OutcomeConsistent
  <2>6. p.disposal = "done" /\ recorded.ack = j.ack /\ recorded.supp = j.supp
    BY <1>1, <2>3, <2>4 DEF RecordAndPublish, RecordTerminal, Terminal, Known,
       Children, Jobs
  <2> HIDE DEF p, recorded
  <2>7. r \in Children /\ k \in Jobs /\ Consistent(r, k)
    BY <2>5, RemoveIfFinishedConsistent
  <2>8. r.disposal = "done" /\ (k.ack \/ k.supp)
    BY <2>4, <2>5, <2>6 DEF RemoveIfFinished, Removed, SuppressIfFinished,
       LaunchSuppressed, Known, Children, Jobs
  <2> HIDE DEF r, k
  <2>9. e \in Children
    BY <2>7, RemovedChild
  <2>10. Consistent(e, k)
    BY <2>7, <2>8 DEF Removed, Consistent, StartupConsistent, LaunchConsistent,
       OutcomeConsistent, ReleaseConsistent, HoldsResources, Running, Children
  <2> HIDE DEF e
  <2> QED BY <2>1, <2>2, <2>7, <2>9, <2>10, OneLaunchStep
<1>8. CASE StopFinished(l)
  <2> DEFINE d == [c EXCEPT !.stop = "done"]
  <2>1. Frame /\ UNCHANGED jobs
    BY <1>1, <1>8 DEF StopFinished, Frame, Same
  <2>2. d \in Children
    BY <1>1 DEF Children, StopPcs
  <2>3. Consistent(d, j)
    BY <1>1, <1>8 DEF StopFinished, Consistent, StartupConsistent,
       LaunchConsistent, OutcomeConsistent, ReleaseConsistent, HoldsResources,
       Children, Launching, Failing, StopPcs
  <2>4. child' = [child EXCEPT ![l] = d]
    BY <1>8 DEF StopFinished, Become
  <2> HIDE DEF d
  <2> QED
    BY <1>1, <2>1, <2>2, <2>3, <2>4, SameChild,
       OneLaunchStep
<1> QED
  BY <1>2, <1>3, <1>4, <1>5, <1>6, <1>7, <1>8 DEF StopStep

-----------------------------------------------------------------------------
(* The steps of the supervisor.                                            *)

\* A step that changes several children is judged child by child.
LEMMA EveryLaunchStep ==
  ASSUME TypeOK',
         \A l \in Launches : Lawful(child'[l], jobs'[l])
  PROVE  IInv'
BY DEF IInv, Lawful, Past, LeftJob, Consistent, StartupConsistent,
       LaunchConsistent, OutcomeConsistent, ReleaseConsistent, HoldsResources,
       Running, Known

\* The supervisor's flags are no part of what a child and its job agree on.
LEMMA ChildrenStand ==
  ASSUME IInv, TypeOK', UNCHANGED <<child, jobs>>
  PROVE  IInv'
BY EveryLaunchStep DEF IInv

\* The beginning of a stop forces an unpublished outcome to an error in the
\* child and in the journal alike, once the unacknowledged are suppressed.
LEMMA ForceErrorConsistent ==
  ASSUME NEW c \in Children, NEW j \in Jobs, Consistent(c, j), c.owned
  PROVE  LET d == [ForceError(c) EXCEPT !.stop = "startup"]
             k == ForceJobError(c, SuppressUnacknowledged(j))
         IN  d \in Children /\ k \in Jobs /\ Consistent(d, k)
<1> DEFINE d == [ForceError(c) EXCEPT !.stop = "startup"]
           i == SuppressUnacknowledged(j)
           k == ForceJobError(c, i)
<1>1. i \in Jobs
  BY JobsClosed DEF SuppressUnacknowledged
<1>2. k \in Jobs
  <2>1. "error" \in TerminalStatuses
    BY DEF TerminalStatuses
  <2> HIDE DEF i
  <2> QED BY <1>1, <2>1, JobsClosed DEF ForceJobError
<1>3. d \in Children
  <2>1. "startup" \in StopPcs /\ "error" \in Outcomes
    BY DEF StopPcs, Outcomes, TerminalStatuses
  <2>2. CASE c.published \/ c.term = "none"
    BY <2>1, <2>2 DEF ForceError, Children
  <2>3. CASE ~c.published /\ c.term # "none"
    BY <2>1, <2>3 DEF ForceError, Children
  <2> QED BY <2>2, <2>3
<1>4. StartupConsistent(d)
  BY DEF ForceError, Consistent, StartupConsistent, Children, StopPcs
<1>5. LaunchConsistent(d, k)
  BY DEF ForceError, ForceJobError, SuppressUnacknowledged, LaunchSuppressed,
     Terminal, Known, Consistent, StartupConsistent, LaunchConsistent,
     OutcomeConsistent, Children, Jobs, Launching, Failing, TerminalStatuses,
     Outcomes
<1>6. OutcomeConsistent(d, k)
  BY DEF ForceError, ForceJobError, SuppressUnacknowledged, LaunchSuppressed,
     Terminal, Known, Consistent, StartupConsistent, LaunchConsistent,
     OutcomeConsistent, Children, Jobs
<1>7. ReleaseConsistent(d, k)
  BY DEF ForceError, ReleaseConsistent, Children
<1> QED BY <1>2, <1>3, <1>4, <1>5, <1>6, <1>7 DEF Consistent

\* The beginning of a stop.
LEMMA BeginStopPreserves ==
  ASSUME IInv, NEW terminal \in BOOLEAN, BeginStop(terminal)
  PROVE  IInv'
<1>1. \A l \in Launches : child[l] \in Children /\ jobs[l] \in Jobs
                           /\ Lawful(child[l], jobs[l])
  BY DEF IInv, TypeOK
<1>2. ASSUME NEW l \in Launches
      PROVE  /\ child'[l] \in Children /\ jobs'[l] \in Jobs
             /\ Lawful(child'[l], jobs'[l])
  <2>1. CASE child[l].owned
    <3> DEFINE d == [ForceError(child[l]) EXCEPT !.stop = "startup"]
               k == ForceJobError(child[l], SuppressUnacknowledged(jobs[l]))
    <3>1. child'[l] = d /\ jobs'[l] = k
      BY <2>1 DEF BeginStop
    <3>2. Consistent(child[l], jobs[l])
      BY <1>1, <2>1 DEF Lawful, Past, PastChild, NoChild
    <3>3. d \in Children /\ k \in Jobs /\ Consistent(d, k)
      BY <1>1, <2>1, <3>2, ForceErrorConsistent
    <3> HIDE DEF d, k
    <3> QED BY <3>1, <3>3 DEF Lawful
  <2>2. CASE ~child[l].owned
    <3>1. child'[l] = child[l] /\ jobs'[l] = jobs[l]
      BY <2>2 DEF BeginStop
    <3> QED BY <1>1, <3>1
  <2> QED BY <2>1, <2>2
<1>3. TypeOK'
  <2>1. /\ child' \in [Launches -> Children]
        /\ jobs' \in [Launches -> Jobs]
    <3>1. /\ DOMAIN child' = Launches /\ child' = [l \in Launches |-> child'[l]]
          /\ DOMAIN jobs' = Launches /\ jobs' = [l \in Launches |-> jobs'[l]]
      BY DEF BeginStop
    <3> QED BY <1>2, <3>1
  <2>2. /\ closing' \in BOOLEAN /\ stopping' \in BOOLEAN
        /\ stopPhase' \in StopPhases
    BY DEF BeginStop, IInv, TypeOK, StopPhases
  <2> QED BY <2>1, <2>2 DEF BeginStop, IInv, TypeOK
<1> QED BY <1>2, <1>3, EveryLaunchStep

\* The end of a stop, whatever comes of it.
LEMMA ForgetStopPreserves ==
  ASSUME IInv, ForgetStop, UNCHANGED <<jobs, batches, disposed, scheduled, faults>>,
         ownerStopping' \in BOOLEAN, stopping' \in BOOLEAN, closing' \in BOOLEAN,
         stopPhase' \in StopPhases
  PROVE  IInv'
<1> DEFINE d(l) == [child[l] EXCEPT !.stop = "none"]
<1>1. ASSUME NEW l \in Launches
      PROVE  d(l) \in Children /\ Lawful(d(l), jobs[l])
  <2>1. child[l] \in Children /\ Lawful(child[l], jobs[l])
    BY DEF IInv, TypeOK
  <2>2. CASE Consistent(child[l], jobs[l])
    <3>1. d(l) \in Children /\ Consistent(d(l), jobs[l])
      BY <2>1, <2>2 DEF Consistent, StartupConsistent, LaunchConsistent,
         OutcomeConsistent, ReleaseConsistent, HoldsResources, Children, StopPcs
    <3> QED BY <3>1 DEF Lawful
  <2>3. CASE Past(child[l], jobs[l])
    <3>1. d(l) = child[l]
      BY <2>1, <2>3 DEF Past, PastChild, NoChild
    <3> QED BY <2>1, <3>1
  <2> QED BY <2>1, <2>2, <2>3 DEF Lawful
<1>2. child' = [l \in Launches |-> d(l)]
  BY DEF ForgetStop
<1> HIDE DEF d
<1>3. child' \in [Launches -> Children]
  BY <1>1, <1>2
<1>4. \A l \in Launches : Lawful(child'[l], jobs'[l])
  BY <1>1, <1>2
<1>5. TypeOK'
  BY <1>3 DEF IInv, TypeOK
<1> QED BY <1>4, <1>5, EveryLaunchStep

\* The steps of the supervisor itself.
LEMMA SupervisorStepPreserves ==
  ASSUME IInv,
         \/ RequestStop \/ CloseWhileStopping \/ StopChildrenDone
         \/ StopNotified \/ StopWaits(~HasRunningChildren)
         \/ Dispose(~HasRunningChildren)
  PROVE  IInv'
<1>1. TypeOK
  BY DEF IInv
<1>2. CASE RequestStop
  BY <1>1, <1>2, ChildrenStand DEF RequestStop, TypeOK
<1>3. CASE CloseWhileStopping
  BY <1>1, <1>3, ChildrenStand DEF CloseWhileStopping, TypeOK
<1>4. CASE StopChildrenDone
  BY <1>1, <1>4, ChildrenStand DEF StopChildrenDone, TypeOK, StopPhases
<1>5. CASE Dispose(~HasRunningChildren)
  BY <1>1, <1>5, ChildrenStand DEF Dispose, TypeOK
<1>6. ASSUME StopFails, UNCHANGED <<jobs, batches, disposed, scheduled, faults>>
      PROVE  IInv'
  BY <1>1, <1>6, ForgetStopPreserves DEF StopFails, TypeOK, StopPhases
<1>7. ASSUME StopSucceeds,
             UNCHANGED <<jobs, batches, disposed, scheduled, faults>>
      PROVE  IInv'
  <2>1. /\ ownerStopping' \in BOOLEAN /\ stopping' \in BOOLEAN
        /\ closing' \in BOOLEAN /\ stopPhase' \in StopPhases
    BY <1>1, <1>7 DEF StopSucceeds, TypeOK, StopPhases
  <2> QED BY <1>7, <2>1, ForgetStopPreserves DEF StopSucceeds
<1>8. CASE StopNotified
  <2>1. CASE stopPhase' = "waiting"
               /\ UNCHANGED <<child, ownerStopping, stopping, closing>>
    BY <1>1, <1>8, <2>1, ChildrenStand DEF StopNotified, TypeOK, StopPhases
  <2>2. \/ StopFails \/ StopSucceeds
        \/ stopPhase' = "waiting"
             /\ UNCHANGED <<child, ownerStopping, stopping, closing>>
    BY <1>8 DEF StopNotified, ConcludeStop
  <2>3. UNCHANGED <<jobs, batches, disposed, scheduled, faults>>
    BY <1>8 DEF StopNotified
  <2> QED BY <1>6, <1>7, <2>1, <2>2, <2>3
<1>9. CASE StopWaits(~HasRunningChildren)
  <2>1. UNCHANGED <<jobs, batches, disposed, scheduled, faults>>
    BY <1>9 DEF StopWaits
  <2>2. StopFails \/ StopSucceeds
    BY <1>9 DEF StopWaits
  <2> QED BY <1>6, <1>7, <2>1, <2>2
<1> QED BY <1>2, <1>3, <1>4, <1>5, <1>8, <1>9

-----------------------------------------------------------------------------
(* The theorems.                                                           *)

\* Nothing is launched at first.
LEMMA InitIInv == Init => IInv
<1> SUFFICES ASSUME Init PROVE IInv
  OBVIOUS
<1>1. AbsentJob \in Jobs
  BY DEF AbsentJob, Jobs, Statuses, Outcomes
<1>2. UnusedBatch \in Batches
  BY DEF UnusedBatch, NoOutcome, Batches, Outcomes
<1>3. NoChild \in Children
  <2>1. {} \in SUBSET {"abort", "dispose", "startup"}
    OBVIOUS
  <2> QED BY <2>1 DEF NoChild, Children, LaunchPcs, StopPcs, Outcomes
<1>4. TypeOK
  <2>1. jobs \in [Launches -> Jobs]
    BY <1>1 DEF Init
  <2>2. batches \in [BatchIds -> Batches]
    BY <1>2 DEF Init
  <2>3. child \in [Launches -> Children]
    BY <1>3 DEF Init
  <2>4. faults \in 0 .. MaxFaults
    BY FaultsAssumption DEF Init
  <2> QED BY <2>1, <2>2, <2>3, <2>4 DEF Init, TypeOK, StopPhases
<1>5. Consistent(NoChild, AbsentJob)
  BY DEF NoChild, AbsentJob, Consistent, StartupConsistent, LaunchConsistent,
     OutcomeConsistent, ReleaseConsistent, Launching, Failing
<1> QED BY <1>4, <1>5 DEF Init, IInv, Lawful

\* Each step keeps the invariant.
LEMMA NextIInv == IInv /\ [Next]_childVars => IInv'
<1> SUFFICES ASSUME IInv, [Next]_childVars PROVE IInv'
  OBVIOUS
<1>1. CASE UNCHANGED childVars
  <2>1. TypeOK'
    BY <1>1 DEF IInv, TypeOK, childVars
  <2> QED BY <1>1, <2>1, ChildrenStand DEF childVars
<1>2. ASSUME NEW l \in Launches, ChildStep(l) PROVE IInv'
  <2>1. CASE \/ Reserve(l) \/ Launch(l) \/ LaunchRefused(l) \/ StartupEnds(l)
             \/ LaunchCreated(l) \/ LaunchMaterialized(l)
    BY <2>1, LaunchPreserves
  <2>2. CASE \/ LaunchFails(l) \/ LaunchStopped(l) \/ MaterializationFails(l)
             \/ FailedLaunchCleaned(l) \/ FailedLaunchAborted(l)
             \/ FailedLaunchSettled(l) \/ FailedLaunchDisposed(l)
    BY <2>2, FailingLaunchPreserves
  <2>3. CASE Settle(l) \/ AbortEnds(l) \/ CleanupEnds(l) \/ DisposalEnds(l)
    BY <2>3, ReportPreserves
  <2>4. CASE ToolEnd(l)
    BY <2>4, ToolEndPreserves
  <2>5. CASE StopStep(l)
    BY <2>5, StopStepPreserves
  <2> QED BY <1>2, <2>1, <2>2, <2>3, <2>4, <2>5 DEF ChildStep, LaunchStep
<1>3. ASSUME NEW terminal \in BOOLEAN, BeginStop(terminal) PROVE IInv'
  BY <1>3, BeginStopPreserves
<1>4. CASE \/ RequestStop \/ CloseWhileStopping \/ StopChildrenDone
           \/ StopNotified \/ StopWaits(~HasRunningChildren)
           \/ Dispose(~HasRunningChildren)
  BY <1>4, SupervisorStepPreserves
<1> QED BY <1>1, <1>2, <1>3, <1>4 DEF Next

\* Every reachable state satisfies the inductive invariant: each child agrees
\* with its job on how far the launch has got and on what came of it.
THEOREM ChildrenConsistent == Spec => []IInv
BY InitIInv, NextIInv, PTL DEF Spec

\* The supervisor's state keeps its type.
THEOREM TypeCorrect == Spec => []TypeOK
<1>1. IInv => TypeOK
  BY DEF IInv
<1> QED BY <1>1, ChildrenConsistent, PTL

\* However a child leaves the supervisor's map, its startup is over, its setup
\* is cleaned up and its session is disposed.
THEOREM NothingIsOrphaned == Spec => []NoOrphanedResources
<1>1. IInv => NoOrphanedResources
  BY DEF IInv, Lawful, NoOrphanedResources, Consistent, ReleaseConsistent, Past,
     PastChild, NoChild, HoldsResources
<1> QED BY <1>1, ChildrenConsistent, PTL

\* A published outcome is the journal's, and no later stop rewrites it.
THEOREM PublishedStays == Spec => []PublishedIsFinal
<1>1. IInv => PublishedIsFinal
  BY DEF IInv, Lawful, TypeOK, PublishedIsFinal, Consistent, LaunchConsistent,
     OutcomeConsistent, Past, PastChild, NoChild
<1> QED BY <1>1, ChildrenConsistent, PTL

\* A parent's acknowledgement and a stop's suppression exclude each other.
THEOREM NeverBoth == Spec => []AcknowledgedOrSuppressed
<1>1. IInv => AcknowledgedOrSuppressed
  BY DEF IInv, Lawful, AcknowledgedOrSuppressed, Consistent, LaunchConsistent,
     Past, LeftJob
<1> QED BY <1>1, ChildrenConsistent, PTL

\* The journal does not count a job as running once its child is let go of.
THEOREM ReleasedJobEnded == Spec => []ReleasedJobIsNotRunning
<1>1. IInv => ReleasedJobIsNotRunning
  BY DEF IInv, Lawful, ReleasedJobIsNotRunning, Consistent, ReleaseConsistent,
     Past
<1> QED BY <1>1, ChildrenConsistent, PTL

-----------------------------------------------------------------------------
(* What a stop leaves behind.                                              *)

Idle == stopPhase \in {"idle", "closed"}

\* While a stop runs, every owned child has a callback of it, and a callback
\* that is done has let its child go.
StopConsistent(c) ==
  /\ Idle => c.stop = "none"
  /\ ~Idle /\ c.owned => c.stop # "none"
  /\ c.stop = "done" => ~c.owned
  /\ stopPhase \in {"notify", "waiting"} =>
       c.stop \in {"none", "done", "rejected"}
  /\ stopPhase = "waiting" => c.stop # "rejected"

StopInv ==
  /\ ~Idle => stopping
  /\ \A l \in Launches : StopConsistent(child[l])

\* What a step of one child may do to its place in the supervisor and in the
\* current stop: leave the one, and go forward in the other.
Moves(c, d) ==
  /\ d.owned => c.owned
  /\ d.stop # c.stop =>
       c.stop \notin {"none", "done", "rejected"} /\ d.stop # "none"
  /\ d.stop = "done" => ~d.owned

\* A child that moves within its stop keeps the invariant of stops.
LEMMA MovePreservesStop ==
  ASSUME TypeOK, StopInv, NEW l \in Launches, NEW d,
         Moves(child[l], d), child' = [child EXCEPT ![l] = d],
         UNCHANGED <<stopPhase, stopping>>
  PROVE  StopInv'
BY DEF TypeOK, StopInv, StopConsistent, Idle, Moves

\* The operators that leave the child where it is.
LEMMA StaysPut ==
  ASSUME NEW c \in Children, NEW j
  PROVE  /\ StartAbort(c).owned = c.owned /\ StartAbort(c).stop = c.stop
         /\ StartDisposal(c).owned = c.owned /\ StartDisposal(c).stop = c.stop
         /\ StartCleanup(c).owned = c.owned /\ StartCleanup(c).stop = c.stop
         /\ RecordAndPublish(c, j) \in Children
         /\ RecordAndPublish(c, j).owned = c.owned
         /\ RecordAndPublish(c, j).stop = c.stop
<1>1. /\ StartAbort(c).owned = c.owned /\ StartAbort(c).stop = c.stop
      /\ StartDisposal(c).owned = c.owned /\ StartDisposal(c).stop = c.stop
      /\ StartCleanup(c).owned = c.owned /\ StartCleanup(c).stop = c.stop
  BY DEF StartAbort, StartDisposal, StartCleanup, Children
<1>2. RecordAndPublish(c, j) \in Children
  <2>1. /\ (c.recorded \/ RecordReady(c)) \in BOOLEAN
        /\ (c.published \/ PublishReady(c, j)) \in BOOLEAN
    OBVIOUS
  <2> QED BY <2>1 DEF RecordAndPublish, Children
<1>3. /\ RecordAndPublish(c, j).owned = c.owned
      /\ RecordAndPublish(c, j).stop = c.stop
  BY DEF RecordAndPublish, Children
<1> QED BY <1>1, <1>2, <1>3

\* The operators that may let go of it.
LEMMA LetsGo ==
  ASSUME NEW c \in Children, NEW cause, NEW launchPc, NEW stopPc
  PROVE  /\ RemoveIfFinished(c).owned => c.owned
         /\ RemoveIfFinished(c).stop = c.stop
         /\ Thrown(c).owned => c.owned
         /\ Thrown(c).stop = c.stop
         /\ Fails(c, cause, launchPc, stopPc).owned => c.owned
         /\ Fails(c, cause, launchPc, stopPc).stop =
              IF c.stop = stopPc THEN "rejected" ELSE c.stop
BY DEF RemoveIfFinished, Removed, Thrown, Fails, Children

\* No step of a child touches how far a stop has got.
LEMMA ChildStepKeepsFlags ==
  ASSUME NEW l \in Launches, ChildStep(l)
  PROVE  UNCHANGED <<stopPhase, stopping>>
BY DEF ChildStep, StartupEnds, LaunchStep, AbortEnds, CleanupEnds,
   DisposalEnds, StopStep, Reserve, Launch, LaunchRefused, StartupResolves,
   StartupRejects, StartupMismatched, LaunchCreated, LaunchMaterialized,
   CatchLaunchFailure, LaunchFails, LaunchStopped, MaterializationFails,
   FailedLaunchCleaned, FailedLaunchAborted, FailedLaunchSettled,
   FailedLaunchDisposed, Settle, AbortSucceeds, AbortFails, CleanupSucceeds,
   CleanupFails, DisposalSucceeds, DisposalFails, ToolEnd,
   StopStartupResolved, StopStartupRejected, StopCleaned, StopAborted,
   StopSettled, StopDisposed, StopFinished, Same

\* Every step of a child but a launch moves it within the stop.
LEMMA ChildStepPreservesStop ==
  ASSUME IInv, StopInv, NEW l \in Launches, ChildStep(l)
  PROVE  StopInv'
<1> DEFINE c == child[l]
           j == jobs[l]
<1>1. TypeOK /\ c \in Children /\ (c.pc = "none" => c.stop = "none")
  BY StepsAreConsistent DEF IInv, TypeOK, Consistent, StartupConsistent
<1>2. c.stop = "done" => ~c.owned
  BY DEF StopInv, StopConsistent
<1>3. UNCHANGED <<stopPhase, stopping>>
  BY ChildStepKeepsFlags
<1>4. CASE Launch(l)
  <2>1. Idle
    BY <1>4 DEF Launch, IsStopping, StopInv
  <2>2. child' = [child EXCEPT ![l] = [c EXCEPT !.pc = "starting",
                    !.owned = TRUE, !.startup = "pending"]]
    BY <1>4 DEF Launch, Become
  <2> QED
    BY <1>1, <1>3, <2>1, <2>2 DEF TypeOK, Children, StopInv, StopConsistent, Idle
<1>5. CASE Reserve(l)
  BY <1>3, <1>5 DEF Reserve, StopInv, StopConsistent, Idle
<1>6. ASSUME NEW d, Become(l, d), Moves(c, d)
      PROVE  StopInv'
  BY <1>1, <1>3, <1>6, MovePreservesStop DEF Become
<1>7. CASE LaunchRefused(l) \/ StartupEnds(l)
  BY <1>1, <1>2, <1>6, <1>7 DEF LaunchRefused, StartupEnds, StartupResolves,
     StartupRejects, StartupMismatched, Moves, Children
<1>8. CASE LaunchCreated(l)
  <2> DEFINE d == [c EXCEPT !.pc = "materializing"]
  <2>1. d \in Children /\ d.owned = c.owned /\ d.stop = c.stop
    <3>1. "materializing" \in LaunchPcs
      BY DEF LaunchPcs
    <3>2. d \in Children
      BY <1>1, <3>1 DEF Children
    <3> QED BY <1>1, <3>2 DEF Children
  <2>2. Become(l, d) \/ Become(l, StartAbort(d))
    BY <1>8 DEF LaunchCreated
  <2> HIDE DEF d
  <2> QED BY <1>2, <1>6, <2>1, <2>2, StaysPut DEF Moves
<1>9. CASE LaunchMaterialized(l)
  <2> DEFINE d == [c EXCEPT !.pc = "working", !.mat = "materialized"]
             k == Materialized(IF j.path THEN j ELSE Created(j))
  <2>1. d \in Children /\ d.owned = c.owned /\ d.stop = c.stop
    <3>1. "working" \in LaunchPcs
      BY DEF LaunchPcs
    <3>2. d \in Children
      BY <1>1, <3>1 DEF Children
    <3> QED BY <1>1, <3>2 DEF Children
  <2>2. Become(l, StartDisposal(RecordAndPublish(d, k)))
    BY <1>9 DEF LaunchMaterialized
  <2> HIDE DEF d, k
  <2> QED BY <1>2, <1>6, <2>1, <2>2, StaysPut DEF Moves
<1>10. CASE LaunchFails(l) \/ LaunchStopped(l) \/ MaterializationFails(l)
  <2> DEFINE d == [c EXCEPT !.pc = "fail_cleanup", !.mat = "failed"]
  <2>1. d \in Children /\ d.owned = c.owned /\ d.stop = c.stop
    <3>1. "fail_cleanup" \in LaunchPcs
      BY DEF LaunchPcs
    <3>2. d \in Children
      BY <1>1, <3>1 DEF Children
    <3> QED BY <1>1, <3>2 DEF Children
  <2>2. Become(l, StartCleanup(d))
    BY <1>10 DEF LaunchFails, LaunchStopped, MaterializationFails,
       CatchLaunchFailure
  <2> HIDE DEF d
  <2> QED BY <1>2, <1>6, <2>1, <2>2, StaysPut DEF Moves
<1>11. CASE FailedLaunchCleaned(l)
  <2> DEFINE d == [c EXCEPT !.pc = "fail_abort"]
  <2>1. d \in Children /\ d.owned = c.owned /\ d.stop = c.stop
    BY <1>1 DEF Children, LaunchPcs
  <2>2. Become(l, StartAbort(d)) \/ Become(l, Thrown(c))
    BY <1>11 DEF FailedLaunchCleaned
  <2> HIDE DEF d
  <2> QED BY <1>1, <1>2, <1>6, <2>1, <2>2, StaysPut, LetsGo DEF Moves
<1>12. CASE FailedLaunchAborted(l)
  BY <1>1, <1>2, <1>6, <1>12 DEF FailedLaunchAborted, Moves, Children
<1>13. CASE FailedLaunchSettled(l)
  <2> DEFINE d == [c EXCEPT !.pc = "fail_dispose"]
  <2>1. d \in Children /\ d.owned = c.owned /\ d.stop = c.stop
    BY <1>1 DEF Children, LaunchPcs
  <2>2. Become(l, StartDisposal(d))
    BY <1>13 DEF FailedLaunchSettled
  <2> HIDE DEF d
  <2> QED BY <1>2, <1>6, <2>1, <2>2, StaysPut DEF Moves
<1>14. CASE FailedLaunchDisposed(l)
  BY <1>1, <1>2, <1>6, <1>14, LetsGo DEF FailedLaunchDisposed, Moves
<1>15. CASE Settle(l)
  <2>1. PICK result \in TerminalStatuses :
          LET d == [c EXCEPT !.settled = TRUE,
                             !.term = IF c.forced THEN "error" ELSE result]
              p == RecordAndPublish(d, j)
          IN  Become(l, IF d.mat = "pending" THEN p ELSE StartDisposal(p))
    BY <1>15 DEF Settle
  <2> DEFINE d == [c EXCEPT !.settled = TRUE,
                            !.term = IF c.forced THEN "error" ELSE result]
             p == RecordAndPublish(d, j)
  <2>2. d \in Children /\ d.owned = c.owned /\ d.stop = c.stop
    BY <1>1 DEF Children, Outcomes, TerminalStatuses
  <2>3. Become(l, p) \/ Become(l, StartDisposal(p))
    BY <2>1
  <2> HIDE DEF d
  <2>4. p \in Children /\ p.owned = c.owned /\ p.stop = c.stop
    BY <2>2, StaysPut
  <2> HIDE DEF p
  <2> QED BY <1>2, <1>6, <2>3, <2>4, StaysPut DEF Moves
<1>16. CASE AbortSucceeds(l)
  BY <1>1, <1>2, <1>6, <1>16 DEF AbortSucceeds, Moves, Children
<1>17. CASE AbortFails(l)
  <2> DEFINE d == [c EXCEPT !.abort = "none"]
  <2>1. d \in Children /\ d.owned = c.owned /\ d.stop = c.stop
    BY <1>1 DEF Children
  <2>2. Become(l, Fails(d, "abort", "fail_abort", "abort"))
    BY <1>17 DEF AbortFails
  <2> HIDE DEF d
  <2> QED BY <1>2, <1>6, <2>1, <2>2, LetsGo DEF Moves
<1>18. CASE CleanupSucceeds(l)
  BY <1>1, <1>2, <1>6, <1>18 DEF CleanupSucceeds, Moves, Children
<1>19. CASE CleanupFails(l)
  <2> DEFINE d == [c EXCEPT !.cleanup = "needed"]
  <2>1. d \in Children /\ d.owned = c.owned /\ d.stop = c.stop
    BY <1>1 DEF Children
  <2>2. Become(l, Fails(d, "startup", "fail_cleanup", "cleanup"))
    BY <1>19 DEF CleanupFails
  <2> HIDE DEF d
  <2> QED BY <1>2, <1>6, <2>1, <2>2, LetsGo DEF Moves
<1>20. CASE DisposalSucceeds(l)
  <2> DEFINE d == [c EXCEPT !.disposal = "done", !.failed = @ \ {"dispose"}]
  <2>1. d \in Children /\ d.owned = c.owned /\ d.stop = c.stop
    <3>1. c.failed \ {"dispose"} \in SUBSET {"abort", "dispose", "startup"}
      BY <1>1 DEF Children
    <3> QED BY <1>1, <3>1 DEF Children
  <2>2. Become(l, RemoveIfFinished(d))
    BY <1>20 DEF DisposalSucceeds
  <2> HIDE DEF d
  <2> QED BY <1>2, <1>6, <2>1, <2>2, LetsGo DEF Moves
<1>21. CASE DisposalFails(l)
  <2> DEFINE d == [c EXCEPT !.disposal = "none"]
  <2>1. d \in Children /\ d.owned = c.owned /\ d.stop = c.stop
    BY <1>1 DEF Children
  <2>2. Become(l, Fails(d, "dispose", "fail_dispose", "dispose"))
    BY <1>21 DEF DisposalFails
  <2> HIDE DEF d
  <2> QED BY <1>2, <1>6, <2>1, <2>2, LetsGo DEF Moves
<1>22. CASE ToolEnd(l)
  <2> DEFINE d == [c EXCEPT !.pc = "ended"]
  <2>1. d \in Children /\ d.owned = c.owned /\ d.stop = c.stop
    BY <1>1 DEF Children, LaunchPcs
  <2>2. \/ Become(l, d)
        \/ \E k : Become(l, RemoveIfFinished(RecordAndPublish(d, k)))
    BY <1>22 DEF ToolEnd
  <2> HIDE DEF d
  <2> QED BY <1>2, <1>6, <2>1, <2>2, StaysPut, LetsGo DEF Moves
<1>23. CASE StopStartupResolved(l)
  <2> DEFINE d == [c EXCEPT !.stop = "abort"]
  <2>1. d \in Children /\ d.owned = c.owned /\ d.stop = "abort"
    BY <1>1 DEF Children, StopPcs
  <2>2. Become(l, StartAbort(d)) /\ c.stop \notin {"none", "done", "rejected"}
    BY <1>23 DEF StopStartupResolved
  <2> HIDE DEF d
  <2> QED BY <1>6, <2>1, <2>2, StaysPut DEF Moves
<1>24. CASE StopStartupRejected(l)
  <2> DEFINE d == [c EXCEPT !.stop = "cleanup"]
  <2>1. d \in Children /\ d.owned = c.owned /\ d.stop = "cleanup"
    BY <1>1 DEF Children, StopPcs
  <2>2. Become(l, StartCleanup(d)) /\ c.stop \notin {"none", "done", "rejected"}
    BY <1>24 DEF StopStartupRejected
  <2> HIDE DEF d
  <2> QED BY <1>6, <2>1, <2>2, StaysPut DEF Moves
<1>25. CASE StopCleaned(l)
  BY <1>1, <1>6, <1>25 DEF StopCleaned, Removed, Moves, Children
<1>26. CASE StopAborted(l)
  BY <1>1, <1>6, <1>26 DEF StopAborted, Moves, Children
<1>27. CASE StopSettled(l)
  <2> DEFINE d == [c EXCEPT !.stop = "dispose"]
  <2>1. d \in Children /\ d.owned = c.owned /\ d.stop = "dispose"
    BY <1>1 DEF Children, StopPcs
  <2>2. Become(l, StartDisposal(d)) /\ c.stop \notin {"none", "done", "rejected"}
    BY <1>27 DEF StopSettled
  <2> HIDE DEF d
  <2> QED BY <1>6, <2>1, <2>2, StaysPut DEF Moves
<1>28. CASE StopDisposed(l)
  <2> DEFINE d == [c EXCEPT !.stop = "finish"]
             p == RecordAndPublish(d, j)
             r == RemoveIfFinished(p)
  <2>1. d \in Children /\ d.owned = c.owned /\ d.stop = "finish"
    BY <1>1 DEF Children, StopPcs
  <2>2. /\ Become(l, r) \/ Become(l, Removed(r))
        /\ c.stop = "dispose"
    BY <1>28 DEF StopDisposed
  <2> HIDE DEF d
  <2>3. p \in Children /\ p.owned = c.owned /\ p.stop = "finish"
    BY <2>1, StaysPut
  <2> HIDE DEF p
  <2>4. /\ r \in Children /\ r.stop = "finish" /\ (r.owned => c.owned)
    BY <2>3, LetsGo, RemovedChild DEF RemoveIfFinished
  <2> HIDE DEF r
  <2>5. Removed(r).stop = "finish" /\ ~Removed(r).owned
    BY <2>4 DEF Removed, Children
  <2> QED BY <1>6, <2>2, <2>4, <2>5 DEF Moves
<1>29. CASE StopFinished(l)
  BY <1>1, <1>6, <1>29 DEF StopFinished, Moves, Children
<1> QED
  BY <1>4, <1>5, <1>7, <1>8, <1>9, <1>10, <1>11, <1>12, <1>13, <1>14, <1>15,
     <1>16, <1>17, <1>18, <1>19, <1>20, <1>21, <1>22, <1>23, <1>24, <1>25,
     <1>26, <1>27, <1>28, <1>29
     DEF ChildStep, LaunchStep, StopStep, AbortEnds, CleanupEnds, DisposalEnds

\* The steps of the supervisor itself.
LEMMA NextStopInv == IInv /\ StopInv /\ [Next]_childVars => StopInv'
<1> SUFFICES ASSUME IInv, StopInv, [Next]_childVars PROVE StopInv'
  OBVIOUS
<1>1. TypeOK
  BY DEF IInv
<1>2. CASE UNCHANGED childVars
  BY <1>2 DEF childVars, StopInv, StopConsistent, Idle
<1>3. ASSUME NEW l \in Launches, ChildStep(l) PROVE StopInv'
  BY <1>3, ChildStepPreservesStop
<1>4. CASE RequestStop \/ CloseWhileStopping \/ Dispose(~HasRunningChildren)
  BY <1>4 DEF RequestStop, CloseWhileStopping, Dispose, StopInv, StopConsistent,
     Idle
<1>5. ASSUME NEW terminal \in BOOLEAN, BeginStop(terminal) PROVE StopInv'
  <2>1. stopPhase = "idle" /\ stopPhase' = "children" /\ stopping'
    BY <1>5 DEF BeginStop
  <2>2. ASSUME NEW l \in Launches
        PROVE  child'[l].stop = IF child'[l].owned THEN "startup" ELSE "none"
    <3>1. child[l] \in Children /\ child[l].stop = "none"
      BY <1>1, <2>1 DEF TypeOK, StopInv, StopConsistent, Idle
    <3>2. child'[l] = IF child[l].owned
                       THEN [ForceError(child[l]) EXCEPT !.stop = "startup"]
                       ELSE child[l]
      BY <1>5 DEF BeginStop
    <3> QED BY <3>1, <3>2 DEF ForceError, Children
  <2> QED BY <2>1, <2>2 DEF StopInv, StopConsistent, Idle
<1>6. CASE StopChildrenDone
  BY <1>6 DEF StopChildrenDone, StopInv, StopConsistent, Idle
<1>7. ASSUME ForgetStop, stopPhase' \in {"idle", "closed"} PROVE StopInv'
  BY <1>1, <1>7 DEF ForgetStop, TypeOK, Children, StopInv, StopConsistent, Idle
<1>8. CASE StopNotified
  <2>1. CASE ~ChildStopFailed /\ stopPhase' = "waiting"
               /\ UNCHANGED <<child, stopping>>
    BY <1>8, <2>1 DEF StopNotified, ChildStopFailed, StopInv, StopConsistent,
       Idle
  <2>2. \/ ForgetStop /\ stopPhase' \in {"idle", "closed"}
        \/ ~ChildStopFailed /\ stopPhase' = "waiting"
             /\ UNCHANGED <<child, stopping>>
    BY <1>8 DEF StopNotified, ConcludeStop, StopFails, StopSucceeds
  <2> QED BY <1>7, <2>1, <2>2
<1>9. CASE StopWaits(~HasRunningChildren)
  BY <1>7, <1>9 DEF StopWaits, StopFails, StopSucceeds
<1> QED BY <1>2, <1>3, <1>4, <1>5, <1>6, <1>8, <1>9 DEF Next

\* A stop that resolves leaves no child behind, whatever was launched, failed
\* or finished while it ran.
THEOREM StopTakesDown == Spec => StopLeavesNoChild
<1>1. Init => StopInv
  BY DEF Init, NoChild, StopInv, StopConsistent, Idle
<1>2. IInv /\ StopInv /\ [Next]_childVars => [StopResolves => Owned = {}]_childVars
  <2> SUFFICES ASSUME IInv, StopInv, Next, StopResolves PROVE Owned = {}
    OBVIOUS
  <2>1. stopping /\ ~Idle
    BY DEF StopResolves, StopInv, Idle
  <2>2. ~ChildStopFailed
    <3>1. CASE stopPhase = "waiting"
      BY <3>1 DEF StopInv, StopConsistent, ChildStopFailed
    <3>2. CASE stopPhase = "notify"
      <4> SUFFICES ASSUME ChildStopFailed PROVE FALSE
        OBVIOUS
      <4>1. stopping' = stopping /\ stopPhase' # "closed"
        <5>1. ASSUME NEW l \in Launches, ChildStep(l)
              PROVE  UNCHANGED <<stopPhase, stopping>>
          BY <5>1, ChildStepKeepsFlags
        <5>2. CASE StopNotified
          BY <5>2 DEF StopNotified, ConcludeStop, StopFails
        <5> QED
          BY <2>1, <3>2, <5>1, <5>2 DEF Next, RequestStop, BeginStop,
             CloseWhileStopping, StopChildrenDone, StopWaits, Dispose, Idle
      <4> QED BY <2>1, <4>1 DEF StopResolves
    <3> QED BY <3>1, <3>2 DEF StopResolves
  <2>3. \A l \in Launches : ~child[l].owned
    BY <2>1, <2>2 DEF StopInv, StopConsistent, ChildStopFailed, StopResolves
  <2> QED BY <2>3 DEF Owned
<1> QED
  BY <1>1, <1>2, NextStopInv, ChildrenConsistent, PTL DEF Spec, StopLeavesNoChild

=============================================================================
