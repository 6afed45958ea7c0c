----------------------- MODULE SubagentSupervisorProofs -----------------------
(***************************************************************************)
(* Proofs about SubagentSupervisor, for every set of launches and every    *)
(* bound: each outcome is reported once and as the journal has it, the     *)
(* parent's log holds one message about a launch, and a batch that flushes *)
(* skip is on its way.                                                     *)
(*                                                                         *)
(* The inductive invariant, SupInv, has these parts besides the types and  *)
(* the invariant of the children:                                          *)
(*   ReportInv    what a child has come to is published before the journal *)
(*                offers it to a batch, and then stays what it is,         *)
(*   BatchInv     the batches and the launches they report,                *)
(*   LogInv       what is acknowledged is in the parent's log,             *)
(*   StoppingInv  the flags of a stop, the send lock and the parent's run, *)
(*   MailInv      where the message of each batch is.                      *)
(* All but the last, SupCore, hold without it: a session whose recovery    *)
(* could not read the parent's log no longer knows where its messages are, *)
(* and keeps the others (SubagentRecoveryProofs).  So each step is shown   *)
(* to keep SupCore, and to keep MailInv where that held.                   *)
(***************************************************************************)
EXTENDS SubagentSupervisor, SubagentChildrenProofs, FiniteSetTheorems,
        WellFoundedInduction

-----------------------------------------------------------------------------
(* The children's part: outcomes that can be reported are published.       *)

ReportConsistent(c, j) ==
  /\ ~j.recovered
  /\ c.pc = "none" => j.st \in {"absent", "reserved"}
  /\ c.mat = "materialized" => j.path
  /\ c.mat = "materialized" /\ ~j.ack => j.st = "working"
  /\ c.recorded /\ j.ack => c.published
  /\ j.term # "none" => c.recorded
  /\ j.st \in TerminalStatuses => c.recorded /\ j.ack

\* (A launch of an earlier process has nothing to publish any more.)
Reportable(c, j) == ReportConsistent(c, j) \/ c = PastChild

ReportInv == \A l \in Launches : Reportable(child[l], jobs[l])

\* What is published of a child is not taken back and not changed.
StaysPublished(c, d) == c.published => d.published /\ d.term = c.term

\* What an earlier process left of launch l is left alone.
StaysPast(l) ==
  child[l] = PastChild => child'[l] = child[l] /\ jobs'[l] = jobs[l]

ChildrenKeep ==
  /\ ReportInv'
  /\ \A l \in Launches : StaysPublished(child[l], child'[l]) /\ StaysPast(l)

\* The part of a child and of a job that reports depend on.
SameReport(c, d) ==
  /\ d.pc = "none" => c.pc = "none"
  /\ d.mat = c.mat
  /\ d.recorded = c.recorded
  /\ d.published = c.published
  /\ d.term = c.term

\* A step of one child and its job keeps what is published of the others.
LEMMA OneChildKeeps ==
  ASSUME TypeOK, ReportInv, NEW l \in Launches, NEW d, NEW k,
         child' = [child EXCEPT ![l] = d], jobs' = [jobs EXCEPT ![l] = k],
         child[l] # PastChild, ReportConsistent(d, k), StaysPublished(child[l], d)
  PROVE  ChildrenKeep
<1>1. ASSUME NEW m \in Launches
      PROVE  /\ Reportable(child'[m], jobs'[m])
             /\ StaysPublished(child[m], child'[m]) /\ StaysPast(m)
  <2>1. CASE m = l
    BY <2>1 DEF TypeOK, Reportable, StaysPast
  <2>2. CASE m # l
    <3>1. child'[m] = child[m] /\ jobs'[m] = jobs[m]
      BY <2>2 DEF TypeOK
    <3> QED BY <3>1 DEF ReportInv, StaysPublished, StaysPast
  <2> QED BY <2>1, <2>2
<1> QED BY <1>1 DEF ChildrenKeep, ReportInv, Reportable, ReportConsistent

\* The operators that leave a child's report alone.
LEMMA ReportUntouched ==
  ASSUME NEW c \in Children
  PROVE  /\ SameReport(c, StartAbort(c)) /\ SameReport(c, StartDisposal(c))
         /\ SameReport(c, StartCleanup(c)) /\ SameReport(c, RemoveIfFinished(c))
         /\ SameReport(c, Removed(c)) /\ SameReport(c, Thrown(c))
         /\ \A cause, launchPc, stopPc :
              SameReport(c, Fails(c, cause, launchPc, stopPc))
BY DEF SameReport, StartAbort, StartDisposal, StartCleanup, RemoveIfFinished,
   Removed, Thrown, Fails, Children

\* What does not touch the report of a child keeps it consistent.
LEMMA SameReportKeeps ==
  ASSUME NEW c, NEW d, NEW j, ReportConsistent(c, j), SameReport(c, d)
  PROVE  ReportConsistent(d, j) /\ StaysPublished(c, d)
BY DEF ReportConsistent, SameReport, StaysPublished

\* Recording and publishing together: an acknowledged outcome that is recorded
\* is published.
LEMMA RecordAndPublishReports ==
  ASSUME NEW c \in Children, NEW j \in Jobs, ~j.recovered, Known(j),
         c.mat = "materialized" /\ ~j.ack => j.st = "working",
         c.recorded => c.term # "none", j.term # "none" => c.recorded,
         j.st \in TerminalStatuses => c.recorded /\ j.ack,
         c.pc # "none", c.mat = "materialized" => j.path
  PROVE  /\ ReportConsistent(RecordAndPublish(c, j), RecordTerminal(c, j))
         /\ StaysPublished(c, RecordAndPublish(c, j))
BY DEF ReportConsistent, StaysPublished, RecordAndPublish, RecordTerminal,
   RecordReady, PublishReady, Terminal, Children, Jobs

\* A suppression is nothing a report depends on.
LEMMA SuppressReports ==
  ASSUME NEW c \in Children, NEW j \in Jobs, ReportConsistent(c, j)
  PROVE  /\ ReportConsistent(c, SuppressIfFinished(c, j))
         /\ ReportConsistent(c, SuppressUnacknowledged(j))
BY DEF ReportConsistent, SuppressIfFinished, SuppressUnacknowledged,
   LaunchSuppressed, Jobs

\* A step of one child keeps what can be reported: published outcomes stay,
\* and an outcome enters the journal and is published by the same call.
LEMMA ChildStepReports ==
  ASSUME IInv, ReportInv, NEW l \in Launches, ChildStep(l)
  PROVE  ChildrenKeep
<1> DEFINE c == child[l]
           j == jobs[l]
<1>1. /\ TypeOK /\ c \in Children /\ j \in Jobs /\ Consistent(c, j)
      /\ ReportConsistent(c, j) /\ c # PastChild
  <2>1. TypeOK /\ c \in Children /\ j \in Jobs
    BY DEF IInv, TypeOK
  <2>2. Consistent(c, j)
    BY StepsAreConsistent
  <2>3. c # PastChild
    BY <2>2 DEF Consistent, LaunchConsistent, PastChild, NoChild
  <2> QED BY <2>1, <2>2, <2>3 DEF ReportInv, Reportable
<1>2. ASSUME NEW d, SameReport(c, d), Become(l, d), UNCHANGED jobs
      PROVE  ChildrenKeep
  <2>1. jobs' = [jobs EXCEPT ![l] = j] /\ child' = [child EXCEPT ![l] = d]
    BY <1>1, <1>2, SameChild DEF Become
  <2>2. ReportConsistent(d, j) /\ StaysPublished(c, d)
    BY <1>1, <1>2, SameReportKeeps
  <2> QED BY <1>1, <2>1, <2>2, OneChildKeeps
<1>3. ASSUME NEW d, NEW k, Become(l, d), JobBecomes(l, k),
             ReportConsistent(d, k), StaysPublished(c, d)
      PROVE  ChildrenKeep
  <2>1. jobs' = [jobs EXCEPT ![l] = k] /\ child' = [child EXCEPT ![l] = d]
    BY <1>3 DEF Become, JobBecomes
  <2> QED BY <1>1, <1>3, <2>1, OneChildKeeps
<1>4. ASSUME NEW d, NEW e, Become(l, e), SameReport(c, d), SameReport(d, e),
             UNCHANGED jobs
      PROVE  ChildrenKeep
  <2>1. SameReport(c, e)
    BY <1>4 DEF SameReport
  <2> QED BY <1>2, <1>4, <2>1
<1>5. CASE Reserve(l)
  <2>1. UNCHANGED child /\ JobBecomes(l, Reserved) /\ ~Known(j)
    BY <1>5 DEF Reserve
  <2>2. Become(l, c)
    BY <1>1, <2>1, SameChild DEF Become
  <2>3. c.mat = "pending" /\ ~c.recorded
    BY <1>1, <2>1 DEF Consistent, StartupConsistent, LaunchConsistent,
       OutcomeConsistent, Children
  <2>4. ReportConsistent(c, Reserved) /\ StaysPublished(c, c)
    BY <1>1, <2>3 DEF ReportConsistent, StaysPublished, Reserved, AbsentJob,
       TerminalStatuses
  <2> QED BY <1>3, <2>1, <2>2, <2>4
<1>6. CASE Launch(l) \/ StartupResolves(l)
  <2>1. PICK d \in {[c EXCEPT !.pc = "starting", !.owned = TRUE, !.startup = "pending"],
                     [c EXCEPT !.pc = "started", !.startup = "resolved", !.handle = TRUE]} :
          UNCHANGED jobs /\ Become(l, d)
    BY <1>6 DEF Launch, StartupResolves
  <2>2. SameReport(c, d)
    BY <1>1, <2>1 DEF SameReport, Children
  <2> QED BY <1>2, <2>1, <2>2
<1>7. CASE StartupRejects(l) \/ StartupMismatched(l)
  <2>1. PICK d \in {[c EXCEPT !.pc = "rejected", !.startup = "rejected", !.cleanup = x] :
                       x \in {"none", "needed"}}
                    \cup {[c EXCEPT !.pc = "rejected", !.startup = "rejected",
                                    !.handle = TRUE]} :
          UNCHANGED jobs /\ Become(l, d)
    BY <1>7 DEF StartupRejects, StartupMismatched
  <2>2. SameReport(c, d)
    BY <1>1, <2>1 DEF SameReport, Children
  <2> QED BY <1>2, <2>1, <2>2
<1>8. CASE LaunchRefused(l)
  <2> DEFINE d == [c EXCEPT !.pc = "threw"]
             k == PreMaterializationFailed(j)
  <2>1. Become(l, d) /\ JobBecomes(l, k) /\ c.pc = "none"
    BY <1>8 DEF LaunchRefused
  <2>2. ReportConsistent(d, k) /\ StaysPublished(c, d)
    BY <1>1, <2>1 DEF ReportConsistent, StaysPublished, Consistent,
       StartupConsistent, OutcomeConsistent, PreMaterializationFailed, Children, Jobs,
       TerminalStatuses
  <2> QED BY <1>3, <2>1, <2>2
<1>9. CASE LaunchCreated(l)
  <2> DEFINE d == [c EXCEPT !.pc = "materializing"]
             k == Created(j)
  <2>1. (Become(l, d) \/ Become(l, StartAbort(d))) /\ JobBecomes(l, k)
        /\ c.pc = "started"
    BY <1>9 DEF LaunchCreated
  <2>2. d \in Children
    BY <1>1 DEF Children, LaunchPcs
  <2>3. ReportConsistent(d, k) /\ StaysPublished(c, d)
    BY <1>1, <2>1 DEF ReportConsistent, StaysPublished, Consistent,
       LaunchConsistent, OutcomeConsistent, Created, Children, Jobs, Launching,
       TerminalStatuses
  <2> HIDE DEF d, k
  <2>4. ReportConsistent(StartAbort(d), k) /\ StaysPublished(c, StartAbort(d))
    BY <2>2, <2>3, ReportUntouched, SameReportKeeps DEF StaysPublished
  <2> QED BY <1>3, <2>1, <2>3, <2>4
<1>10. CASE LaunchMaterialized(l)
  <2> DEFINE d == [c EXCEPT !.pc = "working", !.mat = "materialized"]
             i == IF j.path THEN j ELSE Created(j)
             k == Materialized(i)
             p == RecordAndPublish(d, k)
  <2>1. Become(l, StartDisposal(p)) /\ JobBecomes(l, RecordTerminal(d, k))
        /\ c.pc = "materializing"
    BY <1>10 DEF LaunchMaterialized
  <2>2. d \in Children
    BY <1>1 DEF Children, LaunchPcs
  <2>3. i \in Jobs /\ k \in Jobs
    BY <1>1, JobsClosed
  <2>4. Known(j) /\ ~j.ack /\ ~c.recorded /\ ~c.published /\ j.term = "none"
    BY <1>1, <2>1 DEF Consistent, LaunchConsistent, OutcomeConsistent,
       ReportConsistent, Children, Jobs, Launching
  <2>5. /\ Known(k) /\ k.st = "working" /\ ~k.ack /\ ~k.recovered
        /\ k.term = "none" /\ k.path
    BY <1>1, <2>4 DEF Known, Materialized, Created, ReportConsistent, Jobs
  <2>6. ~d.recorded /\ d.pc # "none"
    BY <1>1, <2>4 DEF Children
  <2> HIDE DEF d, k
  <2>7. ReportConsistent(p, RecordTerminal(d, k))
    BY <2>2, <2>3, <2>5, <2>6, RecordAndPublishReports DEF TerminalStatuses
  <2>8. p \in Children
    BY <2>2, StaysPut
  <2> HIDE DEF p
  <2>9. ReportConsistent(StartDisposal(p), RecordTerminal(d, k))
    BY <2>7, <2>8, ReportUntouched, SameReportKeeps
  <2>10. StaysPublished(c, StartDisposal(p))
    BY <2>4 DEF StaysPublished
  <2> QED BY <1>3, <2>1, <2>9, <2>10
<1>11. CASE LaunchFails(l) \/ LaunchStopped(l) \/ MaterializationFails(l)
  <2> DEFINE d == [c EXCEPT !.pc = "fail_cleanup", !.mat = "failed"]
             k == PreMaterializationFailed(j)
  <2>1. Become(l, StartCleanup(d)) /\ JobBecomes(l, k) /\ c.pc \in Launching
    BY <1>11 DEF LaunchFails, LaunchStopped, MaterializationFails,
       CatchLaunchFailure, Launching
  <2>2. d \in Children
    <3>1. "fail_cleanup" \in LaunchPcs
      BY DEF LaunchPcs
    <3> QED BY <1>1, <3>1 DEF Children
  <2>3. ReportConsistent(d, k) /\ StaysPublished(c, d)
    BY <1>1, <2>1 DEF ReportConsistent, StaysPublished, Consistent,
       LaunchConsistent, OutcomeConsistent, PreMaterializationFailed, Children, Jobs,
       TerminalStatuses
  <2> HIDE DEF d, k
  <2>4. ReportConsistent(StartCleanup(d), k) /\ StaysPublished(c, StartCleanup(d))
    BY <2>2, <2>3, ReportUntouched, SameReportKeeps DEF StaysPublished
  <2> QED BY <1>3, <2>1, <2>4
<1>12. CASE FailedLaunchCleaned(l)
  <2> DEFINE d == [c EXCEPT !.pc = "fail_abort"]
  <2>1. d \in Children /\ SameReport(c, d)
    BY <1>1 DEF Children, LaunchPcs, SameReport
  <2>2. (Become(l, StartAbort(d)) \/ Become(l, Thrown(c))) /\ UNCHANGED jobs
    BY <1>12 DEF FailedLaunchCleaned
  <2> HIDE DEF d
  <2>3. SameReport(c, Thrown(c)) /\ SameReport(d, StartAbort(d))
    BY <1>1, <2>1, ReportUntouched
  <2> QED BY <1>2, <1>4, <2>1, <2>2, <2>3
<1>13. CASE FailedLaunchAborted(l)
  <2>1. UNCHANGED jobs /\ \E d : Become(l, d) /\ SameReport(c, d)
    BY <1>1, <1>13 DEF FailedLaunchAborted, SameReport, Children
  <2> QED BY <1>2, <2>1
<1>14. CASE FailedLaunchSettled(l)
  <2> DEFINE d == [c EXCEPT !.pc = "fail_dispose"]
  <2>1. d \in Children /\ SameReport(c, d)
    BY <1>1 DEF Children, LaunchPcs, SameReport
  <2>2. Become(l, StartDisposal(d)) /\ UNCHANGED jobs
    BY <1>14 DEF FailedLaunchSettled
  <2> HIDE DEF d
  <2>3. SameReport(d, StartDisposal(d))
    BY <2>1, ReportUntouched
  <2> QED BY <1>4, <2>1, <2>2, <2>3
<1>15. CASE FailedLaunchDisposed(l)
  <2>1. Become(l, Thrown(c)) /\ UNCHANGED jobs
    BY <1>15 DEF FailedLaunchDisposed
  <2>2. SameReport(c, Thrown(c))
    BY <1>1, ReportUntouched
  <2> QED BY <1>2, <2>1, <2>2
<1>16. CASE Settle(l)
  <2>1. PICK result \in TerminalStatuses :
          LET d == [c EXCEPT !.settled = TRUE,
                             !.term = IF c.forced THEN "error" ELSE result]
              p == RecordAndPublish(d, j)
          IN  /\ JobBecomes(l, RecordTerminal(d, j))
              /\ Become(l, IF d.mat = "pending" THEN p ELSE StartDisposal(p))
    BY <1>16 DEF Settle
  <2> DEFINE d == [c EXCEPT !.settled = TRUE,
                            !.term = IF c.forced THEN "error" ELSE result]
             p == RecordAndPublish(d, j)
  <2>2. ~c.settled /\ c.handle
    BY <1>16 DEF Settle
  <2>3. d \in Children /\ d.mat = c.mat /\ d.recorded = c.recorded /\ d.pc = c.pc
    BY <1>1 DEF Children, Outcomes, TerminalStatuses
  <2>4. Known(j) /\ ~c.recorded /\ ~c.published /\ c.pc # "none"
    BY <1>1, <2>2 DEF Consistent, StartupConsistent, LaunchConsistent,
       OutcomeConsistent, Children
  <2>5. JobBecomes(l, RecordTerminal(d, j))
        /\ (Become(l, p) \/ Become(l, StartDisposal(p)))
    BY <2>1
  <2> HIDE DEF d
  <2>6. ReportConsistent(p, RecordTerminal(d, j)) /\ StaysPublished(c, p)
    BY <1>1, <2>3, <2>4, RecordAndPublishReports DEF ReportConsistent, StaysPublished
  <2>7. p \in Children
    BY <2>3, StaysPut
  <2> HIDE DEF p
  <2>8. /\ ReportConsistent(StartDisposal(p), RecordTerminal(d, j))
        /\ StaysPublished(c, StartDisposal(p))
    BY <2>4, <2>6, <2>7, ReportUntouched, SameReportKeeps DEF StaysPublished
  <2> QED BY <1>3, <2>5, <2>6, <2>8
<1>17. CASE AbortSucceeds(l) \/ CleanupSucceeds(l)
  <2>1. PICK d \in {[c EXCEPT !.abort = "done", !.failed = @ \ {"abort"}],
                     [c EXCEPT !.cleanup = "done", !.failed = @ \ {"startup"}]} :
          UNCHANGED jobs /\ Become(l, d)
    BY <1>17 DEF AbortSucceeds, CleanupSucceeds
  <2>2. SameReport(c, d)
    BY <1>1, <2>1 DEF SameReport, Children
  <2> QED BY <1>2, <2>1, <2>2
<1>18. CASE AbortFails(l) \/ CleanupFails(l) \/ DisposalFails(l)
  <2>1. PICK d \in {[c EXCEPT !.abort = "none"], [c EXCEPT !.cleanup = "needed"],
                     [c EXCEPT !.disposal = "none"]} :
          /\ UNCHANGED jobs
          /\ \E cause, launchPc, stopPc : Become(l, Fails(d, cause, launchPc, stopPc))
    BY <1>18 DEF AbortFails, CleanupFails, DisposalFails
  <2>2. d \in Children /\ SameReport(c, d)
    BY <1>1, <2>1 DEF Children, SameReport
  <2> QED BY <1>4, <2>1, <2>2, ReportUntouched
<1>19. CASE DisposalSucceeds(l)
  <2> DEFINE d == [c EXCEPT !.disposal = "done", !.failed = @ \ {"dispose"}]
             k == SuppressIfFinished(d, j)
  <2>1. d \in Children /\ SameReport(c, d)
    <3>1. c.failed \ {"dispose"} \in SUBSET {"abort", "dispose", "startup"}
      BY <1>1 DEF Children
    <3> QED BY <1>1, <3>1 DEF Children, SameReport
  <2>2. Become(l, RemoveIfFinished(d)) /\ JobBecomes(l, k)
    BY <1>19 DEF DisposalSucceeds
  <2> HIDE DEF d
  <2>3. ReportConsistent(d, k)
    BY <1>1, <2>1, SameReportKeeps, SuppressReports
  <2>4. ReportConsistent(RemoveIfFinished(d), k)
        /\ StaysPublished(c, RemoveIfFinished(d))
    BY <2>1, <2>3, ReportUntouched, SameReportKeeps DEF StaysPublished, SameReport
  <2> QED BY <1>3, <2>2, <2>4
<1>20. CASE ToolEnd(l)
  <2> DEFINE d == [c EXCEPT !.pc = "ended"]
             k == IF j.path /\ j.st # "pre_materialization_failed"
                    THEN LaunchAcknowledged(j) ELSE j
             p == RecordAndPublish(d, k)
             i == RecordTerminal(d, k)
             heard == ~disposed /\ ~j.ack /\ ~j.supp
  <2>1. d \in Children /\ SameReport(c, d) /\ d.owned = c.owned /\ d.pc # "none"
    BY <1>1 DEF Children, LaunchPcs, SameReport
  <2>2. c.pc = "working" /\ c.mat = "materialized" /\ Known(j)
    BY <1>1, <1>20 DEF ToolEnd, Consistent, LaunchConsistent
  <2>3. CASE ~heard
    <3>1. Become(l, d) /\ UNCHANGED jobs
      BY <1>20, <2>3 DEF ToolEnd
    <3> QED BY <1>2, <2>1, <3>1
  <2>4. CASE heard
    <3>1. j.st = "working"
      BY <1>1, <2>2, <2>4 DEF ReportConsistent
    <3>2. c.owned
      BY <1>1, <2>2, <2>4, <3>1 DEF Consistent, ReleaseConsistent, Running,
         RunningStatuses
    <3>3. Become(l, RemoveIfFinished(p)) /\ JobBecomes(l, SuppressIfFinished(p, i))
      BY <1>20, <2>1, <2>4, <3>2 DEF ToolEnd
    <3>4. /\ k \in Jobs /\ Known(k) /\ ~k.recovered /\ k.term = j.term
          /\ k.path = j.path /\ (~k.ack => k.st = "working")
      <4>1. k \in Jobs
        BY <1>1, JobsClosed
      <4>2. CASE k = j
        BY <1>1, <2>2, <3>1, <4>2 DEF ReportConsistent
      <4>3. CASE k = LaunchAcknowledged(j)
        <5>1. /\ k.ack /\ k.term = j.term /\ k.recovered = j.recovered
              /\ k.path = j.path
              /\ k.st = IF j.term = "none" THEN j.st ELSE j.term
          BY <1>1, <2>2, <2>4, <4>3 DEF LaunchAcknowledged, Jobs
        <5>2. Known(k)
          BY <1>1, <3>1, <5>1 DEF Known, Jobs, Outcomes, TerminalStatuses
        <5> QED BY <1>1, <4>1, <5>1, <5>2 DEF ReportConsistent
      <4> QED BY <4>1, <4>2, <4>3
    <3>5. d.recorded => d.term # "none"
      BY <1>1, <2>1 DEF Consistent, OutcomeConsistent, SameReport
    <3>6. /\ k.term # "none" => d.recorded
          /\ d.mat = "materialized" => k.path
          /\ k.st \in TerminalStatuses => d.recorded /\ k.ack
      <4>1. j.term # "none" => d.recorded
        BY <1>1, <2>1 DEF ReportConsistent, SameReport
      <4>2. k.st \in TerminalStatuses => k.ack /\ k.term # "none"
        BY <1>1, <2>2, <2>4, <3>1 DEF LaunchAcknowledged, Jobs, TerminalStatuses
      <4> QED BY <1>1, <2>1, <3>4, <4>1, <4>2 DEF ReportConsistent, SameReport
    <3> HIDE DEF d, k
    <3>7. ReportConsistent(p, i) /\ StaysPublished(d, p)
      BY <2>1, <3>4, <3>5, <3>6, RecordAndPublishReports
    <3>8. p \in Children /\ i \in Jobs
      BY <2>1, <3>4, StaysPut, JobsClosed DEF RecordTerminal, RecordReady,
         Children, Outcomes
    <3> HIDE DEF p, i
    <3>9. ReportConsistent(p, SuppressIfFinished(p, i))
      BY <3>7, <3>8, SuppressReports
    <3>10. /\ ReportConsistent(RemoveIfFinished(p), SuppressIfFinished(p, i))
           /\ StaysPublished(c, RemoveIfFinished(p))
      BY <2>1, <3>7, <3>8, <3>9, ReportUntouched, SameReportKeeps
         DEF StaysPublished, SameReport
    <3> QED BY <1>3, <3>3, <3>10
  <2> QED BY <2>3, <2>4
<1>21. CASE StopStartupResolved(l) \/ StopStartupRejected(l) \/ StopSettled(l)
  <2>1. PICK d \in {[c EXCEPT !.stop = "abort"], [c EXCEPT !.stop = "cleanup"],
                     [c EXCEPT !.stop = "dispose"]} :
          /\ UNCHANGED jobs
          /\ \/ Become(l, StartAbort(d)) \/ Become(l, StartCleanup(d))
             \/ Become(l, StartDisposal(d))
    BY <1>21 DEF StopStartupResolved, StopStartupRejected, StopSettled
  <2>2. d \in Children /\ SameReport(c, d)
    BY <1>1, <2>1 DEF Children, SameReport, StopPcs
  <2> QED BY <1>4, <2>1, <2>2, ReportUntouched
<1>22. CASE StopCleaned(l) \/ StopAborted(l) \/ StopFinished(l)
  <2>1. PICK d \in {[c EXCEPT !.stop = x] : x \in {"finish", "settle", "done"}} :
          UNCHANGED jobs /\ (Become(l, d) \/ Become(l, Removed(d)))
    BY <1>22 DEF StopCleaned, StopAborted, StopFinished
  <2>2. d \in Children /\ SameReport(c, d)
    BY <1>1, <2>1 DEF SameReport, Children, StopPcs
  <2> QED BY <1>2, <1>4, <2>1, <2>2, ReportUntouched
<1>23. CASE StopDisposed(l)
  <2> DEFINE d == [c EXCEPT !.stop = "finish"]
             p == RecordAndPublish(d, j)
             i == RecordTerminal(d, j)
             k == SuppressIfFinished(p, i)
             r == RemoveIfFinished(p)
  <2>1. d \in Children /\ SameReport(c, d)
    BY <1>1 DEF Children, StopPcs, SameReport
  <2>2. (Become(l, r) \/ Become(l, Removed(r))) /\ JobBecomes(l, k)
        /\ c.disposal = "done"
    BY <1>23 DEF StopDisposed
  <2>3. Known(j) /\ (d.recorded => d.term # "none") /\ d.pc # "none"
    BY <1>1, <2>1, <2>2 DEF Consistent, StartupConsistent, LaunchConsistent,
       OutcomeConsistent, SameReport, Children
  <2> HIDE DEF d
  <2>4. ReportConsistent(p, i) /\ StaysPublished(d, p)
    BY <1>1, <2>1, <2>3, RecordAndPublishReports DEF ReportConsistent, SameReport
  <2>5. p \in Children /\ i \in Jobs
    BY <1>1, <2>1, StaysPut, JobsClosed DEF RecordTerminal, RecordReady,
       Children, Outcomes
  <2> HIDE DEF p, i
  <2>6. ReportConsistent(p, k)
    BY <2>4, <2>5, SuppressReports
  <2>7. SameReport(p, r) /\ r \in Children
    BY <2>5, ReportUntouched, RemovedChild DEF RemoveIfFinished
  <2> HIDE DEF k, r
  <2>8. SameReport(p, Removed(r))
    BY <2>7, ReportUntouched DEF SameReport
  <2>9. /\ ReportConsistent(r, k) /\ StaysPublished(c, r)
        /\ ReportConsistent(Removed(r), k) /\ StaysPublished(c, Removed(r))
    BY <2>1, <2>4, <2>6, <2>7, <2>8, SameReportKeeps DEF StaysPublished, SameReport
  <2> QED BY <1>3, <2>2, <2>9
<1> QED
  BY <1>5, <1>6, <1>7, <1>8, <1>9, <1>10, <1>11, <1>12, <1>13, <1>14, <1>15,
     <1>16, <1>17, <1>18, <1>19, <1>20, <1>21, <1>22, <1>23
     DEF ChildStep, StartupEnds, LaunchStep, AbortEnds, CleanupEnds,
         DisposalEnds, StopStep

\* The beginning of a stop rewrites only what is not published yet.
LEMMA BeginStopReports ==
  ASSUME IInv, ReportInv, NEW terminal \in BOOLEAN, BeginStop(terminal)
  PROVE  ChildrenKeep
<1>1. ASSUME NEW l \in Launches
      PROVE  /\ Reportable(child'[l], jobs'[l])
             /\ StaysPublished(child[l], child'[l]) /\ StaysPast(l)
  <2> DEFINE c == child[l]
             j == jobs[l]
             i == SuppressUnacknowledged(j)
             d == [ForceError(c) EXCEPT !.stop = "startup"]
             k == ForceJobError(c, i)
  <2>1. c \in Children /\ j \in Jobs /\ Reportable(c, j)
    BY DEF IInv, TypeOK, ReportInv
  <2>2. CASE ~c.owned
    <3>1. child'[l] = c /\ jobs'[l] = j
      BY <2>2 DEF BeginStop
    <3> QED BY <2>1, <3>1 DEF StaysPublished, StaysPast
  <2>3. CASE c.owned
    <3>1. child'[l] = d /\ jobs'[l] = k
      BY <2>3 DEF BeginStop
    <3>2. c # PastChild
      BY <2>3 DEF PastChild, NoChild
    <3>3. ReportConsistent(c, j) /\ c.pc # "none"
      BY <2>1, <2>3, <3>2 DEF IInv, Lawful, Past, Reportable, Consistent,
         StartupConsistent
    <3>4. i \in Jobs /\ ReportConsistent(c, i)
      BY <2>1, <3>3, JobsClosed, SuppressReports DEF SuppressUnacknowledged
    <3>5. /\ d.mat = c.mat /\ d.recorded = c.recorded /\ d.published = c.published
          /\ c.published => d.term = c.term
          /\ d.pc = c.pc
      BY <2>1 DEF ForceError, Children
    <3>6. ReportConsistent(d, k)
      <4> HIDE DEF i, d
      <4> QED BY <2>1, <3>3, <3>4, <3>5
              DEF ForceJobError, Terminal, ReportConsistent, Jobs
    <3> QED BY <3>1, <3>2, <3>5, <3>6 DEF StaysPublished, StaysPast, Reportable
  <2> QED BY <2>2, <2>3
<1> QED BY <1>1 DEF ChildrenKeep, ReportInv, Reportable, ReportConsistent

\* What leaves the children's reports alone.
LEMMA SameReports ==
  ASSUME ReportInv, UNCHANGED jobs,
         \A l \in Launches : \/ child'[l] = child[l]
                             \/ /\ child[l] # PastChild
                                /\ SameReport(child[l], child'[l])
  PROVE  ChildrenKeep
<1>1. ASSUME NEW l \in Launches
      PROVE  /\ Reportable(child'[l], jobs'[l])
             /\ StaysPublished(child[l], child'[l]) /\ StaysPast(l)
  <2>1. CASE child'[l] = child[l]
    BY <2>1 DEF ReportInv, StaysPublished, StaysPast
  <2>2. CASE child[l] # PastChild /\ SameReport(child[l], child'[l])
    BY <2>2, SameReportKeeps DEF ReportInv, Reportable, StaysPast
  <2> QED BY <2>1, <2>2
<1> QED BY <1>1 DEF ChildrenKeep, ReportInv, Reportable, ReportConsistent

-----------------------------------------------------------------------------
(* The inductive invariant.                                                *)

Used == {b \in BatchIds : batches[b].st # "none"}

\* What has come of launch l is in the journal for good.
Final(l) ==
  /\ jobs[l].term # "none"
  /\ jobs[l].ack \/ jobs[l].recovered
  /\ ~jobs[l].supp
  /\ child[l].published \/ child[l] = PastChild

\* Batches are numbered without gaps; two batches that were not given up do not
\* report the same launch; and what a batch reports is final.
BatchInv ==
  /\ \E n \in 0 .. MaxBatches : Used = 1 .. n
  /\ \A l \in Launches : \A a, b \in Reports(l) : a = b
  /\ \A b \in BatchIds, l \in Launches :
       batches[b].out[l] # "none" =>
         Final(l) /\ batches[b].out[l] = jobs[l].term

\* What is acknowledged, or about to be, is in the parent's log.
LogInv ==
  /\ \A b \in BatchIds : batches[b].st = "acked" => b \in entries
  /\ checks \subseteq entries

\* A stop has superseded what it found pending, and not reopened yet.
Ending == {"sending", "sent", "failed", "waiting"}

StoppingInv ==
  /\ stopping => run = "idle" /\ send.by # "admission"
  /\ stopping => ownerStopping \/ closing
  /\ closing => stopping
  /\ stopPhase # "idle" => stopping
  /\ stoppingBatch # NoBatch => stopping
  /\ send.closing <=> stopPhase = "sending"
  /\ send.closing => send.by = "flush" /\ ~send.trig
  /\ stopPhase \in Ending \ {"sending"} => send.by = "none"
  /\ disposed => stopPhase \in {"idle", "closed"} /\ send.by = "none"

\* The message of batch b is with the parent, or its send is not over.
Handled(b) == b \in queue \cup sends \cup checks \cup entries \/ b = wake

OnItsWay(b) == b \in queue \cup checks \/ b = wake

Mailed(b) ==
  LET st == batches[b].st
      trig == batches[b].trig
  IN
  /\ st = "none" => ~Handled(b) /\ b \notin q.awaiting /\ b # stoppingBatch
  /\ st = "pending" /\ Handled(b) => b \in q.awaiting \/ disposed
  /\ st = "pending" /\ b \in entries => b \in checks \/ disposed
  /\ st = "pending" /\ b \in q.awaiting =>
       OnItsWay(b) \/ (Shut /\ b # stoppingBatch /\ stopPhase \notin Ending)
  /\ st = "pending" /\ stopPhase \in Ending => ~trig
  /\ st = "acked" => b \in entries
  /\ st = "superseded" =>
       b \notin entries /\ b # wake /\ (b \in queue => trig /\ closing)
  /\ disposed => b \notin q.awaiting
  /\ b \in checks => b \in entries /\ (run = "idle" => b \in sends)
  /\ b \in queue =>
       /\ b \notin entries /\ b # wake
       /\ IF trig THEN ~ownerStopping ELSE b \in sends
  /\ b = stoppingBatch => ~trig

MailInv ==
  /\ run = "idle" => wake = NoBatch
  /\ run = "starting" => wake \notin entries
  /\ run \in {"boundary", "polling"} => wake \in entries \cup {NoBatch}
  /\ Flushing("ready") => send.batch \in Used /\ send.batch \notin q.awaiting
  /\ \A b \in BatchIds : Mailed(b)

\* All but where the messages are, which a recovery that could not read the
\* parent's log no longer knows.
SupCore ==
  /\ SupervisorTypeOK
  /\ IInv
  /\ ReportInv
  /\ BatchInv
  /\ LogInv
  /\ StoppingInv

SupInv == SupCore /\ MailInv

\* What every step keeps.
Keeps == SupCore' /\ (MailInv => MailInv')

-----------------------------------------------------------------------------
(* The helpers of the queue.                                               *)

Below == {ss \in Nat \X Nat : ss[1] < ss[2]}

\* Batch numbers are well-founded, so a set of them has an oldest.
LEMMA BelowIsWellFounded == IsWellFoundedOn(Below, Nat)
BY NatLessThanWellFounded DEF OpToRel, Below

\* Of several batches, one was recorded first.
LEMMA OldestIsOne ==
  ASSUME NEW B \in SUBSET BatchIds
  PROVE  /\ Oldest(B) \in B \cup {NoBatch}
         /\ B # {} => Oldest(B) \in B
<1>1. CASE B = {}
  BY <1>1 DEF Oldest
<1>2. CASE B # {}
  <2>1. B \subseteq Nat
    BY JournalAssumption DEF BatchIds
  <2>2. PICK b \in B : \A x \in B : ~ (<<x, b>> \in Below)
    BY <1>2, <2>1, BelowIsWellFounded, WFMin
  <2>3. \A x \in B : b <= x
    <3>1. ASSUME NEW x \in B PROVE b <= x
      <4>1. x \in Nat /\ b \in Nat
        BY <2>1
      <4>2. ~ (x < b)
        BY <2>2, <4>1 DEF Below
      <4> QED BY <4>1, <4>2
    <3> QED BY <3>1
  <2> QED BY <1>2, <2>3 DEF Oldest
<1> QED BY <1>1, <1>2

\* The notes on the pending batches stay notes, and only Reconcile and Clear
\* touch the batches that wait for their acknowledgement.
LEMMA QueuesClosed ==
  ASSUME NEW qs \in Queues, NEW b, NEW bs \in [BatchIds -> Batches],
         NEW pending \in SUBSET BatchIds
  PROVE  /\ Reconcile(qs, pending) \in Queues
         /\ Reconcile(qs, pending).awaiting = qs.awaiting \cap pending
         /\ Clear(qs, b) \in Queues
         /\ Clear(qs, b).awaiting = qs.awaiting \ {b}
         /\ Block(qs, b, bs) \in Queues
         /\ Block(qs, b, bs).awaiting = qs.awaiting
         /\ Coherent(qs, bs) \in Queues
         /\ Coherent(qs, bs).awaiting = qs.awaiting
         /\ Unblocked(qs, b) \in Queues
         /\ Unblocked(qs, b).awaiting = qs.awaiting
<1>1. \A aw, au \in SUBSET BatchIds, bl, re \in BatchOrNone :
        [awaiting |-> aw, blocked |-> bl, retry |-> re, auto |-> au] \in Queues
  BY DEF Queues
<1>2. /\ qs.awaiting \in SUBSET BatchIds /\ qs.auto \in SUBSET BatchIds
      /\ qs.blocked \in BatchOrNone /\ qs.retry \in BatchOrNone
      /\ NoBatch \in BatchOrNone
  BY DEF Queues, BatchOrNone
<1>3. /\ Reconcile(qs, pending) \in Queues
      /\ Reconcile(qs, pending).awaiting = qs.awaiting \cap pending
  BY <1>1, <1>2 DEF Reconcile
<1>4. /\ Clear(qs, b) \in Queues
      /\ Clear(qs, b).awaiting = qs.awaiting \ {b}
  BY <1>1, <1>2 DEF Clear
<1>5. PendingBatches(bs) \subseteq BatchIds
  BY DEF PendingBatches
<1>6. Block(qs, b, bs) \in Queues /\ Block(qs, b, bs).awaiting = qs.awaiting
  <2>1. CASE Shut \/ b \notin PendingBatches(bs)
    BY <2>1 DEF Block
  <2>2. CASE ~(Shut \/ b \notin PendingBatches(bs))
    <3>1. b \in BatchIds
      BY <1>5, <2>2
    <3>2. Block(qs, b, bs) =
            [qs EXCEPT !.blocked = b,
                       !.retry = IF b \in qs.auto THEN qs.retry ELSE b,
                       !.auto = qs.auto \cup {b}]
      BY <2>2 DEF Block
    <3>3. /\ b \in BatchOrNone
          /\ (IF b \in qs.auto THEN qs.retry ELSE b) \in BatchOrNone
          /\ qs.auto \cup {b} \in SUBSET BatchIds
      BY <1>2, <3>1 DEF BatchOrNone
    <3> QED BY <3>2, <3>3 DEF Queues
  <2> QED BY <2>1, <2>2
<1>7. Coherent(qs, bs) \in Queues /\ Coherent(qs, bs).awaiting = qs.awaiting
  BY DEF Coherent, Queues
<1>8. Unblocked(qs, b) \in Queues /\ Unblocked(qs, b).awaiting = qs.awaiting
  BY <1>2 DEF Unblocked, Queues
<1> QED BY <1>3, <1>4, <1>6, <1>7, <1>8

\* A set whose members are all the same has at most one.
LEMMA AtMostOne ==
  ASSUME NEW S, \A a, b \in S : a = b
  PROVE  Cardinality(S) <= 1
<1>1. CASE S = {}
  BY <1>1, FS_EmptySet
<1>2. CASE S # {}
  <2>1. PICK a \in S : S = {a}
    BY <1>2
  <2>2. Cardinality({a}) = 1
    BY FS_Singleton
  <2> QED BY <2>1, <2>2
<1> QED BY <1>1, <1>2

\* What letting go of the send lock leaves.
LEMMA ReleaseFacts ==
  ASSUME SupervisorTypeOK, batches' \in [BatchIds -> Batches],
         NEW ok \in BOOLEAN, NEW qs \in Queues, Release(ok, qs)
  PROVE  /\ send' = NoSend /\ send' \in Senders
         /\ admitted' \in BOOLEAN /\ again' \subseteq {"schedule", "retry"}
         /\ q' \in Queues /\ q'.awaiting = qs.awaiting
         /\ scheduled' \in BOOLEAN /\ stopPhase' \in StopPhases
         /\ stopPhase # "sending" => stopPhase' = stopPhase
         /\ stopPhase = "sending" => stopPhase' \in {"sent", "failed"}
<1>1. NoSend \in Senders
  BY DEF NoSend, Senders, BatchOrNone
<1>2. q' \in Queues /\ q'.awaiting = qs.awaiting
  BY QueuesClosed DEF Release
<1>3. scheduled' \in BOOLEAN
  BY DEF Release
<1> QED BY <1>1, <1>2, <1>3 DEF Release, SupervisorTypeOK, TypeOK, StopPhases

-----------------------------------------------------------------------------
(* Steps that leave the batches, the children or the stop alone.           *)

FinalsKeep ==
  \A l \in Launches : Final(l) => Final(l)' /\ jobs'[l].term = jobs[l].term

\* What is published is final.
LEMMA FinalsStay ==
  ASSUME IInv, IInv', ChildrenKeep
  PROVE  FinalsKeep
<1> SUFFICES ASSUME NEW l \in Launches, Final(l)
             PROVE  Final(l)' /\ jobs'[l].term = jobs[l].term
  BY DEF FinalsKeep
<1>1. CASE child[l] = PastChild
  BY <1>1 DEF ChildrenKeep, StaysPast, Final
<1>2. CASE child[l] # PastChild
  <2>1. child[l].published /\ child'[l].published /\ child'[l].term = child[l].term
    BY <1>2 DEF Final, ChildrenKeep, StaysPublished
  <2>2. child'[l] # PastChild
    BY <2>1 DEF PastChild, NoChild
  <2>3. Consistent(child[l], jobs[l])
    BY <1>2 DEF IInv, Lawful, Past
  <2>4. Consistent(child[l], jobs[l])'
    BY <2>2 DEF IInv, Lawful, Past
  <2>5. jobs[l].term = child[l].term
    BY <2>1, <2>3 DEF Consistent, OutcomeConsistent
  <2>6. /\ jobs'[l].term = child'[l].term
        /\ jobs'[l].ack /\ ~jobs'[l].supp
    BY <2>1, <2>4 DEF Consistent, OutcomeConsistent, LaunchConsistent
  <2> QED BY <2>1, <2>5, <2>6 DEF Final
<1> QED BY <1>1, <1>2

\* A step that leaves the batches alone keeps their part of the invariant.
LEMMA BatchesStand ==
  ASSUME BatchInv, UNCHANGED batches, FinalsKeep
  PROVE  BatchInv'
<1>1. Used' = Used /\ \A l \in Launches : Reports(l)' = Reports(l)
  BY DEF Used, Reports, BatchesOf
<1>2. ASSUME NEW b \in BatchIds, NEW l \in Launches, batches'[b].out[l] # "none"
      PROVE  Final(l)' /\ batches'[b].out[l] = jobs'[l].term
  BY <1>2 DEF BatchInv, FinalsKeep
<1> QED BY <1>1, <1>2 DEF BatchInv

\* An acknowledgement and a supersession change no batch but for its state.
LEMMA BatchesEnd ==
  ASSUME BatchInv, FinalsKeep,
         \A b \in BatchIds :
           /\ batches'[b].out = batches[b].out
           /\ batches'[b].st = "none" <=> batches[b].st = "none"
           /\ batches'[b].st \in {"pending", "acked"} =>
                batches[b].st \in {"pending", "acked"}
  PROVE  BatchInv'
<1>1. Used' = Used
  BY DEF Used
<1>2. ASSUME NEW l \in Launches PROVE Reports(l)' \subseteq Reports(l)
  BY DEF Reports, BatchesOf
<1>3. ASSUME NEW b \in BatchIds, NEW l \in Launches, batches'[b].out[l] # "none"
      PROVE  Final(l)' /\ batches'[b].out[l] = jobs'[l].term
  BY <1>3 DEF BatchInv, FinalsKeep
<1>4. ASSUME NEW l \in Launches, NEW a \in Reports(l)', NEW b \in Reports(l)'
      PROVE  a = b
  BY <1>2 DEF BatchInv
<1> QED BY <1>1, <1>3, <1>4 DEF BatchInv

\* What no child has a part in changes no outcome.
LEMMA FinalsStand ==
  ASSUME UNCHANGED <<jobs, child>>
  PROVE  FinalsKeep
BY DEF FinalsKeep, Final

\* Neither the children nor the batches change.
LEMMA SameBatches ==
  ASSUME SupCore, SameChildren, UNCHANGED batches
  PROVE  BatchInv'
BY FinalsStand, BatchesStand DEF SupCore, SameChildren

\* An acknowledged batch was in the log before, or is acknowledged for that.
LEMMA LogGrows ==
  ASSUME LogInv, entries \subseteq entries', checks' \subseteq entries',
         \A b \in BatchIds :
           batches'[b].st = "acked" => batches[b].st = "acked" \/ b \in entries'
  PROVE  LogInv'
BY DEF LogInv

\* Neither the batches nor the log change.
LEMMA LogStands ==
  ASSUME SupCore, UNCHANGED <<batches, entries, checks>>
  PROVE  LogInv'
BY DEF SupCore, LogInv

\* What a step that leaves the children alone keeps.
LEMMA SameChildrenKeep ==
  ASSUME SupCore, SameChildren, TypeOK'
  PROVE  IInv' /\ ReportInv'
<1>1. UNCHANGED <<jobs, child>>
  BY DEF SameChildren
<1>2. IInv'
  BY <1>1, ChildrenStand DEF SupCore
<1>3. ReportInv'
  BY <1>1 DEF SupCore, ReportInv, Reportable, ReportConsistent
<1> QED BY <1>2, <1>3

\* A step of the queue keeps the types of the children's part.
LEMMA SameChildrenType ==
  ASSUME SupCore, SameChildren, batches' \in [BatchIds -> Batches],
         stopPhase' \in StopPhases, scheduled' \in BOOLEAN
  PROVE  TypeOK'
BY DEF SupCore, IInv, TypeOK, SameChildren

\* A failure of a send is counted.
LEMMA CanFailSendFaults ==
  ASSUME SupervisorTypeOK, CanFailSend
  PROVE  sendFaults' \in 0 .. MaxSendFaults
<1>1. sendFaults \in Nat /\ MaxSendFaults \in Nat
  BY SendFaultsAssumption DEF SupervisorTypeOK
<1> QED BY <1>1 DEF CanFailSend

\* A step that leaves the children alone, with the parts of the invariant that
\* are particular to it.
LEMMA SupStep ==
  ASSUME SupCore, SameChildren, batches' \in [BatchIds -> Batches],
         stopPhase' \in StopPhases, scheduled' \in BOOLEAN,
         TypeOK' => SupervisorTypeOK',
         BatchInv', StoppingInv', LogInv', MailInv => MailInv'
  PROVE  Keeps
BY SameChildrenType, SameChildrenKeep DEF SupCore, Keeps

-----------------------------------------------------------------------------
(* Freezing the outcomes that are ready.                                   *)

\* A new batch, with the next number, that reports what is final and what no
\* other batch reports.
LEMMA NewBatchKeeps ==
  ASSUME BatchInv, batches \in [BatchIds -> Batches], UNCHANGED <<jobs, child>>,
         NEW fresh \in BatchIds,
         fresh = Cardinality({b \in BatchIds : batches[b].st # "none"}) + 1,
         NEW new, new.st = "pending",
         batches' = [batches EXCEPT ![fresh] = new],
         \A l \in Launches :
           new.out[l] # "none" =>
             Reports(l) = {} /\ Final(l) /\ new.out[l] = jobs[l].term
  PROVE  batches[fresh].st = "none" /\ BatchInv'
<1>1. PICK n \in 0 .. MaxBatches : Used = 1 .. n
  BY DEF BatchInv
<1>2. fresh = n + 1
  <2>1. n \in Int /\ n >= 0
    BY JournalAssumption
  <2>2. Cardinality(1 .. n) = n
    BY <2>1, FS_Interval
  <2> QED BY <1>1, <2>2 DEF Used
<1>3. batches[fresh].st = "none"
  <2>1. n \in Int
    OBVIOUS
  <2>2. fresh \notin Used
    BY <1>1, <1>2, <2>1
  <2> QED BY <2>2 DEF Used
<1>4. /\ \A b \in BatchIds : b # fresh => batches'[b] = batches[b]
      /\ batches'[fresh] = new
  OBVIOUS
<1>5. \E m \in 0 .. MaxBatches : Used' = 1 .. m
  <2>1. n + 1 \in 0 .. MaxBatches /\ n \in Nat
    BY <1>2, JournalAssumption DEF BatchIds
  <2>2. (1 .. n) \cup {n + 1} = 1 .. (n + 1)
    BY <2>1
  <2>3. Used' = Used \cup {fresh}
    BY <1>4 DEF Used
  <2>4. Used' = 1 .. (n + 1)
    BY <1>1, <1>2, <2>2, <2>3
  <2> QED BY <2>1, <2>4
<1>6. ASSUME NEW l \in Launches, NEW a \in Reports(l)', NEW b \in Reports(l)'
      PROVE  a = b
  <2>1. ASSUME NEW x \in Reports(l)', x # fresh PROVE x \in Reports(l)
    BY <1>4, <2>1 DEF Reports, BatchesOf
  <2>2. fresh \in Reports(l)' => Reports(l) = {}
    BY <1>4 DEF Reports, BatchesOf
  <2>3. \A x, y \in Reports(l) : x = y
    BY DEF BatchInv
  <2> QED BY <1>6, <2>1, <2>2, <2>3
<1>7. ASSUME NEW b \in BatchIds, NEW l \in Launches, batches'[b].out[l] # "none"
      PROVE  Final(l)' /\ batches'[b].out[l] = jobs'[l].term
  <2>1. Final(l) /\ batches'[b].out[l] = jobs[l].term
    <3>1. CASE b = fresh
      BY <1>4, <1>7, <3>1
    <3>2. CASE b # fresh
      BY <1>4, <1>7, <3>2 DEF BatchInv
    <3> QED BY <3>1, <3>2
  <2> QED BY <2>1, FinalsStand DEF FinalsKeep
<1> QED BY <1>3, <1>5, <1>6, <1>7 DEF BatchInv

\* A new batch has a number of its own, reports launches that no other batch
\* reports, and reports what is published of them.
LEMMA FrozenFacts ==
  ASSUME SupCore, Flushing("start"), Frozen.fits
  PROVE  /\ Frozen.batches \in [BatchIds -> Batches]
         /\ Frozen.q = Reconcile(q, PendingBatches(Frozen.batches))
         /\ Frozen.batch \in PendingBatches(Frozen.batches) \cup {NoBatch}
         /\ MailInv /\ send.closing /\ Frozen.batch # NoBatch =>
              ~Frozen.batches[Frozen.batch].trig
         /\ \A b \in BatchIds :
              \/ Frozen.batches[b] = batches[b]
              \/ /\ batches[b].st = "none"
                 /\ Frozen.batches[b].st = "pending"
                 /\ Frozen.batches[b].trig = send.trig
         /\ batches' = Frozen.batches /\ UNCHANGED <<jobs, child>> => BatchInv'
<1> DEFINE outcomes == Deliverable(jobs, batches)
           fresh == Cardinality({b \in BatchIds : batches[b].st # "none"}) + 1
           out == [l \in Launches |-> IF l \in outcomes THEN jobs[l].term ELSE "none"]
           bs == Frozen.batches
           pending == PendingBatches(bs)
<1>1. PICK n \in 0 .. MaxBatches : Used = 1 .. n
  BY DEF SupCore, BatchInv
<1>2. fresh = n + 1
  <2>1. n \in Int /\ n >= 0
    BY JournalAssumption
  <2>2. Cardinality(1 .. n) = n
    BY <2>1, FS_Interval
  <2> QED BY <1>1, <2>2 DEF Used
<1>3. bs = IF outcomes = {} THEN batches
           ELSE NotificationBatch(batches, fresh, out, send.trig)
  BY DEF Frozen
<1>4. outcomes # {} => fresh \in BatchIds
  BY DEF Frozen
<1>5. outcomes # {} => batches[fresh].st = "none"
  <2>1. n \in Int
    OBVIOUS
  <2>2. fresh \notin Used
    BY <1>1, <1>2, <2>1
  <2> QED BY <1>4, <2>2 DEF Used
<1>6. /\ batches \in [BatchIds -> Batches] /\ send.trig \in BOOLEAN
      /\ jobs \in [Launches -> Jobs] /\ stoppingBatch \in BatchOrNone
      /\ q \in Queues
  BY DEF SupCore, SupervisorTypeOK, TypeOK, Senders
<1>7. out \in [Launches -> Outcomes]
  BY <1>6 DEF Jobs, Outcomes
<1> DEFINE new == [st |-> "pending", out |-> out, trig |-> send.trig]
<1>8. new \in Batches
  <2> HIDE DEF out
  <2> QED BY <1>6, <1>7 DEF Batches
<1>9. outcomes # {} => bs = [batches EXCEPT ![fresh] = new]
  BY <1>3 DEF NotificationBatch
<1>10. outcomes = {} => bs = batches
  BY <1>3
<1>11. bs \in [BatchIds -> Batches]
  <2> HIDE DEF outcomes, fresh, new, bs
  <2> QED BY <1>4, <1>6, <1>8, <1>9, <1>10
<1>12. new.st = "pending" /\ new.out = out /\ new.trig = send.trig
  OBVIOUS
<1>13. \A b \in BatchIds : bs[b] = batches[b] \/ (outcomes # {} /\ b = fresh /\ bs[b] = new)
  <2> HIDE DEF outcomes, fresh, new, bs
  <2> QED BY <1>4, <1>6, <1>9, <1>10
<1>14. outcomes # {} => bs[fresh] = new /\ fresh \in pending
  <2> HIDE DEF outcomes, fresh, new, bs
  <2> QED BY <1>4, <1>6, <1>9, <1>12 DEF PendingBatches
<1>15. Frozen.q = Reconcile(q, pending)
  BY DEF Frozen
<1>16. Frozen.batch = IF ~send.closing THEN Oldest(pending \ q.awaiting)
                      ELSE IF stoppingBatch \in pending THEN stoppingBatch
                      ELSE IF outcomes = {} THEN NoBatch ELSE fresh
  BY DEF Frozen
<1>17. Frozen.batch \in pending \cup {NoBatch}
  <2>1. pending \ q.awaiting \in SUBSET BatchIds
    BY DEF PendingBatches
  <2>2. Oldest(pending \ q.awaiting) \in (pending \ q.awaiting) \cup {NoBatch}
    BY <2>1, OldestIsOne
  <2> HIDE DEF outcomes, fresh, new, bs, pending
  <2> QED BY <1>14, <1>16, <2>2
<1>18. ASSUME MailInv, send.closing, Frozen.batch # NoBatch
       PROVE  ~bs[Frozen.batch].trig
  <2>1. ~send.trig
    BY <1>18 DEF SupCore, StoppingInv
  <2>2. CASE Frozen.batch = stoppingBatch
    <3>1. Frozen.batch \in BatchIds
      BY <1>17, <1>18 DEF PendingBatches
    <3>2. ~batches[Frozen.batch].trig
      BY <1>18, <2>2, <3>1 DEF MailInv, Mailed
    <3> HIDE DEF outcomes, fresh, new, bs, pending
    <3> QED BY <1>12, <1>13, <2>1, <3>1, <3>2
  <2>3. CASE outcomes # {} /\ Frozen.batch = fresh
    <3> HIDE DEF outcomes, fresh, new, bs, pending
    <3> QED BY <1>12, <1>14, <2>1, <2>3
  <2> QED BY <1>16, <1>18, <2>2, <2>3
<1>19. ASSUME NEW b \in BatchIds, bs[b] # batches[b]
       PROVE  batches[b].st = "none" /\ bs[b].st = "pending" /\ bs[b].trig = send.trig
  <2> HIDE DEF outcomes, fresh, new, bs, pending
  <2> QED BY <1>5, <1>12, <1>13, <1>19
<1>20. ASSUME batches' = bs, UNCHANGED <<jobs, child>>
       PROVE  BatchInv'
  <2>1. CASE outcomes = {}
    <3>1. UNCHANGED batches
      BY <1>10, <1>20, <2>1
    <3> QED BY <1>20, <3>1, FinalsStand, BatchesStand DEF SupCore
  <2>2. CASE outcomes # {}
    <3>1. ASSUME NEW l \in Launches, new.out[l] # "none"
          PROVE  Reports(l) = {} /\ Final(l) /\ new.out[l] = jobs[l].term
      <4>1. l \in outcomes /\ new.out[l] = jobs[l].term
        BY <3>1
      <4>2. /\ jobs[l].ack /\ jobs[l].term # "none" /\ ~jobs[l].supp
            /\ Reports(l) = {}
        BY <4>1 DEF Deliverable, Reports
      <4>3. child[l].published \/ child[l] = PastChild
        BY <4>2 DEF SupCore, ReportInv, Reportable, ReportConsistent
      <4> QED BY <4>1, <4>2, <4>3 DEF Final
    <3>2. batches' = [batches EXCEPT ![fresh] = new] /\ fresh \in BatchIds
      BY <1>4, <1>9, <1>20, <2>2
    <3>3. fresh = Cardinality({b \in BatchIds : batches[b].st # "none"}) + 1
      OBVIOUS
    <3> HIDE DEF outcomes, fresh, new, bs, pending
    <3> QED BY <1>6, <1>12, <1>20, <3>1, <3>2, <3>3, NewBatchKeeps DEF SupCore
  <2> QED BY <2>1, <2>2
<1> HIDE DEF outcomes, fresh, new, bs, pending
<1> QED BY <1>11, <1>15, <1>17, <1>18, <1>19, <1>20 DEF bs, pending

-----------------------------------------------------------------------------
(* Steps that leave the messages where they are.                           *)

\* A step that moves no message keeps where the messages are.
LEMMA MailStands ==
  ASSUME MailInv,
         UNCHANGED <<batches, run, queue, wake, entries, sends, checks,
                     ownerStopping, disposed, stoppingBatch>>,
         q'.awaiting = q.awaiting, closing => closing', Shut => Shut',
         stopPhase' \in Ending => stopPhase \in Ending,
         Flushing("ready")' => Flushing("ready") /\ send'.batch = send.batch
  PROVE  MailInv'
<1>1. ASSUME NEW b \in BatchIds PROVE Mailed(b)'
  <2>1. Mailed(b)
    BY DEF MailInv
  <2> QED BY <2>1 DEF Mailed, Handled, OnItsWay
<1>2. Flushing("ready")' => send'.batch \in Used' /\ send'.batch \notin q'.awaiting
  BY DEF MailInv, Used
<1> QED BY <1>1, <1>2 DEF MailInv

\* A step that lets go of the send lock, and whatever waited for it.
LEMMA ReleaseKeeps ==
  ASSUME SupCore, NEW ok \in BOOLEAN, NEW qs \in Queues, qs.awaiting = q.awaiting,
         Release(ok, qs), SameChildren,
         UNCHANGED <<batches, parentVars, sends, checks, stoppingBatch>>,
         sendFaults' \in 0 .. MaxSendFaults
  PROVE  Keeps
<1>1. batches' \in [BatchIds -> Batches] /\ SupervisorTypeOK
  BY DEF SupCore, SupervisorTypeOK, TypeOK
<1>2. /\ send' = NoSend /\ send' \in Senders
      /\ admitted' \in BOOLEAN /\ again' \subseteq {"schedule", "retry"}
      /\ q' \in Queues /\ q'.awaiting = q.awaiting
      /\ scheduled' \in BOOLEAN /\ stopPhase' \in StopPhases
      /\ stopPhase # "sending" => stopPhase' = stopPhase
      /\ stopPhase = "sending" => stopPhase' \in {"sent", "failed"}
  BY <1>1, ReleaseFacts
<1>3. TypeOK' => SupervisorTypeOK'
  BY <1>1, <1>2 DEF SupervisorTypeOK, parentVars
<1>4. BatchInv'
  BY SameBatches
<1>5. StoppingInv'
  BY <1>2 DEF SupCore, StoppingInv, SameChildren, NoSend, Ending, parentVars
<1>6. MailInv => MailInv'
  BY <1>2, MailStands DEF SameChildren, parentVars, Flushing, NoSend, Ending,
     Shut, IsStopping
<1>7. LogInv'
  BY LogStands DEF parentVars
<1> QED BY <1>1, <1>2, <1>3, <1>4, <1>5, <1>6, <1>7, SupStep

\* A step that takes the send lock for a flush.
LEMMA StartFlushKeeps ==
  ASSUME SupCore, NEW trig \in BOOLEAN, NEW retry \in BatchOrNone,
         StartFlush(trig, FALSE, retry), send.by = "none",
         ~disposed, stopPhase \in {"idle", "closed"}, SameChildren,
         UNCHANGED <<batches, stopPhase, parentVars, sends, admitted, checks,
                     stoppingBatch, sendFaults>>,
         scheduled' \in BOOLEAN, again' \subseteq {"schedule", "retry"},
         q' \in Queues, q'.awaiting = q.awaiting
  PROVE  Keeps
<1>1. batches' \in [BatchIds -> Batches] /\ SupervisorTypeOK /\ stopPhase' \in StopPhases
  BY DEF SupCore, SupervisorTypeOK, TypeOK
<1>2. send' = [by |-> "flush", at |-> "start", batch |-> NoBatch, trig |-> trig,
               closing |-> FALSE, retry |-> retry]
  BY DEF StartFlush, NoSend
<1>3. send' \in Senders
  BY <1>2 DEF Senders, BatchOrNone
<1>4. TypeOK' => SupervisorTypeOK'
  BY <1>1, <1>3 DEF SupervisorTypeOK, parentVars
<1>5. BatchInv'
  BY SameBatches
<1>6. StoppingInv'
  BY <1>2 DEF SupCore, StoppingInv, SameChildren, Ending, parentVars
<1>7. MailInv => MailInv'
  BY <1>2, MailStands DEF SameChildren, parentVars, Flushing, Shut, IsStopping
<1>8. LogInv'
  BY LogStands DEF parentVars
<1> QED BY <1>1, <1>4, <1>5, <1>6, <1>7, <1>8, SupStep

\* The callbacks the supervisor schedules.
LEMMA CallbackKeeps ==
  ASSUME SupCore, NotificationTask \/ RetryTask \/ RuntimeBecameCoherent
  PROVE  Keeps
<1>1. SupervisorTypeOK /\ q \in Queues /\ batches \in [BatchIds -> Batches]
      /\ NoBatch \in BatchOrNone /\ q.retry \in BatchOrNone
  BY DEF SupCore, SupervisorTypeOK, TypeOK, BatchOrNone, Queues
<1>2. ASSUME ~Shut
      PROVE  ~disposed /\ stopPhase \in {"idle", "closed"}
  BY <1>2 DEF SupCore, StoppingInv, Shut, IsStopping
<1>3. ASSUME SameChildren, UNCHANGED <<batches, stopPhase, parentVars, sends, send, admitted,
                             checks, stoppingBatch, sendFaults>>,
             scheduled' \in BOOLEAN, again' \subseteq {"schedule", "retry"},
             q' \in Queues, q'.awaiting = q.awaiting
      PROVE  Keeps
  <2>1. batches' \in [BatchIds -> Batches] /\ stopPhase' \in StopPhases
    BY <1>3 DEF SupCore, SupervisorTypeOK, TypeOK
  <2>2. TypeOK' => SupervisorTypeOK'
    BY <1>1, <1>3 DEF SupervisorTypeOK, parentVars
  <2>3. BatchInv'
    BY <1>3, SameBatches
  <2>4. StoppingInv'
    BY <1>3 DEF SupCore, StoppingInv, SameChildren, parentVars
  <2>5. MailInv => MailInv'
    BY <1>3, MailStands DEF SameChildren, parentVars, Flushing, Shut, IsStopping
  <2>6. LogInv'
    BY <1>3, LogStands DEF parentVars
  <2> QED BY <1>3, <2>1, <2>2, <2>3, <2>4, <2>5, <2>6, SupStep
<1>4. CASE NotificationTask
  <2>1. /\ SameChildren /\ scheduled' = FALSE /\ again' \subseteq {"schedule", "retry"}
        /\ q' \in Queues /\ q'.awaiting = q.awaiting
        /\ UNCHANGED <<batches, stopPhase, parentVars, sends, admitted, checks,
                       stoppingBatch, sendFaults>>
    BY <1>1, <1>4 DEF NotificationTask, queueVars, SupervisorTypeOK
  <2>2. CASE UNCHANGED send
    BY <1>3, <2>1, <2>2
  <2>3. CASE /\ send.by = "none" /\ Schedulable(jobs, batches, q)
             /\ StartFlush(TRUE, FALSE, NoBatch)
    <3>1. ~Shut
      BY <2>3 DEF Schedulable
    <3> QED BY <1>1, <1>2, <2>1, <2>3, <3>1, StartFlushKeeps
  <2> QED BY <1>4, <2>2, <2>3 DEF NotificationTask
<1>5. CASE RetryTask
  <2>1. /\ SameChildren /\ scheduled' \in BOOLEAN /\ again' \subseteq {"schedule", "retry"}
        /\ q' = [q EXCEPT !.retry = NoBatch]
        /\ UNCHANGED <<batches, stopPhase, parentVars, sends, admitted, checks,
                       stoppingBatch, sendFaults>>
    BY <1>1, <1>5 DEF RetryTask, SupervisorTypeOK, TypeOK
  <2>2. q' \in Queues /\ q'.awaiting = q.awaiting
    BY <1>1, <2>1 DEF Queues
  <2>3. CASE UNCHANGED send
    BY <1>3, <2>1, <2>2, <2>3
  <2>4. CASE ~Shut /\ send.by = "none" /\ StartFlush(TRUE, FALSE, q.retry)
    BY <1>1, <1>2, <2>1, <2>2, <2>4, StartFlushKeeps
  <2> QED BY <1>5, <2>3, <2>4 DEF RetryTask
<1>6. CASE RuntimeBecameCoherent
  <2>1. /\ SameChildren /\ q' = Coherent(q, batches)
        /\ UNCHANGED <<batches, stopPhase, scheduled, parentVars, sendVars, checks,
                       stoppingBatch, sendFaults>>
    BY <1>6 DEF RuntimeBecameCoherent
  <2>2. q' \in Queues /\ q'.awaiting = q.awaiting
    BY <1>1, <2>1, QueuesClosed
  <2>3. scheduled' \in BOOLEAN /\ again' \subseteq {"schedule", "retry"}
    BY <1>1, <2>1 DEF sendVars, SupervisorTypeOK, TypeOK
  <2> QED BY <1>3, <2>1, <2>2, <2>3 DEF sendVars
<1> QED BY <1>4, <1>5, <1>6

\* A flush that waited for its message, or whose preflight failed.
LEMMA FlushReleaseKeeps ==
  ASSUME SupCore, FlushAdmitted \/ PreflightFails \/ DrainReleasesAdmission
  PROVE  Keeps
<1>1. SupervisorTypeOK /\ q \in Queues /\ batches \in [BatchIds -> Batches]
      /\ sendFaults \in 0 .. MaxSendFaults
  BY DEF SupCore, SupervisorTypeOK, TypeOK
<1>2. CASE FlushAdmitted \/ DrainReleasesAdmission
  BY <1>1, <1>2, ReleaseKeeps DEF FlushAdmitted, DrainReleasesAdmission
<1>3. CASE PreflightFails
  <2>1. sendFaults' \in 0 .. MaxSendFaults
    BY <1>1, <1>3, CanFailSendFaults DEF PreflightFails
  <2>2. Block(q, send.batch, batches) \in Queues
        /\ Block(q, send.batch, batches).awaiting = q.awaiting
    BY <1>1, QueuesClosed
  <2> QED BY <1>3, <2>1, <2>2, ReleaseKeeps DEF PreflightFails
<1> QED BY <1>2, <1>3

\* The hooks, but for the release of an admission.
LEMMA HookKeeps ==
  ASSUME SupCore, DrainAcknowledges \/ DrainFlushes \/ HookEnds
  PROVE  Keeps
<1>1. SupervisorTypeOK /\ q \in Queues /\ batches \in [BatchIds -> Batches]
      /\ NoBatch \in BatchOrNone /\ scheduled \in BOOLEAN /\ stopPhase \in StopPhases
      /\ again \subseteq {"schedule", "retry"}
  BY DEF SupCore, SupervisorTypeOK, TypeOK, BatchOrNone
<1>2. CASE DrainFlushes
  <2>1. ~Shut
    BY <1>2 DEF DrainFlushes, Schedulable
  <2>2. ~disposed /\ stopPhase \in {"idle", "closed"}
    BY <2>1 DEF SupCore, StoppingInv, Shut, IsStopping
  <2> QED BY <1>1, <1>2, <2>2, StartFlushKeeps DEF DrainFlushes, ParentOnly
<1>3. ASSUME SameChildren,
             UNCHANGED <<batches, stopPhase, scheduled, queue, wake, entries,
                         sends, send, again, q, checks, stoppingBatch, sendFaults>>,
             admitted' \in BOOLEAN, run' \in Runs,
             run' # "idle" <=> run # "idle",
             run' = "starting" => run = "starting",
             run' \in {"boundary", "polling"} => run = "boundary"
      PROVE  Keeps
  <2>1. TypeOK' => SupervisorTypeOK'
    BY <1>1, <1>3 DEF SupervisorTypeOK
  <2>2. BatchInv'
    BY <1>3, SameBatches
  <2>3. StoppingInv'
    BY <1>3 DEF SupCore, StoppingInv, SameChildren
  <2>4. ASSUME MailInv PROVE MailInv'
    <3>1. ASSUME NEW b \in BatchIds PROVE Mailed(b)'
      <4>1. Mailed(b)
        BY <2>4 DEF MailInv
      <4> QED BY <1>3, <4>1 DEF Mailed, Handled, OnItsWay, SameChildren, Shut,
                 IsStopping
    <3> QED BY <1>3, <2>4, <3>1 DEF MailInv, Flushing, Used
  <2>5. LogInv'
    BY <1>3, LogStands
  <2> QED BY <1>1, <1>3, <2>1, <2>2, <2>3, <2>4, <2>5, SupStep
<1>4. CASE DrainAcknowledges
  <2>1. /\ SameChildren /\ admitted' = TRUE /\ run' = run
        /\ UNCHANGED <<batches, stopPhase, scheduled, queue, wake, entries,
                       sends, send, again, q, checks, stoppingBatch, sendFaults>>
    BY <1>4 DEF DrainAcknowledges, ParentOnly, parentVars
  <2>2. run' \in Runs /\ run \in {"starting", "boundary"}
    BY <1>1, <1>4, <2>1 DEF DrainAcknowledges, InHook, SupervisorTypeOK
  <2> QED BY <1>3, <2>1, <2>2
<1>5. CASE HookEnds
  <2>1. /\ SameChildren /\ admitted' = admitted
        /\ run \in {"starting", "boundary"}
        /\ run' = IF run = "starting" THEN "running" ELSE "polling"
        /\ UNCHANGED <<batches, stopPhase, scheduled, queue, wake, entries,
                       sends, send, again, q, checks, stoppingBatch, sendFaults>>
    BY <1>5 DEF HookEnds, InHook, ParentOnly, SupervisorSame, sendVars
  <2>2. run' \in Runs /\ admitted' \in BOOLEAN
    BY <1>1, <2>1 DEF Runs, SupervisorTypeOK
  <2> QED BY <1>3, <2>1, <2>2
<1> QED BY <1>2, <1>4, <1>5


-----------------------------------------------------------------------------
(* The flush: freezing, and handing a batch to the parent.                 *)

\* A batch that a flush freezes, or finds, and does not hand over.
LEMMA FreezeMailed ==
  ASSUME SupCore, MailInv, send.by = "flush", SameChildren, UNCHANGED <<entries, checks>>,
         NEW x \in BatchIds,
         \/ batches'[x] = batches[x]
         \/ /\ batches[x].st = "none" /\ batches'[x].st = "pending"
            /\ batches'[x].trig = send.trig,
         x \in sends' <=> x \in sends, x \in queue' <=> x \in queue,
         x = wake' <=> x = wake, run' = "idle" => run = "idle",
         x \in q'.awaiting => x \in q.awaiting,
         batches'[x].st = "pending" /\ x \in q.awaiting => x \in q'.awaiting,
         stopPhase' \in Ending <=> stopPhase \in Ending,
         x = stoppingBatch' =>
           \/ x = stoppingBatch
           \/ send.closing /\ batches'[x].st = "pending" /\ ~batches'[x].trig
  PROVE  Mailed(x)'
<1>1. /\ Mailed(x) /\ ~disposed /\ ~disposed'
      /\ stopPhase \in Ending => ~send.trig
      /\ send.closing => stopPhase \in Ending
  BY DEF SupCore, StoppingInv, MailInv, SameChildren, Ending
<1>2. Shut' = Shut /\ ownerStopping' = ownerStopping /\ closing' = closing
  BY DEF Shut, IsStopping, SameChildren
<1>3. CASE batches'[x] = batches[x]
  BY <1>1, <1>2, <1>3 DEF Mailed, Handled, OnItsWay
<1>4. CASE /\ batches[x].st = "none" /\ batches'[x].st = "pending"
           /\ batches'[x].trig = send.trig
  BY <1>1, <1>2, <1>4 DEF Mailed, Handled, OnItsWay
<1> QED BY <1>3, <1>4

\* A flush that freezes and sends nothing yet: it lets go of the lock or makes
\* sure of the runtime.
LEMMA FreezeKeeps ==
  ASSUME SupCore, FlushEmpty \/ FlushShut \/ FlushPreflight
  PROVE  Keeps
<1> DEFINE f == Frozen
<1>1. /\ Flushing("start") /\ f.fits /\ batches' = f.batches
      /\ ChooseStoppingBatch(f) /\ SameChildren
      /\ UNCHANGED <<parentVars, sends, checks, sendFaults>>
  BY DEF FlushEmpty, FlushShut, FlushPreflight
<1>2. SupervisorTypeOK /\ q \in Queues /\ send \in Senders /\ scheduled \in BOOLEAN
      /\ stopPhase \in StopPhases
  BY DEF SupCore, SupervisorTypeOK, TypeOK
<1>3. /\ batches' \in [BatchIds -> Batches]
      /\ f.q = Reconcile(q, PendingBatches(batches'))
      /\ f.batch \in PendingBatches(batches') \cup {NoBatch}
      /\ MailInv /\ send.closing /\ f.batch # NoBatch => ~batches'[f.batch].trig
      /\ \A b \in BatchIds :
           \/ batches'[b] = batches[b]
           \/ /\ batches[b].st = "none" /\ batches'[b].st = "pending"
              /\ batches'[b].trig = send.trig
      /\ BatchInv'
  BY <1>1, FrozenFacts DEF SameChildren
<1>4. PendingBatches(batches') \in SUBSET BatchIds
  BY DEF PendingBatches
<1> HIDE DEF f
<1>5. f.q \in Queues /\ f.q.awaiting = q.awaiting \cap PendingBatches(batches')
  BY <1>2, <1>3, <1>4, QueuesClosed
<1>6. stoppingBatch' = IF send.closing /\ f.batch # NoBatch THEN f.batch ELSE stoppingBatch
  BY <1>1 DEF ChooseStoppingBatch
<1>7. stoppingBatch' \in BatchOrNone
  BY <1>2, <1>3, <1>4, <1>6 DEF BatchOrNone, SupervisorTypeOK
<1>8. ASSUME MailInv, q' \in Queues, q'.awaiting = f.q.awaiting,
             stopPhase' \in Ending <=> stopPhase \in Ending
      PROVE  \A x \in BatchIds : Mailed(x)'
  <2> TAKE x \in BatchIds
  <2>1. x \in PendingBatches(batches') <=> batches'[x].st = "pending"
    BY DEF PendingBatches
  <2>2. x = stoppingBatch' =>
          \/ x = stoppingBatch
          \/ send.closing /\ batches'[x].st = "pending" /\ ~batches'[x].trig
    <3>1. 0 \notin BatchIds
      BY JournalAssumption DEF BatchIds
    <3> QED BY <1>3, <1>6, <1>8, <2>1, <3>1 DEF NoBatch
  <2>3. x \in q'.awaiting <=> x \in q.awaiting /\ batches'[x].st = "pending"
    BY <1>5, <1>8, <2>1
  <2>4. UNCHANGED <<entries, checks, sends, queue, wake, run>> /\ send.by = "flush"
    BY <1>1 DEF parentVars, Flushing
  <2>5. \/ batches'[x] = batches[x]
        \/ /\ batches[x].st = "none" /\ batches'[x].st = "pending"
           /\ batches'[x].trig = send.trig
    BY <1>3
  <2> QED BY <1>1, <1>8, <2>2, <2>3, <2>4, <2>5, FreezeMailed
<1>9. ASSUME q' \in Queues, q'.awaiting = f.q.awaiting, send' \in Senders,
             admitted' \in BOOLEAN, again' \subseteq {"schedule", "retry"},
             scheduled' \in BOOLEAN, stopPhase' \in StopPhases,
             stopPhase' \in Ending <=> stopPhase \in Ending, StoppingInv',
             Flushing("ready")' =>
               send'.batch = f.batch /\ f.batch # NoBatch /\ f.batch \notin f.q.awaiting
      PROVE  Keeps
  <2>1. TypeOK' => SupervisorTypeOK'
    BY <1>1, <1>2, <1>7, <1>9 DEF SupervisorTypeOK, parentVars
  <2>2. ASSUME MailInv PROVE MailInv'
    <3>1. \A x \in BatchIds : Mailed(x)'
      BY <1>8, <1>9, <2>2
    <3>2. Flushing("ready")' => send'.batch \in Used' /\ send'.batch \notin q'.awaiting
      BY <1>3, <1>9 DEF Used, PendingBatches
    <3> QED BY <1>1, <2>2, <3>1, <3>2 DEF MailInv, parentVars
  <2>3. LogInv'
    <3>1. \A b \in BatchIds : batches'[b].st = "acked" => batches[b].st = "acked"
      BY <1>3
    <3> QED BY <1>1, <3>1, LogGrows DEF SupCore, LogInv, parentVars
  <2> QED BY <1>1, <1>3, <1>9, <2>1, <2>2, <2>3, SupStep
<1>10. ASSUME NEW qs \in Queues, qs.awaiting = f.q.awaiting, Release(TRUE, qs)
       PROVE  Keeps
  <2>1. /\ send' = NoSend /\ send' \in Senders
        /\ admitted' \in BOOLEAN /\ again' \subseteq {"schedule", "retry"}
        /\ q' \in Queues /\ q'.awaiting = qs.awaiting
        /\ scheduled' \in BOOLEAN /\ stopPhase' \in StopPhases
        /\ stopPhase # "sending" => stopPhase' = stopPhase
        /\ stopPhase = "sending" => stopPhase' \in {"sent", "failed"}
    BY <1>2, <1>3, <1>10, ReleaseFacts
  <2>2. stopPhase' \in Ending <=> stopPhase \in Ending
    BY <2>1 DEF Ending
  <2>3. StoppingInv'
    BY <1>1, <1>6, <2>1 DEF SupCore, StoppingInv, SameChildren, NoSend, Ending,
       parentVars
  <2>4. ~Flushing("ready")'
    BY <2>1 DEF Flushing, NoSend
  <2> QED BY <1>9, <1>10, <2>1, <2>2, <2>3, <2>4
<1>11. CASE FlushEmpty
  <2>1. Release(TRUE, f.q)
    BY <1>11 DEF FlushEmpty, f
  <2> QED BY <1>5, <1>10, <2>1
<1>12. CASE FlushShut
  <2>1. Release(TRUE, Unblocked(f.q, f.batch))
    BY <1>12 DEF FlushShut, f
  <2>2. Unblocked(f.q, f.batch) \in Queues
        /\ Unblocked(f.q, f.batch).awaiting = f.q.awaiting
    BY <1>3, <1>4, <1>5, QueuesClosed
  <2> QED BY <1>10, <2>1, <2>2
<1>13. CASE FlushPreflight
  <2>1. /\ q' = f.q /\ send' = [send EXCEPT !.at = "ready", !.batch = f.batch]
        /\ UNCHANGED <<admitted, again, stopPhase, scheduled>>
        /\ ~NothingToSend(f)
    BY <1>13 DEF FlushPreflight, f
  <2>2. send' \in Senders /\ send'.batch = f.batch
        /\ send'.closing = send.closing /\ send'.by = send.by /\ send'.trig = send.trig
    BY <1>2, <1>3, <1>4, <2>1 DEF Senders, BatchOrNone
  <2>3. f.batch # NoBatch /\ f.batch \notin f.q.awaiting
    BY <2>1 DEF NothingToSend
  <2>4. StoppingInv'
    BY <1>1, <1>6, <2>1, <2>2 DEF SupCore, StoppingInv, SameChildren, parentVars
  <2>5. /\ admitted' \in BOOLEAN /\ again' \subseteq {"schedule", "retry"}
        /\ scheduled' \in BOOLEAN /\ stopPhase' \in StopPhases
    BY <1>2, <2>1 DEF SupervisorTypeOK
  <2> QED BY <1>5, <1>9, <2>1, <2>2, <2>3, <2>4, <2>5
<1> QED BY <1>11, <1>12, <1>13

\* Handing over a batch that is with no one: from now on it is awaited, and
\* its message is in the parent's queue or opens a run.
LEMMA HandOverKeeps ==
  ASSUME SupCore, SameChildren, send.by = "flush", NEW b \in BatchIds,
         NEW qs \in Queues, batches' \in [BatchIds -> Batches], BatchInv',
         \A x \in BatchIds :
           \/ batches'[x] = batches[x]
           \/ /\ batches[x].st = "none" /\ batches'[x].st = "pending"
              /\ batches'[x].trig = send.trig,
         batches'[b].st = "pending",
         qs.awaiting \subseteq q.awaiting,
         \A x \in q.awaiting : batches'[x].st = "pending" => x \in qs.awaiting,
         MailInv => b \notin qs.awaiting, batches'[b].trig => ~Shut,
         stoppingBatch' = IF send.closing THEN b ELSE stoppingBatch,
         MailInv /\ send.closing => ~batches'[b].trig,
         HandOver(b, qs, batches'), UNCHANGED sendFaults
  PROVE  Keeps
<1>1. SupervisorTypeOK /\ send \in Senders /\ scheduled \in BOOLEAN
      /\ stopPhase \in StopPhases
  BY DEF SupCore, SupervisorTypeOK, TypeOK
<1>2. /\ q' = [qs EXCEPT !.awaiting = qs.awaiting \cup {b}]
      /\ sends' = sends \cup {b}
      /\ send' = [send EXCEPT !.at = "admit", !.batch = b]
      /\ UNCHANGED <<entries, checks, scheduled, stopPhase, again>>
  BY DEF HandOver
<1>3. \/ /\ run = "idle" /\ batches'[b].trig
         /\ run' = "starting" /\ wake' = b /\ admitted' \in BOOLEAN
         /\ UNCHANGED queue
      \/ /\ ~(run = "idle" /\ batches'[b].trig)
         /\ queue' = queue \cup {b} /\ admitted' \in BOOLEAN
         /\ UNCHANGED <<run, wake>>
  BY DEF HandOver, Streaming
<1>4. q' \in Queues /\ q'.awaiting = qs.awaiting \cup {b}
  BY <1>2 DEF Queues
<1>5. /\ send' \in Senders /\ send'.closing = send.closing /\ send'.by = send.by
      /\ send'.trig = send.trig /\ send'.at = "admit"
  BY <1>1, <1>2 DEF Senders, BatchOrNone
<1>6. NoBatch \notin BatchIds
  BY JournalAssumption DEF BatchIds, NoBatch
<1>7. /\ ~disposed /\ ~disposed' /\ (MailInv => b \notin q.awaiting)
      /\ Shut' = Shut /\ ownerStopping' = ownerStopping
      /\ stopPhase \in Ending => ~send.trig
      /\ send.closing => stopPhase \in Ending /\ stopping
  BY DEF SupCore, StoppingInv, SameChildren, Shut, IsStopping, Ending
<1>8. batches[b].st = "none" \/ (batches[b].st = "pending" /\ batches'[b] = batches[b])
  OBVIOUS
<1>9. MailInv => ~Handled(b)
  BY <1>7, <1>8 DEF MailInv, Mailed
<1>10. TypeOK' => SupervisorTypeOK'
  <2>1. stoppingBatch' \in BatchOrNone /\ wake' \in BatchOrNone /\ run' \in Runs
    BY <1>1, <1>3 DEF SupervisorTypeOK, BatchOrNone, Runs
  <2>2. queue' \subseteq BatchIds /\ sends' \subseteq BatchIds /\ admitted' \in BOOLEAN
    BY <1>1, <1>2, <1>3 DEF SupervisorTypeOK
  <2> QED BY <1>1, <1>2, <1>4, <1>5, <2>1, <2>2 DEF SupervisorTypeOK
<1>11. StoppingInv'
  <2>1. run' = "idle" \/ run' = run \/ ~stopping
    BY <1>3 DEF Shut, IsStopping
  <2> QED BY <1>2, <1>5, <1>7, <2>1 DEF SupCore, StoppingInv, SameChildren
<1>12. ASSUME MailInv, NEW x \in BatchIds, x # b PROVE Mailed(x)'
  <2>1. x \in sends' <=> x \in sends
    BY <1>2, <1>12
  <2>2. run = "idle" => wake = NoBatch
    BY <1>12 DEF MailInv
  <2>3. (x \in queue' <=> x \in queue) /\ (x = wake' <=> x = wake)
        /\ (run' = "idle" => run = "idle")
    BY <1>3, <1>6, <1>12, <2>2
  <2>4. /\ x \in q'.awaiting => x \in q.awaiting
        /\ x \in q.awaiting /\ batches'[x].st = "pending" => x \in q'.awaiting
    BY <1>4, <1>12
  <2>5. x = stoppingBatch' => x = stoppingBatch
    BY <1>12
  <2>6. UNCHANGED <<entries, checks, stopPhase>>
    BY <1>2
  <2> QED BY <1>12, <2>1, <2>3, <2>4, <2>5, <2>6, FreezeMailed
<1>13. ASSUME MailInv PROVE Mailed(b)'
  <2>1. b \notin queue /\ b \notin entries' /\ b \notin checks' /\ b # wake
    BY <1>2, <1>9, <1>13 DEF Handled
  <2>2. b \in q'.awaiting /\ b \in sends' /\ OnItsWay(b)'
    BY <1>2, <1>3, <1>4 DEF OnItsWay
  <2>3. b \in queue' => b # wake' /\ (batches'[b].trig => ~ownerStopping')
    BY <1>3, <1>7, <2>1 DEF Shut, IsStopping
  <2>4. stopPhase' \in Ending => ~batches'[b].trig
    <3>1. batches[b].st = "pending" /\ stopPhase \in Ending => ~batches[b].trig
      BY <1>13 DEF MailInv, Mailed
    <3> QED BY <1>2, <1>7, <1>8, <3>1
  <2>5. b = stoppingBatch' => ~batches'[b].trig
    <3>1. b = stoppingBatch => batches[b].st # "none" /\ ~batches[b].trig
      BY <1>13 DEF MailInv, Mailed
    <3> QED BY <1>8, <1>13, <3>1
  <2> QED BY <1>7, <2>1, <2>2, <2>3, <2>4, <2>5 DEF Mailed
<1>14. ASSUME MailInv PROVE MailInv'
  <2>1. run' = "idle" => wake' = NoBatch
    BY <1>3, <1>14 DEF MailInv
  <2>2. run' = "starting" => wake' \notin entries'
    BY <1>2, <1>3, <1>9, <1>14 DEF MailInv, Handled
  <2>3. run' \in {"boundary", "polling"} => wake' \in entries' \cup {NoBatch}
    BY <1>2, <1>3, <1>14 DEF MailInv
  <2>4. ~Flushing("ready")'
    BY <1>5 DEF Flushing
  <2> QED BY <1>12, <1>13, <1>14, <2>1, <2>2, <2>3, <2>4 DEF MailInv
<1>15. LogInv'
  <2>1. \A x \in BatchIds : batches'[x].st = "acked" => batches[x].st = "acked"
    OBVIOUS
  <2> QED BY <1>2, <2>1, LogGrows DEF SupCore, LogInv
<1> QED BY <1>1, <1>2, <1>10, <1>11, <1>14, <1>15, SupStep

\* A flush hands over what it found, at once or after its preflight.
LEMMA FlushHandOverKeeps ==
  ASSUME SupCore, FlushHandsOver \/ PreflightSucceeds
  PROVE  Keeps
<1>1. SupervisorTypeOK /\ q \in Queues /\ batches \in [BatchIds -> Batches]
  BY DEF SupCore, SupervisorTypeOK, TypeOK
<1>2. CASE FlushHandsOver
  <2> DEFINE f == Frozen
             qs == IF f.batches[f.batch].trig THEN Unblocked(f.q, f.batch) ELSE f.q
  <2>1. /\ Flushing("start") /\ f.fits /\ ~NothingToSend(f)
        /\ f.batches[f.batch].trig => Streaming /\ ~Shut
        /\ batches' = f.batches /\ ChooseStoppingBatch(f)
        /\ HandOver(f.batch, qs, f.batches)
        /\ SameChildren /\ UNCHANGED sendFaults
    BY <1>2 DEF FlushHandsOver
  <2>2. /\ batches' \in [BatchIds -> Batches]
        /\ f.q = Reconcile(q, PendingBatches(batches'))
        /\ f.batch \in PendingBatches(batches') \cup {NoBatch}
        /\ MailInv /\ send.closing /\ f.batch # NoBatch => ~batches'[f.batch].trig
        /\ \A b \in BatchIds :
             \/ batches'[b] = batches[b]
             \/ /\ batches[b].st = "none" /\ batches'[b].st = "pending"
                /\ batches'[b].trig = send.trig
        /\ BatchInv'
    BY <2>1, FrozenFacts DEF SameChildren
  <2>3. f.batch # NoBatch /\ f.batch \notin f.q.awaiting
    BY <2>1 DEF NothingToSend
  <2>4. PendingBatches(batches') \in SUBSET BatchIds
    BY DEF PendingBatches
  <2>5. f.batch \in BatchIds /\ batches'[f.batch].st = "pending"
    BY <2>2, <2>3 DEF PendingBatches
  <2>6. HandOver(f.batch, qs, batches')
    BY <2>1
  <2>7. batches'[f.batch].trig => ~Shut
    BY <2>1
  <2> HIDE DEF f
  <2>8. /\ f.q \in Queues /\ f.q.awaiting = q.awaiting \cap PendingBatches(batches')
        /\ qs \in Queues /\ qs.awaiting = f.q.awaiting
    <3>1. f.q \in Queues /\ f.q.awaiting = q.awaiting \cap PendingBatches(batches')
      BY <1>1, <2>2, <2>4, QueuesClosed
    <3>2. /\ Unblocked(f.q, f.batch) \in Queues
          /\ Unblocked(f.q, f.batch).awaiting = f.q.awaiting
      BY <1>1, <2>4, <3>1, QueuesClosed
    <3> QED BY <3>1, <3>2
  <2>9. /\ qs.awaiting \subseteq q.awaiting
        /\ \A x \in q.awaiting : batches'[x].st = "pending" => x \in qs.awaiting
    BY <1>1, <2>8 DEF PendingBatches, Queues
  <2>10. stoppingBatch' = IF send.closing THEN f.batch ELSE stoppingBatch
    BY <2>1, <2>3 DEF ChooseStoppingBatch
  <2> HIDE DEF qs
  <2> QED BY <2>1, <2>2, <2>3, <2>5, <2>6, <2>7, <2>8, <2>9, <2>10, HandOverKeeps
          DEF Flushing
<1>3. CASE PreflightSucceeds
  <2> DEFINE b == send.batch
             qs == Unblocked(q, b)
  <2>1. qs \in Queues /\ qs.awaiting = q.awaiting
    BY <1>1, QueuesClosed
  <2>2. /\ Flushing("ready") /\ UNCHANGED batches /\ SameChildren
        /\ UNCHANGED <<stoppingBatch, sendFaults>>
        /\ \/ /\ Release(TRUE, qs)
              /\ UNCHANGED <<parentVars, sends, checks>>
           \/ /\ ~Shut /\ b \in PendingBatches(batches)
              /\ HandOver(b, qs, batches)
    BY <1>3 DEF PreflightSucceeds
  <2> HIDE DEF qs
  <2>3. CASE Release(TRUE, qs) /\ UNCHANGED <<parentVars, sends, checks>>
    BY <1>1, <2>1, <2>2, <2>3, ReleaseKeeps DEF SupervisorTypeOK
  <2>4. CASE ~Shut /\ b \in PendingBatches(batches) /\ HandOver(b, qs, batches)
    <3>1. b \in BatchIds /\ batches[b].st = "pending" /\ send.by = "flush"
          /\ (MailInv => b \notin q.awaiting)
      BY <2>2, <2>4 DEF PendingBatches, MailInv, Flushing
    <3>2. ~send.closing
      BY <2>4 DEF SupCore, StoppingInv, Shut, IsStopping
    <3>3. BatchInv'
      BY <2>2, SameBatches
    <3>4. HandOver(b, qs, batches') /\ batches' \in [BatchIds -> Batches]
      BY <1>1, <2>2, <2>4
    <3> QED BY <2>1, <2>2, <2>4, <3>1, <3>2, <3>3, <3>4, HandOverKeeps
  <2> QED BY <2>2, <2>3, <2>4
<1> QED BY <1>2, <1>3


-----------------------------------------------------------------------------
(* The parent's answers: a message that is persisted, a send that is over. *)

\* A step about another batch leaves this one's message where it is.
LEMMA OtherMailed ==
  ASSUME MailInv, SameChildren, UNCHANGED stoppingBatch, NEW x \in BatchIds,
         batches'[x] = batches[x], x \in sends' <=> x \in sends,
         x \in queue' <=> x \in queue, x \in checks' <=> x \in checks,
         x \in entries' <=> x \in entries, x = wake' <=> x = wake,
         x \in q'.awaiting <=> x \in q.awaiting,
         run' = "idle" => run = "idle" \/ checks = {},
         stopPhase' \in Ending <=> stopPhase \in Ending
  PROVE  Mailed(x)'
<1>1. Mailed(x)
  BY DEF MailInv
<1>2. Shut' = Shut /\ UNCHANGED <<ownerStopping, closing, disposed>>
  BY DEF Shut, IsStopping, SameChildren
<1> QED BY <1>1, <1>2 DEF Mailed, Handled, OnItsWay

\* Acknowledging a pending batch touches that batch, and what is noted of it.
LEMMA AcknowledgeFacts ==
  ASSUME SupCore, UNCHANGED <<jobs, child>>, NEW b \in BatchIds, batches[b].st = "pending",
         Acknowledge(b)
  PROVE  /\ batches' \in [BatchIds -> Batches]
         /\ batches'[b].st = "acked" /\ batches'[b].trig = batches[b].trig
         /\ \A x \in BatchIds : x # b => batches'[x] = batches[x]
         /\ BatchInv'
         /\ q' \in Queues /\ q'.awaiting = q.awaiting \ {b}
         /\ admitted' \in BOOLEAN /\ scheduled' \in BOOLEAN
<1>1. /\ batches \in [BatchIds -> Batches] /\ q \in Queues /\ admitted \in BOOLEAN
      /\ scheduled \in BOOLEAN
  BY DEF SupCore, SupervisorTypeOK, TypeOK
<1>2. batches' = [batches EXCEPT ![b].st = "acked"]
  BY DEF Acknowledge, NotificationAck
<1>3. /\ batches'[b].st = "acked" /\ batches'[b].trig = batches[b].trig
      /\ batches'[b].out = batches[b].out /\ batches'[b] \in Batches
      /\ \A x \in BatchIds : x # b => batches'[x] = batches[x]
  BY <1>1, <1>2 DEF Batches
<1>4. batches' \in [BatchIds -> Batches]
  BY <1>1, <1>2, <1>3
<1>5. \A x \in BatchIds :
        /\ batches'[x].out = batches[x].out
        /\ batches'[x].st = "none" <=> batches[x].st = "none"
        /\ batches'[x].st \in {"pending", "acked"} =>
             batches[x].st \in {"pending", "acked"}
  BY <1>3
<1>6. BatchInv'
  BY <1>5, FinalsStand, BatchesEnd DEF SupCore
<1>7. q' \in Queues /\ q'.awaiting = q.awaiting \ {b}
  BY <1>1, QueuesClosed DEF Acknowledge
<1>8. admitted' \in BOOLEAN /\ scheduled' \in BOOLEAN
  BY <1>1 DEF Acknowledge
<1> QED BY <1>3, <1>4, <1>6, <1>7, <1>8

\* What a step about one batch, the flags of the stop aside, keeps.
LEMMA OneBatchKeeps ==
  ASSUME SupCore, SameChildren, NEW b \in BatchIds,
         UNCHANGED <<stopPhase, send, again, stoppingBatch, sendFaults>>,
         batches' \in [BatchIds -> Batches], BatchInv',
         \A x \in BatchIds : x # b => batches'[x] = batches[x],
         batches'[b].st = "acked" => batches[b].st = "acked" \/ b \in entries',
         b \in checks' => b \in entries',
         q' \in Queues, q'.awaiting \in {q.awaiting, q.awaiting \ {b}},
         admitted' \in BOOLEAN, scheduled' \in BOOLEAN,
         sends' \in {sends, sends \ {b}}, queue' \in {queue, queue \ {b}},
         checks' \in {checks, checks \cup {b}, checks \ {b}},
         entries' \in {entries, entries \cup {b}},
         UNCHANGED <<run, wake>>,
         MailInv => /\ Mailed(b)' /\ batches'[b].st # "none"
                    /\ entries' = entries \/ run # "starting"
  PROVE  Keeps
<1>1. SupervisorTypeOK /\ stopPhase' \in StopPhases
  BY DEF SupCore, SupervisorTypeOK, TypeOK
<1>2. TypeOK' => SupervisorTypeOK'
  BY <1>1 DEF SupervisorTypeOK
<1>3. StoppingInv'
  BY DEF SupCore, StoppingInv, SameChildren
<1>4. ASSUME MailInv, NEW x \in BatchIds PROVE Mailed(x)'
  <2>1. CASE x # b
    BY <1>4, <2>1, OtherMailed
  <2> QED BY <1>4, <2>1
<1>5. MailInv /\ Flushing("ready")' =>
        send'.batch \in Used' /\ send'.batch \notin q'.awaiting
  BY DEF MailInv, Flushing, Used
<1>6. MailInv => MailInv'
  BY <1>4, <1>5 DEF MailInv
<1>7. LogInv'
  <2>1. checks' \subseteq entries'
    BY DEF SupCore, LogInv
  <2>2. \A x \in BatchIds :
          batches'[x].st = "acked" => batches[x].st = "acked" \/ x \in entries'
    OBVIOUS
  <2> QED BY <2>1, <2>2, LogGrows DEF SupCore
<1> QED BY <1>1, <1>2, <1>3, <1>6, <1>7, SupStep

\* The parent persists a message it holds: the batch is acknowledged, or about
\* to be.
LEMMA PersistKeeps ==
  ASSUME SupCore, SameChildren, NEW b \in BatchIds, Persist(b),
         UNCHANGED <<stopPhase, send, again, stoppingBatch, sendFaults, sends>>,
         UNCHANGED <<run, wake>>, queue' \in {queue, queue \ {b}},
         run # "starting",
         MailInv => /\ batches[b].st = "pending" /\ b \notin queue'
                    /\ run = "idle" => b \in sends
                    /\ b \in queue \/ b = wake
  PROVE  Keeps
<1>1. /\ batches \in [BatchIds -> Batches] /\ q \in Queues /\ admitted \in BOOLEAN
      /\ scheduled \in BOOLEAN
  BY DEF SupCore, SupervisorTypeOK, TypeOK
<1>2. /\ entries' = entries \cup {b} /\ disposed' = disposed
      /\ MailInv => Mailed(b)
  BY DEF MailInv, Persist, SameChildren
<1>3. b \in PendingBatches(batches) <=> batches[b].st = "pending"
  BY DEF PendingBatches
<1>4. CASE batches[b].st = "pending" /\ Acknowledge(b) /\ UNCHANGED checks
  <2>1. /\ batches' \in [BatchIds -> Batches]
        /\ batches'[b].st = "acked" /\ batches'[b].trig = batches[b].trig
        /\ \A x \in BatchIds : x # b => batches'[x] = batches[x]
        /\ BatchInv'
        /\ q' \in Queues /\ q'.awaiting = q.awaiting \ {b}
        /\ admitted' \in BOOLEAN /\ scheduled' \in BOOLEAN
    BY <1>4, AcknowledgeFacts DEF SameChildren
  <2>2. MailInv => Mailed(b)'
    BY <1>2, <1>4, <2>1 DEF Mailed
  <2> QED BY <1>2, <1>4, <2>1, <2>2, OneBatchKeeps
<1>5. CASE IgnoreMessage
           /\ (disposed \/ batches[b].st # "pending" \/ checks' = checks \cup {b})
           /\ checks' \in {checks, checks \cup {b}}
  <2>1. BatchInv'
    BY <1>5, SameBatches DEF IgnoreMessage
  <2>2. ASSUME MailInv PROVE Mailed(b)'
    <3>1. UNCHANGED <<batches, q, closing, ownerStopping, stopping>>
      BY <1>5 DEF IgnoreMessage, SameChildren
    <3>2. b \in checks' \/ disposed'
      BY <1>2, <1>5, <2>2
    <3>3. b \in checks' => b \in entries' /\ (run' = "idle" => b \in sends')
      BY <1>2, <2>2
    <3>4. Shut' = Shut /\ (Handled(b)' => b \in q'.awaiting \/ disposed')
      BY <1>2, <2>2, <3>1 DEF Shut, IsStopping, Mailed, Handled
    <3> QED BY <1>2, <2>2, <3>1, <3>2, <3>3, <3>4 DEF Mailed, OnItsWay
  <2> QED BY <1>1, <1>2, <1>5, <2>1, <2>2, OneBatchKeeps DEF IgnoreMessage
<1> QED BY <1>3, <1>4, <1>5 DEF Persist

\* The three ways a message gets into the parent's log.
LEMMA MessageKeeps ==
  ASSUME SupCore, WakeMessage \/ \E b \in BatchIds : PollSteer(b) \/ AppendMessage(b)
  PROVE  Keeps
<1>1. CASE WakeMessage
  <2>1. wake \in BatchIds /\ (MailInv => Mailed(wake))
    BY <1>1 DEF WakeMessage, SupCore, SupervisorTypeOK, BatchOrNone, MailInv
  <2>2. /\ SameChildren /\ Persist(wake) /\ run = "running"
        /\ UNCHANGED <<stopPhase, send, again, stoppingBatch, sendFaults, sends>>
        /\ UNCHANGED <<run, wake, queue>> /\ wake \notin entries
    BY <1>1 DEF WakeMessage, ParentOnly
  <2>3. MailInv => wake \notin queue /\ batches[wake].st = "pending"
    BY <2>1, <2>2 DEF Mailed, Handled, SupCore, SupervisorTypeOK, TypeOK, Batches
  <2> QED BY <2>1, <2>2, <2>3, PersistKeeps
<1>2. ASSUME NEW b \in BatchIds, PollSteer(b) \/ AppendMessage(b)
      PROVE  Keeps
  <2>1. /\ SameChildren /\ Persist(b) /\ b \in queue /\ queue' = queue \ {b}
        /\ run = "polling" \/ (run = "idle" /\ ~batches[b].trig)
        /\ UNCHANGED <<stopPhase, send, again, stoppingBatch, sendFaults, sends>>
        /\ UNCHANGED <<run, wake>>
    BY <1>2 DEF PollSteer, AppendMessage, ParentOnly
  <2>2. (MailInv => Mailed(b)) /\ (closing => run = "idle")
    BY DEF MailInv, SupCore, StoppingInv
  <2>3. MailInv => batches[b].st = "pending" /\ (run = "idle" => b \in sends)
    BY <2>1, <2>2 DEF Mailed, Handled, SupCore, SupervisorTypeOK, TypeOK, Batches
  <2> QED BY <2>1, <2>3, PersistKeeps
<1> QED BY <1>1, <1>2

\* A send that is over, and a check that looks at the log again.
LEMMA SendResolvesKeeps ==
  ASSUME SupCore, NEW b \in BatchIds, SendResolves(b)
  PROVE  Keeps
<1>1. /\ batches \in [BatchIds -> Batches] /\ q \in Queues /\ admitted \in BOOLEAN
      /\ scheduled \in BOOLEAN
  BY DEF SupCore, SupervisorTypeOK, TypeOK
<1>2. /\ SameChildren /\ sends' = sends \ {b} /\ b \in sends /\ b \notin checks
      /\ batches[b].trig \/ b \notin queue
      /\ UNCHANGED <<batches, scheduled, stopPhase, run, queue, wake, entries,
                     send, admitted, again, checks, stoppingBatch, sendFaults>>
  BY DEF SendResolves, parentVars
<1>3. q' \in Queues /\ q'.awaiting = q.awaiting
  BY <1>1, QueuesClosed DEF SendResolves
<1>4. BatchInv'
  BY <1>2, SameBatches
<1>5. MailInv => Mailed(b)
  BY DEF MailInv
<1>6. MailInv => Mailed(b)' /\ batches'[b].st # "none"
  <2>1. Shut' = Shut /\ UNCHANGED <<ownerStopping, closing, disposed>>
    BY <1>2 DEF Shut, IsStopping, SameChildren
  <2> QED BY <1>2, <1>3, <1>5, <2>1 DEF Mailed, Handled, OnItsWay
<1> QED BY <1>1, <1>2, <1>3, <1>4, <1>6, OneBatchKeeps

\* The microtask that looks for a message in the log.
LEMMA CheckTaskKeeps ==
  ASSUME SupCore, NEW b \in BatchIds, CheckTask(b)
  PROVE  Keeps
<1>1. /\ batches \in [BatchIds -> Batches] /\ q \in Queues /\ admitted \in BOOLEAN
      /\ scheduled \in BOOLEAN
  BY DEF SupCore, SupervisorTypeOK, TypeOK
<1>2. /\ SameChildren /\ b \in checks /\ checks' = checks \ {b}
      /\ UNCHANGED <<stopPhase, run, queue, wake, entries, sends, send, again,
                     stoppingBatch, sendFaults>>
  BY DEF CheckTask, parentVars
<1>3. /\ b \in entries
      /\ MailInv => Mailed(b) /\ b \notin queue /\ batches[b].st # "none"
  BY <1>2 DEF SupCore, LogInv, MailInv, Mailed, Handled
<1>4. CASE Acknowledge(b) /\ batches[b].st = "pending"
  <2>1. /\ batches' \in [BatchIds -> Batches]
        /\ batches'[b].st = "acked" /\ batches'[b].trig = batches[b].trig
        /\ \A x \in BatchIds : x # b => batches'[x] = batches[x]
        /\ BatchInv'
        /\ q' \in Queues /\ q'.awaiting = q.awaiting \ {b}
        /\ admitted' \in BOOLEAN /\ scheduled' \in BOOLEAN
    BY <1>2, <1>4, AcknowledgeFacts DEF SameChildren
  <2>2. MailInv => Mailed(b)'
    BY <1>2, <1>3, <2>1 DEF Mailed
  <2> QED BY <1>2, <1>3, <2>1, <2>2, OneBatchKeeps
<1>5. CASE IgnoreMessage /\ (disposed \/ batches[b].st # "pending")
  <2>1. BatchInv'
    BY <1>2, <1>5, SameBatches DEF IgnoreMessage
  <2>2. UNCHANGED <<batches, q, admitted, scheduled>>
    BY <1>5 DEF IgnoreMessage
  <2>3. Shut' = Shut /\ UNCHANGED <<ownerStopping, closing, disposed>>
    BY <1>2 DEF Shut, IsStopping, SameChildren
  <2>4. MailInv => Mailed(b)'
    BY <1>2, <1>3, <1>5, <2>2, <2>3 DEF Mailed, Handled, OnItsWay
  <2> QED BY <1>1, <1>2, <1>3, <2>1, <2>2, <2>4, OneBatchKeeps
<1> QED BY <1>3, <1>4, <1>5 DEF CheckTask, PendingBatches

\* A send that failed: its message is with no one, unless it is in the log.
LEMMA SendRejectsKeeps ==
  ASSUME SupCore, NEW b \in BatchIds, SendRejects(b)
  PROVE  Keeps
<1>1. /\ SupervisorTypeOK /\ batches \in [BatchIds -> Batches] /\ q \in Queues
      /\ admitted \in BOOLEAN /\ scheduled \in BOOLEAN /\ stopPhase \in StopPhases
      /\ send \in Senders
  BY DEF SupCore, SupervisorTypeOK, TypeOK
<1>2. /\ SameChildren /\ b \in sends /\ b \in queue \cup {wake}
      /\ wake = b => checks = {}
      /\ sends' = sends \ {b} /\ queue' = queue \ {b}
      /\ IF wake = b THEN run' = "idle" /\ wake' = NoBatch
                     ELSE UNCHANGED <<run, wake>>
      /\ UNCHANGED <<entries, checks, stoppingBatch>>
  BY DEF SendRejects
<1>3. sendFaults' \in 0 .. MaxSendFaults
  BY <1>1, CanFailSendFaults DEF SendRejects
<1>4. MailInv => /\ Mailed(b) /\ batches[b].st # "none"
                 /\ b \in queue => b \notin entries /\ b # wake
  BY <1>2 DEF MailInv, Mailed, Handled
<1>5. /\ Shut' = Shut /\ UNCHANGED <<ownerStopping, closing, disposed, stopping>>
      /\ NoBatch \notin BatchIds /\ NoBatch \in BatchOrNone
  BY <1>2, JournalAssumption DEF Shut, IsStopping, SameChildren, BatchIds, NoBatch,
     BatchOrNone
<1>6. ASSUME batches' \in [BatchIds -> Batches], BatchInv',
             MailInv => Mailed(b)' /\ batches'[b].st # "none",
             batches'[b].st = "acked" => batches[b].st = "acked" \/ b \in entries,
             \A x \in BatchIds : x # b => batches'[x] = batches[x],
             q' \in Queues, q'.awaiting \in {q.awaiting, q.awaiting \ {b}},
             admitted' \in BOOLEAN, again' \subseteq {"schedule", "retry"},
             scheduled' \in BOOLEAN, stopPhase' \in StopPhases, send' \in Senders,
             stopPhase' \in Ending <=> stopPhase \in Ending,
             stopPhase' # "idle" => stopPhase # "idle",
             send'.by = "admission" => send.by = "admission",
             send'.closing <=> stopPhase' = "sending",
             send'.closing => send'.by = "flush" /\ ~send'.trig,
             stopPhase' \in Ending \ {"sending"} => send'.by = "none",
             disposed => stopPhase' \in {"idle", "closed"} /\ send'.by = "none",
             Flushing("ready")' => send' = send
      PROVE  Keeps
  <2>1. run' \in Runs /\ wake' \in BatchOrNone /\ (run = "idle" => run' = "idle")
    BY <1>1, <1>2, <1>5 DEF SupervisorTypeOK, Runs
  <2>2. TypeOK' => SupervisorTypeOK'
    BY <1>1, <1>2, <1>3, <1>6, <2>1 DEF SupervisorTypeOK
  <2>3. StoppingInv'
    BY <1>2, <1>5, <1>6, <2>1 DEF SupCore, StoppingInv
  <2>4. ASSUME MailInv, NEW x \in BatchIds PROVE Mailed(x)'
    <3>1. CASE x # b
      <4>1. x \in sends' <=> x \in sends
        BY <1>2, <3>1
      <4>2. (x \in queue' <=> x \in queue) /\ (x = wake' <=> x = wake)
        BY <1>2, <1>5, <3>1
      <4>3. run' = "idle" => run = "idle" \/ checks = {}
        BY <1>2
      <4>4. x \in q'.awaiting <=> x \in q.awaiting
        BY <1>6, <3>1
      <4> QED BY <1>2, <1>6, <2>4, <3>1, <4>1, <4>2, <4>3, <4>4, OtherMailed
    <3> QED BY <1>6, <2>4, <3>1
  <2>5. MailInv /\ Flushing("ready")' =>
          send'.batch \in Used' /\ send'.batch \notin q'.awaiting
    BY <1>6 DEF MailInv, Flushing, Used
  <2>6. MailInv => MailInv'
    BY <1>2, <2>4, <2>5 DEF MailInv
  <2>7. LogInv'
    <3>1. checks' \subseteq entries'
      BY <1>2 DEF SupCore, LogInv
    <3>2. \A x \in BatchIds :
            batches'[x].st = "acked" => batches[x].st = "acked" \/ x \in entries'
      BY <1>2, <1>6
    <3> QED BY <1>2, <3>1, <3>2, LogGrows DEF SupCore
  <2> QED BY <1>2, <1>6, <2>2, <2>3, <2>6, <2>7, SupStep
<1>7. CASE /\ b \in PendingBatches(batches) \cap entries
           /\ Acknowledge(b) /\ UNCHANGED <<send, again, stopPhase>>
  <2>1. batches[b].st = "pending" /\ b \in entries
    BY <1>7 DEF PendingBatches
  <2>2. /\ batches' \in [BatchIds -> Batches]
        /\ batches'[b].st = "acked" /\ batches'[b].trig = batches[b].trig
        /\ \A x \in BatchIds : x # b => batches'[x] = batches[x]
        /\ BatchInv'
        /\ q' \in Queues /\ q'.awaiting = q.awaiting \ {b}
        /\ admitted' \in BOOLEAN /\ scheduled' \in BOOLEAN
    BY <1>2, <1>7, <2>1, AcknowledgeFacts DEF SameChildren
  <2>3. MailInv => b \notin checks /\ b \notin queue'
    BY <1>2, <1>4, <2>1
  <2>4. MailInv => Mailed(b)'
    BY <1>2, <1>4, <1>5, <2>1, <2>2, <2>3 DEF Mailed
  <2>5. again' \subseteq {"schedule", "retry"} /\ stopPhase' \in StopPhases
        /\ send' \in Senders
    BY <1>1, <1>7 DEF SupervisorTypeOK
  <2> QED BY <1>6, <1>7, <2>1, <2>2, <2>4, <2>5 DEF SupCore, StoppingInv
<1>8. CASE b \notin PendingBatches(batches) \cap entries /\ RejectUnpersisted(b)
  <2> DEFINE forgot == [q EXCEPT !.awaiting = @ \ {b}]
             qs == IF b \notin PendingBatches(batches) THEN Coherent(q, batches)
                   ELSE IF batches[b].trig THEN Block(forgot, b, batches)
                   ELSE forgot
  <2>1. forgot \in Queues /\ forgot.awaiting = q.awaiting \ {b}
    BY <1>1 DEF Queues
  <2> HIDE DEF forgot
  <2>2. /\ Coherent(q, batches) \in Queues
        /\ Coherent(q, batches).awaiting = q.awaiting
        /\ Block(forgot, b, batches) \in Queues
        /\ Block(forgot, b, batches).awaiting = forgot.awaiting
    BY <1>1, <2>1, QueuesClosed
  <2>3. /\ qs \in Queues
        /\ qs.awaiting = IF b \in PendingBatches(batches) THEN q.awaiting \ {b}
                                                          ELSE q.awaiting
    BY <2>1, <2>2
  <2>4. /\ UNCHANGED batches
        /\ \/ Flushing("admit") /\ Release(FALSE, qs)
           \/ q' = qs /\ UNCHANGED <<send, admitted, again, scheduled, stopPhase>>
    BY <1>8 DEF RejectUnpersisted, forgot
  <2> HIDE DEF qs
  <2>5. BatchInv'
    BY <1>2, <2>4, SameBatches
  <2>6. ASSUME MailInv, q'.awaiting = qs.awaiting, stopPhase' \in Ending <=> stopPhase \in Ending
        PROVE  Mailed(b)'
    <3>1. b \in PendingBatches(batches) <=> batches[b].st = "pending"
      BY DEF PendingBatches
    <3>2. /\ b \notin queue' /\ b \notin sends' /\ b # wake'
          /\ batches[b].st = "pending" =>
               b \notin entries /\ b \notin checks /\ b \notin q'.awaiting
      BY <1>2, <1>4, <1>5, <1>8, <2>3, <2>6, <3>1 DEF Mailed
    <3>3. b \in checks' /\ run' = "idle" => b \in sends'
      <4>1. CASE wake = b
        BY <1>2, <4>1
      <4>2. CASE wake # b
        BY <1>2, <1>4, <2>6, <4>2 DEF Mailed
      <4> QED BY <4>1, <4>2
    <3> QED BY <1>2, <1>4, <1>5, <2>3, <2>4, <2>6, <3>1, <3>2, <3>3
            DEF Mailed, Handled
  <2>7. CASE Flushing("admit") /\ Release(FALSE, qs)
    <3>1. /\ send' = NoSend /\ send' \in Senders
          /\ admitted' \in BOOLEAN /\ again' \subseteq {"schedule", "retry"}
          /\ q' \in Queues /\ q'.awaiting = qs.awaiting
          /\ scheduled' \in BOOLEAN /\ stopPhase' \in StopPhases
          /\ stopPhase # "sending" => stopPhase' = stopPhase
          /\ stopPhase = "sending" => stopPhase' \in {"sent", "failed"}
      BY <1>1, <2>3, <2>4, <2>7, ReleaseFacts
    <3>2. stopPhase' \in Ending <=> stopPhase \in Ending
      BY <3>1 DEF Ending
    <3>3. /\ ~send'.closing /\ send'.by = "none" /\ ~Flushing("ready")'
          /\ stopPhase' # "sending"
      BY <3>1 DEF NoSend, Flushing
    <3>4. disposed => stopPhase' \in {"idle", "closed"}
      BY <3>1 DEF SupCore, StoppingInv
    <3>5. q'.awaiting \in {q.awaiting, q.awaiting \ {b}}
      BY <2>3, <3>1
    <3>6. stopPhase' # "idle" => stopPhase # "idle"
      BY <3>1
    <3> QED BY <1>1, <1>4, <1>6, <2>4, <2>5, <2>6, <3>1, <3>2, <3>3, <3>4, <3>5, <3>6
  <2>8. CASE q' = qs /\ UNCHANGED <<send, admitted, again, scheduled, stopPhase>>
    <3>1. again' \subseteq {"schedule", "retry"} /\ q'.awaiting = qs.awaiting
      BY <1>1, <2>8 DEF SupervisorTypeOK
    <3>2. q'.awaiting \in {q.awaiting, q.awaiting \ {b}}
      BY <2>3, <3>1
    <3>3. /\ send'.closing <=> stopPhase' = "sending"
          /\ send'.closing => send'.by = "flush" /\ ~send'.trig
          /\ stopPhase' \in Ending \ {"sending"} => send'.by = "none"
          /\ disposed => stopPhase' \in {"idle", "closed"} /\ send'.by = "none"
      BY <2>8 DEF SupCore, StoppingInv
    <3> QED BY <1>1, <1>4, <1>6, <2>3, <2>4, <2>5, <2>6, <2>8, <3>1, <3>2, <3>3
  <2> QED BY <2>4, <2>7, <2>8
<1> QED BY <1>7, <1>8 DEF SendRejects

-----------------------------------------------------------------------------
(* The parent's run.                                                       *)

\* The run goes on, or starts, without an end of a run.
LEMMA RunKeeps ==
  ASSUME SupCore, SameChildren,
         UNCHANGED <<batches, queue, wake, entries, sends, checks, stoppingBatch,
                     sendFaults>>,
         q' \in Queues, q'.awaiting = q.awaiting, admitted' \in BOOLEAN,
         again' \subseteq {"schedule", "retry"}, scheduled' \in BOOLEAN,
         stopPhase' \in StopPhases, stopPhase' \in Ending <=> stopPhase \in Ending,
         send' \in Senders, StoppingInv', Flushing("ready")' => send' = send,
         run' \in Runs, run' = "idle" => run = "idle",
         MailInv => /\ run' = "starting" => wake \notin entries
                    /\ run' \in {"boundary", "polling"} =>
                         wake \in entries \cup {NoBatch}
  PROVE  Keeps
<1>1. SupervisorTypeOK /\ batches' \in [BatchIds -> Batches]
  BY DEF SupCore, SupervisorTypeOK, TypeOK
<1>2. TypeOK' => SupervisorTypeOK'
  BY <1>1 DEF SupervisorTypeOK
<1>3. BatchInv'
  BY SameBatches
<1>4. MailInv => \A x \in BatchIds : Mailed(x)'
  BY OtherMailed
<1>5. MailInv /\ Flushing("ready")' =>
        send'.batch \in Used' /\ send'.batch \notin q'.awaiting
  BY DEF MailInv, Flushing, Used
<1>6. MailInv => MailInv'
  BY <1>4, <1>5 DEF MailInv
<1>7. LogInv'
  BY LogStands
<1> QED BY <1>1, <1>2, <1>3, <1>6, <1>7, SupStep

\* Prompts, native runs and turns.
LEMMA PromptKeeps ==
  ASSUME SupCore, PromptAdmitted \/ NativeStart \/ PromptEnds \/ TurnEnds
  PROVE  Keeps
<1>1. /\ SupervisorTypeOK /\ q \in Queues /\ batches \in [BatchIds -> Batches]
      /\ scheduled \in BOOLEAN /\ stopPhase \in StopPhases /\ send \in Senders
      /\ admitted \in BOOLEAN /\ again \subseteq {"schedule", "retry"} /\ run \in Runs
  BY DEF SupCore, SupervisorTypeOK, TypeOK
<1>2. /\ SameChildren
      /\ UNCHANGED <<batches, queue, wake, entries, sends, checks, stoppingBatch,
                     sendFaults>>
  BY DEF PromptAdmitted, NativeStart, PromptEnds, TurnEnds, ParentOnly,
     SupervisorSame, parentVars, sendVars
<1>3. MailInv /\ run = "idle" => wake \notin entries
  BY <1>1, JournalAssumption DEF MailInv, SupervisorTypeOK, BatchIds, NoBatch
<1>4. MailInv => /\ run = "starting" => wake \notin entries
                 /\ run \in {"boundary", "polling"} => wake \in entries \cup {NoBatch}
  BY DEF MailInv
<1>5. CASE PromptAdmitted
  <2>1. /\ send.by = "none" /\ ~Shut /\ send' = [NoSend EXCEPT !.by = "admission"]
        /\ UNCHANGED <<scheduled, run, admitted, again, q, stopPhase>>
    BY <1>5 DEF PromptAdmitted, ParentOnly, parentVars
  <2>2. /\ send' \in Senders /\ send'.by = "admission" /\ ~send'.closing
        /\ ~Flushing("ready")'
    BY <2>1 DEF NoSend, Senders, BatchOrNone, Flushing
  <2>3. StoppingInv'
    BY <1>2, <2>1, <2>2 DEF SupCore, StoppingInv, SameChildren, Shut, IsStopping, Ending
  <2> QED BY <1>1, <1>2, <1>3, <1>4, <2>1, <2>2, <2>3, RunKeeps
<1>6. CASE NativeStart
  <2>1. /\ send.by = "admission" /\ run = "idle" /\ run' = "starting"
        /\ send' = [send EXCEPT !.at = "admit"]
        /\ UNCHANGED <<scheduled, admitted, again, q, stopPhase>>
    BY <1>6 DEF NativeStart, ParentOnly
  <2>2. /\ send' \in Senders /\ send'.by = send.by /\ send'.closing = send.closing
        /\ send'.trig = send.trig /\ ~Flushing("ready")' /\ run' \in Runs
    BY <1>1, <2>1 DEF Senders, Flushing, Runs
  <2>3. StoppingInv'
    BY <1>2, <2>1, <2>2 DEF SupCore, StoppingInv, SameChildren
  <2> QED BY <1>1, <1>2, <1>3, <2>1, <2>2, <2>3, RunKeeps
<1>7. CASE PromptEnds
  <2>1. /\ send.by = "admission" /\ Release(TRUE, q)
        /\ run' = run \/ (run = "idle" /\ run' = "starting")
    BY <1>7 DEF PromptEnds
  <2>2. /\ send' = NoSend /\ send' \in Senders
        /\ admitted' \in BOOLEAN /\ again' \subseteq {"schedule", "retry"}
        /\ q' \in Queues /\ q'.awaiting = q.awaiting
        /\ scheduled' \in BOOLEAN /\ stopPhase' \in StopPhases
        /\ stopPhase # "sending" => stopPhase' = stopPhase
        /\ stopPhase = "sending" => stopPhase' \in {"sent", "failed"}
    BY <1>1, <1>2, <2>1, ReleaseFacts
  <2>3. ~stopping /\ stopPhase' = stopPhase /\ stopPhase = "idle"
    BY <2>1, <2>2 DEF SupCore, StoppingInv
  <2>4. StoppingInv'
    BY <1>2, <2>2, <2>3 DEF SupCore, StoppingInv, SameChildren, NoSend, Ending
  <2>5. run' \in Runs /\ ~Flushing("ready")'
    BY <1>1, <2>1, <2>2 DEF Runs, NoSend, Flushing
  <2> QED BY <1>1, <1>2, <1>3, <1>4, <2>1, <2>2, <2>3, <2>4, <2>5, RunKeeps
<1>8. CASE TurnEnds
  <2>1. /\ run = "running" /\ (wake = NoBatch \/ wake \in entries)
        /\ run' = "boundary"
        /\ UNCHANGED <<scheduled, send, admitted, again, q, stopPhase>>
    BY <1>8 DEF TurnEnds, ParentOnly, SupervisorSame, sendVars
  <2>2. StoppingInv'
    BY <1>2, <2>1 DEF SupCore, StoppingInv, SameChildren
  <2>3. run' \in Runs
    BY <2>1 DEF Runs
  <2> QED BY <1>1, <1>2, <2>1, <2>2, <2>3, RunKeeps
<1> QED BY <1>5, <1>6, <1>7, <1>8

\* The run is over, its acknowledgement checks with it.
LEMMA RunEndKeeps ==
  ASSUME SupCore, PollEnds \/ AbortRun
  PROVE  Keeps
<1>1. /\ SupervisorTypeOK /\ q \in Queues /\ batches \in [BatchIds -> Batches]
      /\ scheduled \in BOOLEAN /\ stopPhase \in StopPhases /\ send \in Senders
      /\ admitted \in BOOLEAN /\ again \subseteq {"schedule", "retry"} /\ run \in Runs
      /\ NoBatch \notin BatchIds /\ NoBatch \in BatchOrNone
  BY JournalAssumption DEF SupCore, SupervisorTypeOK, TypeOK, BatchIds, NoBatch,
     BatchOrNone
<1>2. /\ SameChildren /\ checks = {} /\ run # "idle"
      /\ UNCHANGED <<batches, scheduled, send, admitted, again, q, checks, queue,
                     entries, sends, stopPhase, stoppingBatch, sendFaults>>
      /\ \/ run' = "running" /\ wake' = wake
         \/ run' = "idle" /\ wake' = NoBatch
      /\ MailInv => wake \in entries \cup {NoBatch} \/ ownerStopping
  BY DEF PollEnds, AbortRun, ParentOnly, SupervisorSame, sendVars, MailInv
<1>3. /\ Shut' = Shut /\ UNCHANGED <<ownerStopping, closing, disposed, stopping>>
      /\ ~stopping /\ stopPhase = "idle" /\ stoppingBatch = NoBatch
  BY <1>2 DEF Shut, IsStopping, SameChildren, SupCore, StoppingInv
<1>4. run' \in Runs /\ wake' \in BatchOrNone
  BY <1>1, <1>2 DEF Runs, SupervisorTypeOK
<1>5. TypeOK' => SupervisorTypeOK'
  BY <1>1, <1>2, <1>4 DEF SupervisorTypeOK
<1>6. BatchInv'
  BY <1>2, SameBatches
<1>7. StoppingInv'
  BY <1>2, <1>3 DEF SupCore, StoppingInv
<1>8. ASSUME MailInv, NEW x \in BatchIds PROVE Mailed(x)'
  <2>1. Mailed(x)
    BY <1>8 DEF MailInv
  <2>2. CASE x # wake \/ wake' = wake
    <3>1. x = wake' <=> x = wake
      BY <1>1, <1>2, <2>2
    <3> QED BY <1>2, <1>8, <3>1, OtherMailed
  <2>3. CASE x = wake /\ wake' = NoBatch
    <3>1. x # stoppingBatch /\ x # wake' /\ stopPhase \notin Ending
      BY <1>1, <1>3, <2>3 DEF Ending
    <3>2. batches[x].st = "pending" /\ x \in q.awaiting => Shut
      BY <1>1, <1>2, <1>8, <2>1, <2>3 DEF Mailed, Shut, IsStopping
    <3> QED BY <1>2, <1>3, <2>1, <2>3, <3>1, <3>2 DEF Mailed, Handled
  <2> QED BY <1>2, <2>2, <2>3
<1>9. MailInv /\ Flushing("ready")' =>
        send'.batch \in Used' /\ send'.batch \notin q'.awaiting
  BY <1>2 DEF MailInv, Flushing, Used
<1>10. MailInv => MailInv'
  BY <1>2, <1>8, <1>9 DEF MailInv
<1>11. LogInv'
  BY <1>2, LogStands
<1> QED BY <1>1, <1>2, <1>5, <1>6, <1>7, <1>10, <1>11, SupStep

-----------------------------------------------------------------------------
(* The children, and the stop that takes them down.                        *)

\* No step of a child touches the batches and the flags of the supervisor.
LEMMA ChildStepSame ==
  ASSUME NEW l \in Launches, ChildStep(l)
  PROVE  Same
BY DEF ChildStep, StartupEnds, LaunchStep, AbortEnds, CleanupEnds,
   DisposalEnds, StopStep, Reserve, Launch, LaunchRefused, StartupResolves,
   StartupRejects, StartupMismatched, LaunchCreated, LaunchMaterialized,
   CatchLaunchFailure, LaunchFails, LaunchStopped, MaterializationFails,
   FailedLaunchCleaned, FailedLaunchAborted, FailedLaunchSettled,
   FailedLaunchDisposed, Settle, AbortSucceeds, AbortFails, CleanupSucceeds,
   CleanupFails, DisposalSucceeds, DisposalFails, ToolEnd,
   StopStartupResolved, StopStartupRejected, StopCleaned, StopAborted,
   StopSettled, StopDisposed, StopFinished

\* A step of the children, or of their stop, that leaves the queue alone.
LEMMA QueueStands ==
  ASSUME SupCore, IInv', ChildrenKeep, UNCHANGED batches,
         UNCHANGED <<run, queue, wake, entries, sendVars, checks, stoppingBatch,
                     sendFaults>>,
         q' \in Queues, q'.awaiting = q.awaiting, StoppingInv',
         UNCHANGED <<ownerStopping, disposed>>, closing => closing', Shut => Shut',
         stopPhase' \in Ending => stopPhase \in Ending
  PROVE  Keeps
<1>1. SupervisorTypeOK'
  BY DEF SupCore, IInv, SupervisorTypeOK, sendVars
<1>2. BatchInv'
  BY FinalsStay, BatchesStand DEF SupCore
<1>3. MailInv => MailInv'
  BY MailStands DEF sendVars, Flushing
<1>4. LogInv'
  BY LogStands
<1> QED BY <1>1, <1>2, <1>3, <1>4 DEF SupCore, Keeps, ChildrenKeep

\* A step of one child.
LEMMA SuperviseChildKeeps ==
  ASSUME SupCore, NEW l \in Launches, SuperviseChild(l)
  PROVE  Keeps
<1>1. ChildStep(l) /\ Unchanged
  BY DEF SuperviseChild
<1>2. IInv' /\ ChildrenKeep /\ Same
  BY <1>1, NextIInv, ChildStepReports, ChildStepSame DEF SupCore, Next
<1>3. UNCHANGED <<run, queue, wake, entries, sendVars, send, q, checks,
                  stoppingBatch, sendFaults>>
  BY <1>1 DEF Unchanged, parentVars, queueVars, sendVars
<1>4. UNCHANGED <<batches, ownerStopping, stopping, closing, stopPhase, disposed>>
  BY <1>2 DEF Same
<1>5. StoppingInv'
  BY <1>3, <1>4 DEF SupCore, StoppingInv
<1>6. q' \in Queues
  BY <1>3 DEF SupCore, SupervisorTypeOK
<1> QED BY <1>2, <1>3, <1>4, <1>5, <1>6, QueueStands DEF Shut, IsStopping

\* What leaves jobs and children alone leaves the reports alone.
LEMMA ReportsStand ==
  ASSUME ReportInv, UNCHANGED <<jobs, child>>
  PROVE  ChildrenKeep
BY DEF ReportInv, Reportable, ReportConsistent, ChildrenKeep, StaysPublished, StaysPast

\* The owner stops, its parent's steers are dropped.
LEMMA OwnerStopsKeeps ==
  ASSUME SupCore, OwnerStops
  PROVE  Keeps
<1>1. /\ ~ownerStopping /\ ownerStopping' /\ RequestStop
      /\ UNCHANGED <<jobs, batches, child, stopping, closing, stopPhase, disposed>>
      /\ queue' = {b \in queue : ~Streaming /\ ~batches[b].trig}
      /\ UNCHANGED <<run, wake, entries, sends, send, admitted, again, q, checks,
                     stoppingBatch, sendFaults>>
  BY DEF OwnerStops, RequestStop, sendVars, queueVars
<1>2. IInv' /\ ChildrenKeep
  BY <1>1, NextIInv, ReportsStand DEF SupCore, Next
<1>3. SupervisorTypeOK'
  BY <1>1, <1>2 DEF SupCore, IInv, SupervisorTypeOK
<1>4. BatchInv'
  BY <1>1, <1>2, FinalsStay, BatchesStand DEF SupCore
<1>5. StoppingInv'
  BY <1>1 DEF SupCore, StoppingInv
<1>6. ASSUME MailInv, NEW b \in BatchIds PROVE Mailed(b)'
  <2>1. Mailed(b) /\ Shut'
    BY <1>1, <1>6 DEF MailInv, Shut, IsStopping
  <2>2. CASE b \in queue => b \in queue'
    <3>1. b \in queue' => b \in queue /\ ~batches[b].trig
      BY <1>1
    <3> QED BY <1>1, <2>1, <2>2, <3>1 DEF Mailed, Handled, OnItsWay
  <2>3. CASE b \in queue /\ b \notin queue'
    <3>1. run # "idle" \/ batches[b].trig
      BY <1>1, <2>3 DEF Streaming
    <3>2. run # "idle" => stoppingBatch = NoBatch /\ stopPhase = "idle"
      BY DEF SupCore, StoppingInv
    <3>3. b # NoBatch
      BY JournalAssumption DEF BatchIds, NoBatch
    <3>4. b # stoppingBatch /\ (batches[b].st = "pending" => stopPhase \notin Ending)
      BY <2>1, <3>1, <3>2, <3>3 DEF Mailed, Ending
    <3> QED BY <1>1, <2>1, <2>3, <3>4 DEF Mailed, Handled
  <2> QED BY <2>2, <2>3
<1>7. MailInv => MailInv'
  BY <1>1, <1>6 DEF MailInv, Flushing, Used
<1>8. LogInv'
  BY <1>1, LogStands
<1> QED BY <1>2, <1>3, <1>4, <1>5, <1>7, <1>8 DEF SupCore, Keeps, ChildrenKeep

\* A stop begins, is made final, and has taken the children down.
LEMMA StopBeginsKeeps ==
  ASSUME SupCore,
         \/ BeginSupervisorStop
         \/ (CloseWhileStopping \/ StopChildrenDone) /\ Unchanged
  PROVE  Keeps
<1>1. q \in Queues /\ SupervisorTypeOK
  BY DEF SupCore, SupervisorTypeOK
<1>2. CASE BeginSupervisorStop
  <2>1. PICK terminal \in BOOLEAN : BeginStop(terminal)
    BY <1>2 DEF BeginSupervisorStop
  <2>2. IInv' /\ ChildrenKeep
    BY <2>1, BeginStopPreserves, BeginStopReports DEF SupCore
  <2>3. /\ ownerStopping \/ terminal
        /\ ~disposed /\ stopPhase = "idle"
        /\ closing' = (closing \/ terminal) /\ stopping' = TRUE
        /\ stopPhase' = "children" /\ UNCHANGED <<batches, ownerStopping, disposed>>
    BY <2>1 DEF BeginStop
  <2>4. /\ run = "idle" /\ send.by # "admission"
        /\ q' = [EmptyQueue EXCEPT !.awaiting = q.awaiting]
        /\ UNCHANGED <<run, queue, wake, entries, sendVars, send, checks,
                       stoppingBatch, sendFaults>>
    BY <1>2 DEF BeginSupervisorStop, parentVars, sendVars
  <2>5. q' \in Queues /\ q'.awaiting = q.awaiting
    BY <1>1, <2>4 DEF EmptyQueue, Queues, BatchOrNone
  <2>6. StoppingInv'
    BY <2>3, <2>4 DEF SupCore, StoppingInv, Ending
  <2>7. stopPhase' \notin Ending
    BY <2>3 DEF Ending
  <2> QED BY <2>2, <2>3, <2>4, <2>5, <2>6, <2>7, QueueStands DEF Shut, IsStopping
<1>3. CASE (CloseWhileStopping \/ StopChildrenDone) /\ Unchanged
  <2>1. UNCHANGED <<run, queue, wake, entries, sendVars, send, q, checks,
                    stoppingBatch, sendFaults>>
    BY <1>3 DEF Unchanged, parentVars, queueVars, sendVars
  <2>2. /\ UNCHANGED <<jobs, batches, child, ownerStopping, stopping, disposed>>
        /\ \/ closing' = TRUE /\ stopPhase' = stopPhase /\ stopPhase # "idle"
           \/ stopPhase = "children" /\ stopPhase' = "notify" /\ closing' = closing
    BY <1>3 DEF CloseWhileStopping, StopChildrenDone
  <2>3. IInv' /\ ChildrenKeep
    BY <1>3, <2>2, NextIInv, ReportsStand DEF SupCore, Next
  <2>4. StoppingInv'
    BY <2>1, <2>2 DEF SupCore, StoppingInv, Ending
  <2>5. stopPhase' \in Ending => stopPhase \in Ending
    BY <2>2 DEF Ending
  <2>6. (closing => closing') /\ (Shut => Shut')
    BY <2>2 DEF Shut, IsStopping
  <2>7. q' \in Queues /\ q'.awaiting = q.awaiting
    BY <1>1, <2>1
  <2> QED BY <2>1, <2>2, <2>3, <2>4, <2>5, <2>6, <2>7, QueueStands
<1> QED BY <1>2, <1>3

\* The stop supersedes what no one can deliver any more.
LEMMA StopSupersedesKeeps ==
  ASSUME SupCore, StopSupersedes
  PROVE  Keeps
<1> DEFINE old == PendingBatches(batches) \ {stoppingBatch}
<1>1. /\ stopPhase = "notify" /\ send.by = "none" /\ sends = {}
      /\ batches' = NotificationSuperseded(batches, old)
      /\ q' = Reconcile(q, PendingBatches(batches'))
      /\ StartFlush(FALSE, TRUE, NoBatch) /\ stopPhase' = "sending" /\ SameChildren
      /\ UNCHANGED <<scheduled, run, queue, wake, entries, sends, admitted, again,
                     checks, stoppingBatch, sendFaults>>
  BY DEF StopSupersedes, parentVars
<1>2. /\ batches \in [BatchIds -> Batches] /\ q \in Queues /\ SupervisorTypeOK
      /\ scheduled \in BOOLEAN
  BY DEF SupCore, SupervisorTypeOK, TypeOK
<1>3. /\ send' = [by |-> "flush", at |-> "start", batch |-> NoBatch, trig |-> FALSE,
                  closing |-> TRUE, retry |-> NoBatch]
      /\ send' \in Senders
  BY <1>1 DEF StartFlush, NoSend, Senders, BatchOrNone
<1>4. ASSUME NEW b \in BatchIds
      PROVE  /\ batches'[b] \in Batches
             /\ batches'[b].out = batches[b].out /\ batches'[b].trig = batches[b].trig
             /\ b \in old => batches'[b].st = "superseded"
             /\ b \notin old => batches'[b] = batches[b]
  <2>1. batches'[b] = IF b \in old THEN [batches[b] EXCEPT !.st = "superseded"]
                                   ELSE batches[b]
    BY <1>1 DEF NotificationSuperseded
  <2>2. batches[b] \in Batches
    BY <1>2
  <2> HIDE DEF old
  <2> QED BY <2>1, <2>2 DEF Batches
<1>5. batches' \in [BatchIds -> Batches]
  <2>1. batches' = [b \in BatchIds |-> batches'[b]]
    BY <1>1 DEF NotificationSuperseded
  <2> QED BY <1>4, <2>1
<1>6. \A b \in BatchIds : b \in old <=> batches[b].st = "pending" /\ b # stoppingBatch
  BY DEF PendingBatches
<1> HIDE DEF old
<1>7. BatchInv'
  <2>1. \A b \in BatchIds :
          /\ batches'[b].out = batches[b].out
          /\ batches'[b].st = "none" <=> batches[b].st = "none"
          /\ batches'[b].st \in {"pending", "acked"} =>
               batches[b].st \in {"pending", "acked"}
    BY <1>4, <1>6
  <2> QED BY <1>1, <2>1, FinalsStand, BatchesEnd DEF SupCore, SameChildren
<1>8. PendingBatches(batches') \in SUBSET BatchIds
  BY DEF PendingBatches
<1>9. q' \in Queues /\ q'.awaiting = q.awaiting \cap PendingBatches(batches')
  BY <1>1, <1>2, <1>8, QueuesClosed
<1>10. TypeOK' => SupervisorTypeOK'
  BY <1>1, <1>2, <1>3, <1>9 DEF SupervisorTypeOK
<1>11. /\ stopping /\ run = "idle" /\ ~disposed
       /\ ownerStopping \/ closing
       /\ MailInv => wake = NoBatch
  BY <1>1 DEF SupCore, StoppingInv, MailInv
<1>12. StoppingInv'
  BY <1>1, <1>3, <1>11 DEF SupCore, StoppingInv, SameChildren, Ending
<1>13. ASSUME MailInv, NEW b \in BatchIds PROVE Mailed(b)'
  <2>1. Mailed(b) /\ b # NoBatch
    BY <1>13, JournalAssumption DEF MailInv, BatchIds, NoBatch
  <2>2. /\ UNCHANGED <<ownerStopping, closing, disposed>> /\ Shut' = Shut
        /\ stopPhase' \in Ending /\ stopPhase \notin Ending
    BY <1>1 DEF SameChildren, Shut, IsStopping, Ending
  <2>3. b \in q'.awaiting <=> b \in q.awaiting /\ batches'[b].st = "pending"
    BY <1>9 DEF PendingBatches
  <2>4. b \notin checks
    BY <1>1, <1>11, <2>1 DEF Mailed
  <2>5. CASE b \in old
    <3>1. batches[b].st = "pending" /\ batches'[b].st = "superseded"
          /\ b # stoppingBatch /\ batches'[b].trig = batches[b].trig
      BY <1>4, <1>6, <2>5
    <3>2. b \notin entries /\ b # wake
      BY <1>11, <1>13, <2>1, <2>4, <3>1 DEF Mailed
    <3>3. b \in queue => batches[b].trig /\ ~ownerStopping
      BY <1>1, <2>1 DEF Mailed
    <3> QED BY <1>1, <1>11, <2>1, <2>2, <2>3, <2>4, <3>1, <3>2, <3>3 DEF Mailed
  <2>6. CASE b \notin old
    <3>1. batches'[b] = batches[b] /\ (batches[b].st = "pending" => b = stoppingBatch)
      BY <1>4, <1>6, <2>6
    <3> QED BY <1>1, <2>1, <2>2, <2>3, <2>4, <3>1 DEF Mailed, Handled, OnItsWay
  <2> QED BY <2>5, <2>6
<1>14. MailInv => MailInv'
  <2>1. ~Flushing("ready")'
    BY <1>3 DEF Flushing
  <2> QED BY <1>1, <1>13, <2>1 DEF MailInv
<1>15. LogInv'
  <2>1. \A b \in BatchIds : batches'[b].st = "acked" => batches[b].st = "acked"
    BY <1>4
  <2> QED BY <1>1, <2>1, LogGrows DEF SupCore, LogInv
<1> QED BY <1>1, <1>2, <1>5, <1>7, <1>10, <1>12, <1>14, <1>15, SupStep DEF StopPhases

\* The end of a stop: it reopens the supervisor, closes it, waits, or gives up.
LEMMA StopConcludesKeeps ==
  ASSUME SupCore, StopSent \/ StopSendFailed \/ StopQuiesces
  PROVE  Keeps
<1>1. /\ stopPhase \in {"sent", "failed", "waiting"}
      /\ UNCHANGED <<jobs, batches, disposed, scheduled, faults, run, queue, wake,
                     entries, sends, send, admitted, again, q, checks, sendFaults>>
      /\ \/ StopFails \/ StopSucceeds
         \/ /\ stopPhase' = "waiting"
            /\ UNCHANGED <<child, ownerStopping, stopping, closing>>
  BY DEF StopSent, StopSendFailed, StopQuiesces, StopWaits, ConcludeStop, Unchanged,
     parentVars, sendVars, queueVars
<1>2. SupervisorTypeOK /\ stopping /\ ~disposed /\ send.by = "none" /\ ~send.closing
      /\ run = "idle" /\ (ownerStopping \/ closing) /\ stopPhase \in Ending
  BY <1>1 DEF SupCore, StoppingInv, Ending
<1>3. stoppingBatch' = IF stopping' THEN stoppingBatch ELSE NoBatch
  BY <1>2 DEF StopSent, StopSendFailed, StopQuiesces, ForgetStoppingBatch, StopFails,
     Unchanged, queueVars
<1>4. /\ closing' = closing /\ stopping' \in BOOLEAN /\ ownerStopping' \in BOOLEAN
      /\ stopPhase' \in {"idle", "closed", "waiting"}
      /\ stopPhase' # "idle" => stopping'
      /\ stopping' \/ ~closing
      /\ stopping' => ownerStopping' = ownerStopping
      /\ ForgetStop \/ UNCHANGED child
  BY <1>1, <1>2 DEF StopFails, StopSucceeds, SupervisorTypeOK, TypeOK
<1>5. IInv'
  <2>1. stopPhase' \in StopPhases /\ closing' \in BOOLEAN
    BY <1>2, <1>4 DEF StopPhases, SupervisorTypeOK, TypeOK
  <2>2. CASE ForgetStop
    BY <1>1, <1>4, <2>1, <2>2, ForgetStopPreserves DEF SupCore
  <2>3. CASE UNCHANGED child
    <3>1. TypeOK'
      BY <1>1, <1>2, <1>4, <2>1, <2>3 DEF SupervisorTypeOK, TypeOK
    <3> QED BY <1>1, <2>3, <3>1, ChildrenStand DEF SupCore
  <2> QED BY <1>4, <2>2, <2>3
<1>6. ChildrenKeep
  <2>1. CASE ForgetStop
    <3>1. ASSUME NEW l \in Launches
          PROVE  \/ child'[l] = child[l]
                 \/ child[l] # PastChild /\ SameReport(child[l], child'[l])
      <4>1. child'[l] = [child[l] EXCEPT !.stop = "none"] /\ child[l] \in Children
        BY <1>2, <2>1 DEF ForgetStop, SupervisorTypeOK, TypeOK
      <4>2. SameReport(child[l], child'[l])
        BY <4>1 DEF SameReport, Children
      <4>3. PastChild.stop = "none"
        BY DEF PastChild, NoChild
      <4>4. child[l].stop = "none" => child'[l] = child[l]
        BY <4>1 DEF Children
      <4> QED BY <4>2, <4>3, <4>4
    <3> QED BY <1>1, <3>1, SameReports DEF SupCore
  <2>2. CASE UNCHANGED child
    BY <1>1, <2>2, ReportsStand DEF SupCore
  <2> QED BY <1>4, <2>1, <2>2
<1>7. SupervisorTypeOK'
  <2>1. stoppingBatch' \in BatchOrNone
    BY <1>2, <1>3 DEF SupervisorTypeOK, BatchOrNone
  <2> QED BY <1>1, <1>2, <1>5, <2>1 DEF IInv, SupervisorTypeOK
<1>8. BatchInv'
  BY <1>1, <1>5, <1>6, FinalsStay, BatchesStand DEF SupCore
<1>9. StoppingInv'
  BY <1>1, <1>2, <1>3, <1>4 DEF SupCore, StoppingInv, Ending
<1>10. ASSUME MailInv, NEW b \in BatchIds PROVE Mailed(b)'
  <2>1. Mailed(b) /\ b # NoBatch
    BY <1>10, JournalAssumption DEF MailInv, BatchIds, NoBatch
  <2>2. b = stoppingBatch' => b = stoppingBatch
    BY <1>3, <2>1
  <2>3. b \in queue /\ batches[b].trig => ~ownerStopping /\ closing /\ ~ownerStopping'
    BY <1>2, <1>4, <2>1 DEF Mailed
  <2>4. batches[b].st = "pending" /\ b \in q.awaiting => OnItsWay(b)
    BY <1>2, <2>1 DEF Mailed
  <2>5. stopPhase' \in Ending => stopPhase \in Ending
    BY <1>2
  <2> QED BY <1>1, <1>4, <2>1, <2>2, <2>3, <2>4, <2>5 DEF Mailed, Handled, OnItsWay
<1>11. MailInv => MailInv'
  BY <1>1, <1>10 DEF MailInv, Flushing, Used
<1>12. LogInv'
  BY <1>1, LogStands
<1> QED BY <1>5, <1>6, <1>7, <1>8, <1>9, <1>11, <1>12 DEF SupCore, Keeps, ChildrenKeep

\* The last flush of a closing owner, and the end of the supervisor.
LEMMA CloseKeeps ==
  ASSUME SupCore, FlushForClose \/ DisposeSupervisor
  PROVE  Keeps
<1>1. SupervisorTypeOK /\ q \in Queues /\ batches \in [BatchIds -> Batches]
      /\ scheduled \in BOOLEAN /\ stopPhase \in StopPhases
  BY DEF SupCore, SupervisorTypeOK, TypeOK
<1>2. CASE FlushForClose
  <2>1. q.blocked \in BatchOrNone /\ again' \subseteq {"schedule", "retry"}
    BY <1>1, <1>2 DEF FlushForClose, Queues, SupervisorTypeOK
  <2> QED BY <1>1, <1>2, <2>1, StartFlushKeeps DEF FlushForClose, queueVars
<1>3. CASE DisposeSupervisor
  <2>1. /\ send.by = "none" /\ stopPhase \in {"idle", "closed"} /\ disposed' = TRUE
        /\ q' = EmptyQueue
        /\ UNCHANGED <<jobs, batches, child, ownerStopping, stopping, closing,
                       stopPhase, scheduled, faults, run, queue, wake, entries,
                       sends, send, admitted, again, checks, stoppingBatch, sendFaults>>
    BY <1>3 DEF DisposeSupervisor, Dispose, parentVars, sendVars
  <2>2. q' \in Queues /\ q'.awaiting = {}
    BY <2>1 DEF EmptyQueue, Queues, BatchOrNone
  <2>3. TypeOK'
    BY <1>1, <2>1 DEF SupervisorTypeOK, TypeOK
  <2>4. SupervisorTypeOK'
    BY <1>1, <2>1, <2>2, <2>3 DEF SupervisorTypeOK
  <2>5. IInv' /\ ChildrenKeep
    BY <2>1, <2>3, ChildrenStand, ReportsStand DEF SupCore
  <2>6. BatchInv'
    BY <2>1, <2>5, FinalsStay, BatchesStand DEF SupCore
  <2>7. StoppingInv'
    BY <2>1 DEF SupCore, StoppingInv
  <2>8. ASSUME MailInv, NEW b \in BatchIds PROVE Mailed(b)'
    <3>1. Mailed(b)
      BY <2>8 DEF MailInv
    <3> QED BY <2>1, <2>2, <3>1 DEF Mailed, Handled
  <2>9. MailInv => MailInv'
    BY <2>1, <2>2, <2>8 DEF MailInv, Flushing, Used
  <2>10. LogInv'
    BY <2>1, LogStands
  <2> QED BY <2>4, <2>5, <2>6, <2>7, <2>9, <2>10 DEF SupCore, Keeps, ChildrenKeep
<1> QED BY <1>2, <1>3

-----------------------------------------------------------------------------
(* The theorems.                                                           *)

\* A supervisor starts with nothing owned, nothing pending and nothing sent.
LEMMA SupInitHolds == SupervisorInit => SupInv
<1> SUFFICES ASSUME SupervisorInit PROVE SupInv
  OBVIOUS
<1>1. IInv /\ TypeOK
  BY InitIInv DEF SupervisorInit, IInv
<1>2. /\ jobs = [l \in Launches |-> AbsentJob] /\ child = [l \in Launches |-> NoChild]
      /\ batches = [b \in BatchIds |-> UnusedBatch]
      /\ ~ownerStopping /\ ~stopping /\ ~closing /\ stopPhase = "idle" /\ ~disposed
  BY DEF SupervisorInit, Init
<1>3. NoSend \in Senders /\ EmptyQueue \in Queues /\ NoBatch \in BatchOrNone
  BY DEF NoSend, Senders, EmptyQueue, Queues, BatchOrNone
<1>4. SupervisorTypeOK
  <2>1. /\ run = "idle" /\ queue = {} /\ wake = NoBatch /\ entries = {} /\ sends = {}
        /\ send = NoSend /\ admitted = FALSE /\ again = {} /\ q = EmptyQueue
        /\ checks = {} /\ stoppingBatch = NoBatch /\ sendFaults = 0
    BY DEF SupervisorInit
  <2>2. sendFaults \in 0 .. MaxSendFaults /\ run \in Runs
    BY <2>1, SendFaultsAssumption DEF Runs
  <2> QED BY <1>1, <1>3, <2>1, <2>2 DEF SupervisorTypeOK
<1>5. ReportInv
  <2>1. ReportConsistent(NoChild, AbsentJob)
    BY DEF ReportConsistent, NoChild, AbsentJob, TerminalStatuses
  <2> QED BY <1>2, <2>1 DEF ReportInv, Reportable
<1>6. \A b \in BatchIds : batches[b].st = "none" /\ b # NoBatch
  BY <1>2, JournalAssumption DEF UnusedBatch, BatchIds, NoBatch
<1>7. BatchInv
  <2>1. Used = {}
    BY <1>6 DEF Used
  <2>2. Used = 1 .. 0 /\ 0 \in 0 .. MaxBatches
    BY <2>1, JournalAssumption
  <2>3. \A l \in Launches : Reports(l) = {}
    BY <1>6 DEF Reports, BatchesOf
  <2>4. \A b \in BatchIds, l \in Launches : batches[b].out[l] = "none"
    BY <1>2 DEF UnusedBatch, NoOutcome
  <2> QED BY <2>2, <2>3, <2>4 DEF BatchInv
<1>8. StoppingInv
  BY <1>2 DEF SupervisorInit, StoppingInv, NoSend, Ending
<1>9. MailInv
  BY <1>2, <1>6 DEF SupervisorInit, MailInv, Mailed, Handled, NoSend, EmptyQueue,
     Flushing, Ending
<1>10. LogInv
  BY <1>6 DEF SupervisorInit, LogInv
<1> QED BY <1>1, <1>4, <1>5, <1>7, <1>8, <1>9, <1>10 DEF SupInv, SupCore

\* Every step keeps the invariant.
LEMMA SupervisorStepKeeps ==
  ASSUME SupCore, [SupervisorNext]_vars
  PROVE  Keeps
<1>1. CASE UNCHANGED vars
  <2>1. /\ UNCHANGED childVars
        /\ UNCHANGED <<run, queue, wake, entries, sends, send, admitted, again, q,
                       checks, stoppingBatch, sendFaults>>
    BY <1>1 DEF vars, parentVars, sendVars, queueVars
  <2>2. /\ UNCHANGED <<jobs, batches, child, ownerStopping, stopping, closing,
                       stopPhase, disposed>>
        /\ IInv'
    BY <2>1, NextIInv DEF childVars, SupCore
  <2>3. ChildrenKeep /\ StoppingInv' /\ q' \in Queues
    BY <2>1, <2>2, ReportsStand DEF SupCore, StoppingInv, SupervisorTypeOK
  <2> QED BY <2>1, <2>2, <2>3, QueueStands DEF sendVars, Shut, IsStopping
<1>2. ASSUME NEW l \in Launches, SuperviseChild(l) PROVE Keeps
  BY <1>2, SuperviseChildKeeps
<1>3. CASE FlushStep
  BY <1>3, FreezeKeeps, FlushHandOverKeeps, FlushReleaseKeeps DEF FlushStep
<1>4. CASE PreflightEnds
  BY <1>4, FlushHandOverKeeps, FlushReleaseKeeps DEF PreflightEnds
<1>5. ASSUME NEW b \in BatchIds, SendStep(b) PROVE Keeps
  BY <1>5, SendResolvesKeeps, SendRejectsKeeps, CheckTaskKeeps DEF SendStep
<1>6. CASE NotificationTask \/ RetryTask \/ RuntimeBecameCoherent
  BY <1>6, CallbackKeeps
<1>7. CASE HookStep
  BY <1>7, HookKeeps, FlushReleaseKeeps DEF HookStep
<1>8. CASE ParentStep
  BY <1>8, PromptKeeps, MessageKeeps, RunEndKeeps DEF ParentStep
<1>9. CASE OwnerStops
  BY <1>9, OwnerStopsKeeps
<1>10. CASE BeginSupervisorStop \/ (CloseWhileStopping /\ Unchanged)
  BY <1>10, StopBeginsKeeps
<1>11. CASE StopSupervisorStep
  BY <1>11, StopBeginsKeeps, StopSupersedesKeeps, StopConcludesKeeps
     DEF StopSupervisorStep
<1>12. CASE FlushForClose \/ DisposeSupervisor
  BY <1>12, CloseKeeps
<1> QED
  BY <1>1, <1>2, <1>3, <1>4, <1>5, <1>6, <1>7, <1>8, <1>9, <1>10, <1>11, <1>12
     DEF SupervisorNext

\* Each step keeps the invariant.
LEMMA SupNextKeeps == SupInv /\ [SupervisorNext]_vars => SupInv'
BY SupervisorStepKeeps DEF SupInv, Keeps

\* Every reachable state of the supervisor satisfies the inductive invariant.
THEOREM SupervisorConsistent == SupervisorSpec => []SupInv
BY SupInitHolds, SupNextKeeps, PTL DEF SupervisorSpec

\* The supervisor's state keeps its type: a number out of range, a sender or a
\* run in a state of its own would be an error in a handler.
THEOREM SupervisorTypeCorrect == SupervisorSpec => []SupervisorTypeOK
<1>1. SupInv => SupervisorTypeOK
  BY DEF SupInv, SupCore
<1> QED BY <1>1, SupervisorConsistent, PTL

\* Each launch is in one batch that was not given up, whatever flushes, stops
\* and retries there were: freezing reads the journal and writes it in one turn.
THEOREM ReportedOnce == SupervisorSpec => []OutcomeReportedOnce
<1>1. SupInv => OutcomeReportedOnce
  <2> SUFFICES ASSUME SupInv, NEW l \in Launches PROVE Cardinality(Reports(l)) <= 1
    BY DEF OutcomeReportedOnce
  <2>1. \A a, b \in Reports(l) : a = b
    BY DEF SupInv, SupCore, BatchInv
  <2> QED BY <2>1, AtMostOne
<1> QED BY <1>1, SupervisorConsistent, PTL

\* What a batch reports of a launch is final: acknowledged, not suppressed, and
\* what the journal says; a stop that comes later forces other outcomes only.
THEOREM ReportsAreFinal == SupervisorSpec => []ReportIsFinal
<1>1. SupInv => ReportIsFinal
  <2> SUFFICES ASSUME SupInv, NEW l \in Launches, NEW b \in Reports(l)
               PROVE  /\ jobs[l].ack \/ jobs[l].recovered
                      /\ ~jobs[l].supp
                      /\ batches[b].out[l] = jobs[l].term
    BY DEF ReportIsFinal
  <2>1. b \in BatchIds /\ batches[b].out[l] # "none"
    BY DEF Reports, BatchesOf
  <2> QED BY <2>1 DEF SupInv, SupCore, BatchInv, Final
<1> QED BY <1>1, SupervisorConsistent, PTL

\* A state of the invariant has told the model of each outcome once.
LEMMA SupInvTellsOnce ==
  ASSUME SupInv
  PROVE  ToldOnce
<1>1. \A b \in BatchIds : Mailed(b)
  BY DEF SupInv, MailInv
<1>2. entries \subseteq BatchIds /\ queue \subseteq BatchIds
      /\ batches \in [BatchIds -> Batches]
  BY DEF SupInv, SupCore, SupervisorTypeOK, TypeOK
<1>3. ASSUME NEW l \in Launches
      PROVE  Cardinality({b \in entries : batches[b].out[l] # "none"}) <= 1
  <2>1. ASSUME NEW b \in {x \in entries : batches[x].out[l] # "none"}
        PROVE  b \in Reports(l)
    <3>1. b \in BatchIds /\ b \in entries /\ Handled(b)
      BY <1>2 DEF Handled
    <3>2. batches[b].st \in {"pending", "acked"}
      BY <1>1, <1>2, <3>1 DEF Mailed, Batches
    <3> QED BY <3>1, <3>2 DEF Reports, BatchesOf
  <2>2. \A a, b \in {x \in entries : batches[x].out[l] # "none"} : a = b
    BY <2>1 DEF SupInv, SupCore, BatchInv
  <2> QED BY <2>2, AtMostOne
<1>4. queue \cap entries = {}
  BY <1>1, <1>2 DEF Mailed
<1>5. run = "starting" => wake \notin entries
  BY DEF SupInv, MailInv
<1> QED BY <1>3, <1>4, <1>5 DEF ToldOnce

\* The model is told of an outcome once: the log holds one message about it, and
\* no message that is in the log waits to be put there again.
THEOREM OutcomeToldOnce == SupervisorSpec => []ToldOnce
BY SupInvTellsOnce, SupervisorConsistent, PTL

\* A batch that flushes skip is on its way while the supervisor is open: every
\* path that takes its message away clears the note, or acknowledges it.
THEOREM AwaitedIsOnItsWay == SupervisorSpec => []AwaitedBatchIsOnItsWay
<1>1. SupInv => AwaitedBatchIsOnItsWay
  <2> SUFFICES ASSUME SupInv, NEW b \in q.awaiting \cap PendingBatches(batches), ~Shut
               PROVE  b \in queue \cup sends \cup checks \cup {wake}
    BY DEF AwaitedBatchIsOnItsWay
  <2>1. b \in BatchIds /\ batches[b].st = "pending" /\ b \in q.awaiting
    BY DEF PendingBatches
  <2> QED BY <2>1 DEF SupInv, MailInv, Mailed, OnItsWay
<1> QED BY <1>1, SupervisorConsistent, PTL

=============================================================================
