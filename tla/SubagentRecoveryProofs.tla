------------------------ MODULE SubagentRecoveryProofs ------------------------
(***************************************************************************)
(* Proofs about SubagentRecovery, for every set of launches and every      *)
(* bound: what the journal and the parent's log say of an outcome survives *)
(* any number of restarts, and recovery leaves nothing untold.             *)
(*                                                                         *)
(* An open session satisfies the supervisor's invariant, SupCore, and, as  *)
(* long as recovery could read the parent's log, MailInv.  A recovering    *)
(* session satisfies neither (it finds jobs that run without a child), but *)
(* RecoveringInv: nothing is in memory, every job is one that a process    *)
(* can leave, and recovery knows which messages are still to be delivered; *)
(* and PhaseInv, what each of its loops has established so far.  Restart   *)
(* leads from the first to the second, Attach back.                        *)
(***************************************************************************)
EXTENDS SubagentRecovery, SubagentSupervisorProofs

-----------------------------------------------------------------------------
(* The inductive invariant.                                                *)

\* A process that has just begun: no run, no send, no callback, no stop.
Quiet ==
  /\ ~ownerStopping /\ ~stopping /\ ~closing /\ stopPhase = "idle" /\ ~disposed
  /\ run = "idle" /\ queue = {} /\ wake = NoBatch
  /\ sends = {} /\ send = NoSend
  /\ q = EmptyQueue /\ checks = {} /\ stoppingBatch = NoBatch

\* What an earlier process left of a launch, or a launch that nobody made yet.
Left(c, j) ==
  \/ c = PastChild /\ LeftJob(j)
  \/ c = NoChild /\ ~Known(j) /\ Consistent(c, j) /\ ReportConsistent(c, j)

Reported(l) == BatchesOf(l, batches, {"pending", "acked"}) # {}

\* The outcome of launch l is in the journal, to be told, and in no batch.
Untold(l) ==
  /\ jobs[l].st \in TerminalStatuses
  /\ ~jobs[l].supp
  /\ ~Reported(l)

\* Only a message that recovery still has to acknowledge is in the log without
\* being acknowledged.
RecoveringInv ==
  /\ Quiet
  /\ \A l \in Launches : Left(child[l], jobs[l])
  /\ rec.todo \subseteq PendingBatches(batches)
  /\ rec.told => rec.todo # {} /\ Oldest(rec.todo) \in entries
  /\ ~refused => \A b \in entries : batches[b].st = "acked" \/ b \in rec.todo

\* While jobs are examined, the outcomes nobody was told of are all in rec.out
\* and only those; afterwards there are none.
PhaseInv ==
  /\ rec.at \in {"jobs", "report"} =>
       \A l \in Launches \ rec.left : ~Running(jobs[l])
  /\ rec.at = "jobs" =>
       /\ rec.todo = {}
       /\ rec.held = {l \in Launches : BatchesOf(l, batches, {"pending"}) # {}}
       /\ \A l \in rec.left : ~jobs[l].supp
       /\ \A l \in rec.out : Untold(l) /\ jobs[l].term = jobs[l].st
       /\ \A l \in Launches : Untold(l) => l \in rec.out
  /\ rec.at = "report" =>
       /\ rec.left = {}
       /\ \A l \in Launches : ~Untold(l)

OpenInv == rec = Up /\ SupCore /\ (~refused => MailInv)

RecInv ==
  /\ RecoveryTypeOK
  /\ BatchInv
  /\ LogInv
  /\ rec.at = "up" => OpenInv
  /\ rec.at # "up" => RecoveringInv /\ PhaseInv

-----------------------------------------------------------------------------
(* The end of a process.                                                   *)

\* A job of a child is one that a process can leave.
LEMMA JobCanBeLeft ==
  ASSUME NEW c \in Children, NEW j \in Jobs, Consistent(c, j),
         ReportConsistent(c, j), Known(j)
  PROVE  LeftJob(j)
BY DEF LeftJob, Consistent, LaunchConsistent, OutcomeConsistent, ReportConsistent,
   Jobs

\* So is what the first records of one step make of it.
LEMMA TornJobCanBeLeft ==
  ASSUME NEW c \in Children, NEW j \in Jobs, Consistent(c, j),
         ReportConsistent(c, j), Known(j)
  PROVE  /\ c.pc = "materializing" => LeftJob(Materialized(j))
         /\ c.pc = "working" => LeftJob(LaunchAcknowledged(j))
         /\ LeftJob(SuppressUnacknowledged(j))
         /\ LeftJob(ForceJobError(c, SuppressUnacknowledged(j)))
<1>1. LeftJob(j)
  BY JobCanBeLeft
<1>2. ASSUME c.pc = "materializing" PROVE LeftJob(Materialized(j))
  <2>1. ~j.ack /\ j.term = "none" /\ ~j.recovered
    BY <1>2 DEF Consistent, LaunchConsistent, OutcomeConsistent, ReportConsistent,
       Launching
  <2>2. /\ Materialized(j).st = "working" /\ ~Materialized(j).ack
        /\ Materialized(j).term = "none" /\ ~Materialized(j).recovered
    BY <2>1 DEF Materialized, Jobs
  <2> QED BY <2>2 DEF LeftJob, Known, TerminalStatuses
<1>3. ASSUME c.pc = "working" PROVE LeftJob(LaunchAcknowledged(j))
  <2>1. c.mat = "materialized" /\ j.path /\ ~j.recovered
    BY <1>3 DEF Consistent, LaunchConsistent, ReportConsistent
  <2>2. CASE j.supp
    BY <1>1, <2>2 DEF LaunchAcknowledged
  <2>3. CASE ~j.supp
    <3> DEFINE k == LaunchAcknowledged(j)
    <3>1. /\ k.ack /\ ~k.supp /\ k.path /\ ~k.recovered /\ k.term = j.term
          /\ k.st = IF j.term = "none" THEN j.st ELSE j.term
      BY <2>1, <2>3 DEF LaunchAcknowledged, Jobs
    <3>2. j.st \in TerminalStatuses => j.term # "none"
      BY <1>1 DEF LeftJob, TerminalStatuses
    <3>3. Known(k)
      BY <3>1 DEF Known, Jobs, Outcomes, TerminalStatuses
    <3> HIDE DEF k
    <3>4. LeftJob(k)
      BY <3>1, <3>2, <3>3 DEF LeftJob
    <3> QED BY <3>4 DEF k
  <2> QED BY <2>2, <2>3
<1>4. LeftJob(SuppressUnacknowledged(j)) /\ SuppressUnacknowledged(j) \in Jobs
  BY <1>1 DEF SuppressUnacknowledged, LaunchSuppressed, LeftJob, Known, Jobs
<1>5. LeftJob(ForceJobError(c, SuppressUnacknowledged(j)))
  <2> DEFINE s == SuppressUnacknowledged(j)
  <2>1. CASE ForceJobError(c, s) = s
    BY <1>4, <2>1
  <2>2. CASE /\ ForceJobError(c, s) = Terminal(s, "error", FALSE)
             /\ ~c.published /\ c.recorded
    <3>1. ~j.ack /\ j.path /\ ~j.recovered /\ j.st = "working"
      BY <2>2 DEF ReportConsistent, Consistent, OutcomeConsistent
    <3>2. ~s.ack /\ s.path /\ ~s.recovered /\ s.st = "working"
      BY <3>1 DEF SuppressUnacknowledged, LaunchSuppressed, Jobs
    <3> DEFINE k == Terminal(s, "error", FALSE)
    <3> HIDE DEF s
    <3>3. ~k.ack /\ k.path /\ ~k.recovered /\ k.st = "working"
      BY <1>4, <3>2 DEF s, Terminal, Known, Jobs
    <3> HIDE DEF k
    <3>4. LeftJob(k)
      BY <3>3 DEF LeftJob, Known, TerminalStatuses
    <3> QED BY <2>2, <3>4 DEF k, s
  <2>3. ForceJobError(c, s) = s \/ (/\ ForceJobError(c, s) = Terminal(s, "error", FALSE)
                                    /\ ~c.published /\ c.recorded)
    BY DEF ForceJobError
  <2> QED BY <2>1, <2>2, <2>3
<1> QED BY <1>2, <1>3, <1>4, <1>5

\* What may have become of a job when its process ends.
Leavings(l) ==
  TornJob(l)
    \cup (IF rec.at = "up" /\ child[l].owned
            THEN {SuppressUnacknowledged(jobs[l]),
                  ForceJobError(child[l], SuppressUnacknowledged(jobs[l]))}
            ELSE {})

\* A torn journal has one of these for each launch.
LEMMA TornJournal ==
  ASSUME RecoveryTypeOK, Restart
  PROVE  /\ jobs' = [l \in Launches |-> jobs'[l]]
         /\ \A l \in Launches : jobs'[l] \in Leavings(l)
<1>1. jobs = [l \in Launches |-> jobs[l]] /\ \A l \in Launches : jobs[l] \in TornJob(l)
  BY DEF RecoveryTypeOK, SupervisorTypeOK, TypeOK, TornJob
<1>2. CASE jobs' \in TornJobs
  <2>1. PICK m \in Launches : \E j \in TornJob(m) : jobs' = [jobs EXCEPT ![m] = j]
    BY <1>2 DEF TornJobs
  <2>2. PICK j \in TornJob(m) : jobs' = [jobs EXCEPT ![m] = j]
    BY <2>1
  <2> QED BY <1>1, <2>2 DEF Leavings
<1>3. CASE jobs' \in TornStop
  <2> DEFINE all == [m \in Launches |-> IF m \in Owned
                                         THEN SuppressUnacknowledged(jobs[m])
                                         ELSE jobs[m]]
             suppressed(S) == [m \in Launches |->
                                 IF m \in S THEN SuppressUnacknowledged(jobs[m])
                                            ELSE jobs[m]]
             forced(S) == [m \in Launches |->
                             IF m \in S THEN ForceJobError(child[m], all[m])
                                        ELSE all[m]]
  <2>1. rec.at = "up" /\ \E S \in SUBSET Owned : jobs' = suppressed(S) \/ jobs' = forced(S)
    BY <1>3 DEF TornStop
  <2>2. PICK S \in SUBSET Owned : jobs' = suppressed(S) \/ jobs' = forced(S)
    BY <2>1
  <2>3. jobs' = [l \in Launches |-> jobs'[l]]
    BY <2>2
  <2>4. ASSUME NEW l \in Launches PROVE jobs'[l] \in Leavings(l)
    <3>1. l \in Owned <=> child[l].owned
      BY DEF Owned
    <3>2. CASE l \in S
      <4>1. child[l].owned
        BY <3>1, <3>2
      <4>2. \/ jobs'[l] = SuppressUnacknowledged(jobs[l])
            \/ jobs'[l] = ForceJobError(child[l], SuppressUnacknowledged(jobs[l]))
        BY <2>2, <3>2
      <4> QED BY <2>1, <4>1, <4>2 DEF Leavings
    <3>3. CASE l \notin S
      <4>1. \/ jobs'[l] = jobs[l]
            \/ l \in Owned /\ jobs'[l] = SuppressUnacknowledged(jobs[l])
        BY <2>2, <3>3
      <4> QED BY <1>1, <2>1, <3>1, <4>1 DEF Leavings
    <3> QED BY <3>2, <3>3
  <2> QED BY <2>3, <2>4
<1> QED BY <1>2, <1>3 DEF Restart

\* A process leaves a journal whose jobs recovery can deal with, and takes no
\* outcome back that a batch reports.
LEMMA EveryJobCanBeLeft ==
  ASSUME RecInv, Restart
  PROVE  /\ jobs' \in [Launches -> Jobs]
         /\ \A l \in Launches : Left(child'[l], jobs'[l])
         /\ FinalsKeep
<1>1. ASSUME NEW l \in Launches
      PROVE  /\ jobs'[l] \in Jobs /\ Left(child'[l], jobs'[l])
             /\ Final(l) => Final(l)' /\ jobs'[l].term = jobs[l].term
  <2> DEFINE c == child[l]
             j == jobs[l]
             k == jobs'[l]
  <2>1. c \in Children /\ j \in Jobs /\ k \in Leavings(l)
    BY TornJournal DEF RecInv, RecoveryTypeOK, SupervisorTypeOK, TypeOK
  <2>2. child'[l] = IF Known(j) THEN PastChild ELSE NoChild
    BY DEF Restart, PastChild
  <2>3. CASE c = PastChild /\ LeftJob(j)
    <3>1. k = j
      BY <2>1, <2>3 DEF Leavings, TornJob, PastChild, NoChild
    <3> QED BY <2>1, <2>2, <2>3, <3>1 DEF LeftJob, Left, Final
  <2>4. CASE Consistent(c, j) /\ ReportConsistent(c, j) /\ ~Known(j)
    <3>1. c.pc = "none" /\ ~c.owned /\ c.mat = "pending" /\ ~c.recorded /\ ~j.ack
      BY <2>1, <2>4 DEF Consistent, StartupConsistent, LaunchConsistent,
         OutcomeConsistent, Children
    <3>2. k = j
      BY <2>1, <3>1 DEF Leavings, TornJob
    <3>3. ReportConsistent(NoChild, j)
      BY <2>4, <3>1 DEF ReportConsistent, NoChild
    <3>4. Consistent(NoChild, j)
      BY <3>1 DEF Consistent, StartupConsistent, LaunchConsistent,
         OutcomeConsistent, ReleaseConsistent, NoChild, Launching, Failing
    <3>5. ~Final(l)
      BY <2>4, <3>1 DEF Final, ReportConsistent
    <3> QED BY <2>1, <2>2, <2>4, <3>2, <3>3, <3>4, <3>5 DEF Left
  <2>5. CASE Consistent(c, j) /\ ReportConsistent(c, j) /\ Known(j)
    <3>1. k \in {j, SuppressUnacknowledged(j),
                 ForceJobError(c, SuppressUnacknowledged(j))}
          \/ (c.pc = "materializing" /\ k = Materialized(j))
          \/ (c.pc = "working" /\ k = LaunchAcknowledged(j))
      BY <2>1 DEF Leavings, TornJob
    <3>2. LeftJob(k)
      BY <2>1, <2>5, <3>1, JobCanBeLeft, TornJobCanBeLeft
    <3>3. k \in Jobs
      <4>1. SuppressUnacknowledged(j) \in Jobs
        BY <2>1, JobsClosed DEF SuppressUnacknowledged
      <4>2. ForceJobError(c, SuppressUnacknowledged(j)) \in Jobs
        BY <4>1, JobsClosed DEF ForceJobError, TerminalStatuses
      <4> QED BY <2>1, <3>1, <4>1, <4>2, JobsClosed
    <3>4. ASSUME Final(l) PROVE Final(l)' /\ k.term = j.term
      <4>1. c # PastChild
        BY <2>5 DEF ReportConsistent, Consistent, LaunchConsistent, PastChild, NoChild
      <4>2. c.published /\ j.ack /\ ~j.supp /\ j.term # "none"
        BY <2>5, <3>4, <4>1 DEF Final, Consistent, OutcomeConsistent
      <4>3. k.ack /\ ~k.supp /\ k.term = j.term
        BY <2>1, <3>1, <4>2 DEF SuppressUnacknowledged, ForceJobError,
           Materialized, LaunchAcknowledged, Jobs
      <4> QED BY <2>2, <2>5, <4>2, <4>3 DEF Final
    <3> QED BY <2>2, <2>5, <3>2, <3>3, <3>4 DEF Left
  <2>6. CASE rec.at = "up"
    <3>1. Lawful(c, j) /\ Reportable(c, j)
      BY <2>6 DEF RecInv, OpenInv, SupCore, IInv, ReportInv
    <3>2. c = PastChild => ~Consistent(c, j)
      BY DEF Consistent, LaunchConsistent, PastChild, NoChild
    <3> QED BY <2>3, <2>4, <2>5, <3>1, <3>2 DEF Lawful, Past, Reportable
  <2>7. CASE rec.at # "up"
    BY <2>3, <2>4, <2>7 DEF RecInv, RecoveringInv, Left
  <2> QED BY <2>6, <2>7
<1>2. jobs' = [l \in Launches |-> jobs'[l]]
  BY TornJournal DEF RecInv
<1> QED BY <1>1, <1>2 DEF FinalsKeep

\* A stop that was cut off superseded only batches whose message is not in the
\* log: when it supersedes, no send and no check is left.
LEMMA TornBatchesFacts ==
  ASSUME RecInv, Restart
  PROVE  /\ batches' \in [BatchIds -> Batches]
         /\ \A b \in BatchIds :
              /\ batches'[b].out = batches[b].out
              /\ batches'[b].st = "none" <=> batches[b].st = "none"
              /\ batches'[b].st \in {"pending", "acked"} => batches'[b].st = batches[b].st
         /\ ~refused => \A b \in entries : batches'[b].st \in {"pending", "acked"}
<1>1. batches \in [BatchIds -> Batches] /\ entries \subseteq BatchIds
  BY DEF RecInv, RecoveryTypeOK, SupervisorTypeOK, TypeOK
<1>2. ASSUME ~refused, NEW b \in entries PROVE batches[b].st \in {"pending", "acked"}
  <2>1. CASE rec.at = "up"
    <3>1. Mailed(b) /\ Handled(b)
      BY <1>1, <1>2, <2>1 DEF RecInv, OpenInv, MailInv, Handled
    <3>2. batches[b].st \in {"none", "pending", "acked", "superseded"}
      BY <1>1, <1>2 DEF Batches
    <3> QED BY <1>2, <3>1, <3>2 DEF Mailed
  <2>2. CASE rec.at # "up"
    BY <1>2, <2>2 DEF RecInv, RecoveringInv, PendingBatches
  <2> QED BY <2>1, <2>2
<1>3. CASE batches' = batches
  BY <1>1, <1>2, <1>3
<1>4. CASE batches' # batches
  <2>1. /\ rec.at = "up" /\ stopPhase = "notify" /\ sends = {}
        /\ \E B \in SUBSET (PendingBatches(batches) \ {stoppingBatch}) :
             batches' = NotificationSuperseded(batches, B)
    BY <1>4 DEF Restart, TornBatches
  <2>2. PICK B \in SUBSET (PendingBatches(batches) \ {stoppingBatch}) :
          batches' = NotificationSuperseded(batches, B)
    BY <2>1
  <2>3. ASSUME NEW b \in BatchIds
        PROVE  /\ batches'[b] \in Batches /\ batches'[b].out = batches[b].out
               /\ IF b \in B THEN batches'[b].st = "superseded"
                             ELSE batches'[b] = batches[b]
    BY <1>1, <2>2 DEF NotificationSuperseded, Batches
  <2>4. B \subseteq PendingBatches(batches)
    BY <2>2
  <2>5. ASSUME ~refused, NEW b \in entries PROVE b \notin B
    <3>1. SUFFICES ASSUME b \in B PROVE FALSE
      OBVIOUS
    <3>2. /\ StoppingInv /\ MailInv
      BY <2>1, <2>5 DEF RecInv, OpenInv, SupCore
    <3>3. run = "idle" /\ ~disposed
      BY <2>1, <3>2 DEF StoppingInv
    <3>4. Mailed(b) /\ batches[b].st = "pending"
      BY <1>1, <2>4, <2>5, <3>1, <3>2 DEF MailInv, PendingBatches
    <3> QED BY <2>1, <2>5, <3>3, <3>4 DEF Mailed
  <2>6. batches' = [b \in BatchIds |-> batches'[b]]
    BY <2>2 DEF NotificationSuperseded
  <2>7. \A b \in BatchIds : b \in B => batches[b].st = "pending"
    BY <2>4 DEF PendingBatches
  <2> QED BY <1>1, <1>2, <2>3, <2>5, <2>6, <2>7
<1> QED BY <1>3, <1>4

\* A restart leads to a recovery that knows what is still to be delivered.
LEMMA RestartKeeps ==
  ASSUME RecInv, Restart
  PROVE  RecInv'
<1>1. /\ jobs' \in [Launches -> Jobs]
      /\ \A l \in Launches : Left(child'[l], jobs'[l])
      /\ FinalsKeep
  BY EveryJobCanBeLeft
<1>2. /\ batches' \in [BatchIds -> Batches]
      /\ \A b \in BatchIds :
           /\ batches'[b].out = batches[b].out
           /\ batches'[b].st = "none" <=> batches[b].st = "none"
           /\ batches'[b].st \in {"pending", "acked"} => batches'[b].st = batches[b].st
      /\ ~refused => \A b \in entries : batches'[b].st \in {"pending", "acked"}
  BY TornBatchesFacts
<1>3. /\ rec' = [Up EXCEPT !.at = "pending", !.todo = PendingBatches(batches')]
      /\ UNCHANGED <<entries, faults, sendFaults, refused>>
      /\ restarts < MaxRestarts /\ restarts' = restarts + 1
      /\ child' = [l \in Launches |-> IF Known(jobs[l]) THEN PastChild ELSE NoChild]
  BY DEF Restart, PastChild
<1>4. Quiet' /\ scheduled' = FALSE /\ admitted' = FALSE /\ again' = {}
  BY DEF Restart, Quiet
<1>5. BatchInv'
  BY <1>1, <1>2, BatchesEnd DEF RecInv
<1>6. LogInv'
  BY <1>2, <1>3, <1>4 DEF RecInv, LogInv, Quiet
<1>7. RecoveryTypeOK'
  <2>1. SupervisorTypeOK'
    <3>1. PastChild \in Children /\ NoChild \in Children
      BY DEF PastChild, NoChild, Children, LaunchPcs, StopPcs, Outcomes
    <3>2. TypeOK'
      <4>1. child' \in [Launches -> Children]
        BY <1>3, <3>1
      <4>2. faults' \in 0 .. MaxFaults
        BY <1>3 DEF TypeOK, RecInv, RecoveryTypeOK, SupervisorTypeOK
      <4>3. /\ ownerStopping' = FALSE /\ stopping' = FALSE /\ closing' = FALSE
            /\ stopPhase' = "idle" /\ disposed' = FALSE
        BY DEF Restart
      <4> QED BY <1>1, <1>2, <1>4, <4>1, <4>2, <4>3 DEF TypeOK, StopPhases
    <3>3. NoSend \in Senders /\ EmptyQueue \in Queues /\ NoBatch \in BatchOrNone
      BY DEF NoSend, Senders, EmptyQueue, Queues, BatchOrNone
    <3> QED BY <1>3, <1>4, <3>2, <3>3
            DEF Quiet, SupervisorTypeOK, RecInv, RecoveryTypeOK, Runs
  <2>2. restarts' \in 0 .. MaxRestarts
    BY <1>3, RestartsAssumption DEF RecInv, RecoveryTypeOK
  <2>3. rec' \in Recoveries
    <3>1. PendingBatches(batches') \in SUBSET BatchIds
      BY DEF PendingBatches
    <3> QED BY <1>3, <3>1 DEF Up, Recoveries
  <2> QED BY <1>3, <2>1, <2>2, <2>3 DEF RecInv, RecoveryTypeOK
<1>8. /\ rec'.at = "pending" /\ rec'.told = FALSE
      /\ rec'.todo = PendingBatches(batches')
  BY <1>3 DEF Up
<1>9. RecoveringInv'
  <2>1. ~refused' => \A b \in entries' : batches'[b].st = "acked" \/ b \in rec'.todo
    <3>1. entries \subseteq BatchIds
      BY DEF RecInv, RecoveryTypeOK, SupervisorTypeOK
    <3> QED BY <1>2, <1>3, <1>8, <3>1 DEF PendingBatches
  <2> QED BY <1>1, <1>4, <1>8, <2>1 DEF RecoveringInv
<1>10. PhaseInv'
  BY <1>8 DEF PhaseInv
<1> QED BY <1>5, <1>6, <1>7, <1>8, <1>9, <1>10 DEF RecInv

-----------------------------------------------------------------------------
(* The steps of recovery.                                                  *)

\* What every step of a recovery leaves alone, and what it has to show.
LEMMA RecoverStep ==
  ASSUME RecInv, rec.at # "up", NotRecovered, UNCHANGED scheduled,
         jobs' \in [Launches -> Jobs], batches' \in [BatchIds -> Batches],
         entries' \subseteq BatchIds, faults' \in 0 .. MaxFaults,
         refused' \in BOOLEAN, rec' \in Recoveries, rec'.at # "up",
         BatchInv', LogInv', \A l \in Launches : Left(child[l], jobs'[l]),
         rec'.todo \subseteq PendingBatches(batches'),
         rec'.told => rec'.todo # {} /\ Oldest(rec'.todo) \in entries',
         ~refused' => \A b \in entries' : batches'[b].st = "acked" \/ b \in rec'.todo,
         PhaseInv'
  PROVE  RecInv'
<1>1. UNCHANGED <<child, ownerStopping, stopping, closing, stopPhase, disposed,
                  run, queue, wake, sends, send, admitted, again, q, checks,
                  stoppingBatch, sendFaults, restarts>>
  BY DEF NotRecovered, sendVars, queueVars
<1>2. TypeOK'
  BY <1>1 DEF RecInv, RecoveryTypeOK, SupervisorTypeOK, TypeOK
<1>3. RecoveryTypeOK'
  BY <1>1, <1>2 DEF RecInv, RecoveryTypeOK, SupervisorTypeOK
<1>4. Quiet'
  BY <1>1 DEF RecInv, RecoveringInv, Quiet
<1>5. RecoveringInv'
  BY <1>1, <1>4 DEF RecoveringInv
<1> QED BY <1>3, <1>5 DEF RecInv

\* What is known of a recovering session.
LEMMA RecoveringFacts ==
  ASSUME RecInv, rec.at # "up"
  PROVE  /\ jobs \in [Launches -> Jobs] /\ batches \in [BatchIds -> Batches]
         /\ entries \subseteq BatchIds /\ faults \in 0 .. MaxFaults
         /\ refused \in BOOLEAN /\ rec \in Recoveries
         /\ BatchInv /\ LogInv /\ RecoveringInv /\ PhaseInv /\ checks = {}
         /\ rec.todo # {} => Oldest(rec.todo) \in rec.todo
BY OldestIsOne DEF RecInv, RecoveryTypeOK, SupervisorTypeOK, TypeOK, RecoveringInv,
   Quiet, Recoveries

\* Only an open session is at rest.
LEMMA DeliversInRecovery ==
  ASSUME RecInv, rec.todo # {} \/ rec.told
  PROVE  rec.at # "up"
BY DEF RecInv, OpenInv, Up

\* What the journal has been found to hold stays, where neither a job changes
\* nor a batch is given up.
LEMMA PhaseStands ==
  ASSUME PhaseInv, UNCHANGED jobs, rec'.at = rec.at, rec'.left = rec.left,
         rec.at # "jobs",
         \A l \in Launches : Reported(l) => Reported(l)'
  PROVE  PhaseInv'
BY DEF PhaseInv, Untold

\* The message is written once it is known whose turn it is.
LEMMA DeliverMessageKeeps ==
  ASSUME RecInv, DeliverMessage
  PROVE  RecInv'
<1>1. /\ rec.at # "up" /\ rec.todo # {} /\ ~rec.told
      /\ UNCHANGED <<jobs, batches, scheduled, faults, refused>> /\ NotRecovered
  BY DeliversInRecovery DEF DeliverMessage
<1>2. /\ jobs \in [Launches -> Jobs] /\ batches \in [BatchIds -> Batches]
      /\ entries \subseteq BatchIds /\ faults \in 0 .. MaxFaults
      /\ refused \in BOOLEAN /\ rec \in Recoveries
      /\ BatchInv /\ LogInv /\ RecoveringInv /\ PhaseInv /\ checks = {}
      /\ Oldest(rec.todo) \in rec.todo
  BY <1>1, RecoveringFacts
<1>3. /\ rec' \in Recoveries /\ rec'.at = rec.at /\ rec'.todo = rec.todo
      /\ rec'.left = rec.left /\ rec'.told /\ rec'.held = rec.held /\ rec'.out = rec.out
  BY <1>2 DEF DeliverMessage, Recoveries
<1>4. entries' = entries \cup {Oldest(rec.todo)} /\ entries' \subseteq BatchIds
  BY <1>2 DEF DeliverMessage, Recoveries
<1>5. UNCHANGED checks /\ UNCHANGED child
  BY <1>1 DEF NotRecovered, queueVars
<1>6. BatchInv' /\ LogInv'
  BY <1>1, <1>2, <1>4, <1>5, FinalsStand, BatchesStand, LogGrows
<1>7. PhaseInv'
  <2>1. rec.at # "jobs"
    BY <1>1, <1>2 DEF PhaseInv
  <2> QED BY <1>1, <1>2, <1>3, <2>1, PhaseStands DEF Reported, BatchesOf
<1>8. ~refused' => \A b \in entries' : batches'[b].st = "acked" \/ b \in rec'.todo
  BY <1>1, <1>2, <1>3, <1>4 DEF RecoveringInv
<1>9. /\ rec'.todo \subseteq PendingBatches(batches')
      /\ rec'.told => rec'.todo # {} /\ Oldest(rec'.todo) \in entries'
      /\ \A l \in Launches : Left(child[l], jobs'[l])
  BY <1>1, <1>2, <1>3, <1>4 DEF RecoveringInv
<1> QED BY <1>1, <1>2, <1>3, <1>4, <1>6, <1>7, <1>8, <1>9, RecoverStep

\* It is in the log before the batch is acknowledged.
LEMMA DeliverAcknowledgesKeeps ==
  ASSUME RecInv, DeliverAcknowledges
  PROVE  RecInv'
<1> DEFINE b == Oldest(rec.todo)
<1>1. /\ rec.at # "up" /\ rec.told
      /\ UNCHANGED <<jobs, entries, scheduled, faults, refused>> /\ NotRecovered
  BY DeliversInRecovery DEF DeliverAcknowledges
<1>2. /\ jobs \in [Launches -> Jobs] /\ batches \in [BatchIds -> Batches]
      /\ entries \subseteq BatchIds /\ faults \in 0 .. MaxFaults
      /\ refused \in BOOLEAN /\ rec \in Recoveries
      /\ BatchInv /\ LogInv /\ RecoveringInv /\ PhaseInv /\ checks = {}
      /\ rec.todo # {} /\ b \in rec.todo /\ b \in entries
      /\ rec.todo \subseteq PendingBatches(batches)
  BY <1>1, RecoveringFacts DEF RecoveringInv
<1>3. /\ rec' \in Recoveries /\ rec'.at = rec.at /\ rec'.todo = rec.todo \ {b}
      /\ rec'.left = rec.left /\ ~rec'.told
  BY <1>2 DEF DeliverAcknowledges, Recoveries
<1>4. b \in BatchIds /\ batches[b].st = "pending"
  BY <1>2 DEF PendingBatches
<1>5. batches' = [batches EXCEPT ![b].st = "acked"]
  BY DEF DeliverAcknowledges, NotificationAck
<1>6. /\ batches' \in [BatchIds -> Batches]
      /\ batches'[b].st = "acked" /\ batches'[b].out = batches[b].out
      /\ \A a \in BatchIds \ {b} : batches'[a] = batches[a]
  BY <1>2, <1>4, <1>5 DEF Batches
<1> HIDE DEF b
<1>7. UNCHANGED checks /\ UNCHANGED child
  BY <1>1 DEF NotRecovered, queueVars
<1>8. BatchInv'
  BY <1>1, <1>2, <1>4, <1>6, <1>7, FinalsStand, BatchesEnd
<1>9. LogInv'
  BY <1>1, <1>2, <1>6, <1>7 DEF LogInv
<1>10. PhaseInv'
  <2>1. rec.at # "jobs"
    BY <1>2 DEF PhaseInv
  <2>2. \A l \in Launches : Reported(l) => Reported(l)'
    BY <1>4, <1>6 DEF Reported, BatchesOf
  <2> QED BY <1>1, <1>2, <1>3, <2>1, <2>2, PhaseStands
<1>11. ~refused' => \A a \in entries' : batches'[a].st = "acked" \/ a \in rec'.todo
  BY <1>1, <1>2, <1>3, <1>6 DEF RecoveringInv
<1>12. /\ rec'.todo \subseteq PendingBatches(batches')
       /\ \A l \in Launches : Left(child[l], jobs'[l])
  BY <1>1, <1>2, <1>3, <1>6 DEF RecoveringInv, PendingBatches
<1> QED BY <1>1, <1>2, <1>3, <1>6, <1>8, <1>9, <1>10, <1>11, <1>12, RecoverStep

\* A batch whose owner cannot be read is left as it is.
LEMMA DeliverRefusedKeeps ==
  ASSUME RecInv, DeliverRefused
  PROVE  RecInv'
<1>1. /\ rec.at # "up" /\ rec.todo # {} /\ ~rec.told /\ CanFail
      /\ UNCHANGED <<jobs, batches, entries, scheduled>> /\ NotRecovered
      /\ refused' = TRUE
  BY DeliversInRecovery DEF DeliverRefused
<1>2. /\ jobs \in [Launches -> Jobs] /\ batches \in [BatchIds -> Batches]
      /\ entries \subseteq BatchIds /\ faults \in 0 .. MaxFaults
      /\ refused \in BOOLEAN /\ rec \in Recoveries
      /\ BatchInv /\ LogInv /\ RecoveringInv /\ PhaseInv /\ checks = {}
  BY <1>1, RecoveringFacts
<1>3. /\ rec' \in Recoveries /\ rec'.at = rec.at /\ rec'.todo \subseteq rec.todo
      /\ rec'.left = rec.left /\ ~rec'.told
  BY <1>1, <1>2 DEF DeliverRefused, Recoveries
<1>4. faults' \in 0 .. MaxFaults
  BY <1>1, <1>2, FaultsAssumption DEF CanFail
<1>5. UNCHANGED checks /\ UNCHANGED child
  BY <1>1 DEF NotRecovered, queueVars
<1>6. BatchInv' /\ LogInv'
  BY <1>1, <1>2, <1>5, FinalsStand, BatchesStand, LogGrows
<1>7. PhaseInv'
  <2>1. rec.at # "jobs"
    BY <1>1, <1>2 DEF PhaseInv
  <2> QED BY <1>1, <1>2, <1>3, <2>1, PhaseStands DEF Reported, BatchesOf
<1>8. /\ rec'.todo \subseteq PendingBatches(batches')
      /\ \A l \in Launches : Left(child[l], jobs'[l])
  BY <1>1, <1>2, <1>3 DEF RecoveringInv
<1> QED BY <1>1, <1>2, <1>3, <1>4, <1>6, <1>7, <1>8, RecoverStep

\* What the loop over the jobs starts from: an outcome in a job that nobody was
\* told of is collected, and nothing else is.
LEMMA CollectOutcomesKeeps ==
  ASSUME RecInv, CollectOutcomes
  PROVE  RecInv'
<1> DEFINE held == {l \in Launches : BatchesOf(l, batches, {"pending"}) # {}}
           left == {l \in Launches : Known(jobs[l]) /\ ~jobs[l].supp}
           out == {l \in Launches \ (held \cup AcknowledgedLaunches(batches)) :
                     jobs[l].st \in TerminalStatuses /\ ~jobs[l].supp /\ jobs[l].path}
<1>1. /\ rec.at = "pending" /\ rec.todo = {}
      /\ rec' = [rec EXCEPT !.at = "jobs", !.held = held, !.left = left, !.out = out]
      /\ UNCHANGED <<jobs, batches, entries, scheduled, faults, refused>> /\ NotRecovered
  BY DEF CollectOutcomes, Recovering
<1>2. /\ jobs \in [Launches -> Jobs] /\ batches \in [BatchIds -> Batches]
      /\ entries \subseteq BatchIds /\ faults \in 0 .. MaxFaults
      /\ refused \in BOOLEAN /\ rec \in Recoveries
      /\ BatchInv /\ LogInv /\ RecoveringInv /\ checks = {}
  BY <1>1, RecoveringFacts
<1>3. /\ rec' \in Recoveries /\ rec'.at = "jobs" /\ rec'.todo = {} /\ rec'.told = rec.told
      /\ rec'.held = held /\ rec'.left = left /\ rec'.out = out
  BY <1>1, <1>2 DEF Recoveries
<1>4. UNCHANGED checks /\ UNCHANGED child
  BY <1>1 DEF NotRecovered, queueVars
<1>5. BatchInv' /\ LogInv'
  BY <1>1, <1>2, <1>4, FinalsStand, BatchesStand, LogGrows
<1>6. \A l \in Launches : Reported(l)' = Reported(l) /\ Untold(l)' = Untold(l)
  BY <1>1 DEF Reported, Untold
<1>7. \A l \in Launches :
        l \in held \cup AcknowledgedLaunches(batches) <=> Reported(l)
  BY DEF Reported, AcknowledgedLaunches, BatchesOf
<1>8. ASSUME NEW l \in Launches, jobs[l].st \in TerminalStatuses
      PROVE  jobs[l].path /\ jobs[l].term = jobs[l].st
  <2>1. Left(child[l], jobs[l]) /\ Known(jobs[l])
    BY <1>2, <1>8 DEF RecoveringInv, Known, TerminalStatuses
  <2> QED BY <1>8, <2>1 DEF Left, LeftJob, TerminalStatuses
<1>9. \A l \in Launches : l \in out <=> Untold(l)
  BY <1>7, <1>8 DEF Untold
<1>10. \A l \in Launches \ left : ~Running(jobs[l])
  BY DEF Running, RunningStatuses, Known
<1>11. PhaseInv'
  BY <1>1, <1>3, <1>6, <1>8, <1>9, <1>10 DEF PhaseInv, Untold
<1>12. ~rec'.told /\ (~refused' => \A b \in entries' : batches'[b].st = "acked")
  BY <1>1, <1>2, <1>3 DEF RecoveringInv
<1> QED BY <1>1, <1>2, <1>3, <1>5, <1>11, <1>12, RecoverStep DEF RecoveringInv

-----------------------------------------------------------------------------
(* The loop over the jobs.                                                 *)

\* Job l becomes k, which nobody can take for running, and its outcome is among
\* the ones to report exactly if nobody was told of it.
LEMMA JobExamined ==
  ASSUME RecInv, rec.at = "jobs", NEW l \in rec.left, NEW k \in Jobs, NEW out,
         NotRecovered, UNCHANGED <<batches, entries, scheduled, refused>>,
         faults' \in 0 .. MaxFaults,
         jobs' = [jobs EXCEPT ![l] = k],
         rec' = [rec EXCEPT !.left = @ \ {l}, !.out = @ \cup out],
         out \subseteq {l},
         Left(child[l], k), ~Running(k),
         Final(l) => /\ k.term = jobs[l].term /\ ~k.supp
                     /\ k.ack \/ k.recovered,
         l \in rec.out \cup out <=>
           k.st \in TerminalStatuses /\ ~k.supp /\ ~Reported(l)
  PROVE  RecInv'
<1>1. /\ jobs \in [Launches -> Jobs] /\ batches \in [BatchIds -> Batches]
      /\ entries \subseteq BatchIds /\ refused \in BOOLEAN /\ rec \in Recoveries
      /\ BatchInv /\ LogInv /\ RecoveringInv /\ PhaseInv /\ checks = {}
  BY RecoveringFacts
<1>2. l \in Launches
  BY <1>1 DEF Recoveries
<1>3. /\ jobs' \in [Launches -> Jobs] /\ jobs'[l] = k
      /\ \A m \in Launches \ {l} : jobs'[m] = jobs[m]
  BY <1>1, <1>2
<1>4. /\ rec' \in Recoveries /\ rec'.at = "jobs" /\ rec'.todo = rec.todo
      /\ rec'.told = rec.told /\ rec'.held = rec.held
      /\ rec'.left = rec.left \ {l} /\ rec'.out = rec.out \cup out
  BY <1>1, <1>2 DEF Recoveries
<1>5. UNCHANGED <<child, checks>>
  BY DEF NotRecovered, queueVars
<1>6. \A m \in Launches : Left(child[m], jobs'[m])
  BY <1>1, <1>3 DEF RecoveringInv
<1>7. FinalsKeep
  BY <1>3, <1>5 DEF FinalsKeep, Final
<1>8. BatchInv' /\ LogInv'
  BY <1>1, <1>5, <1>7, BatchesStand, LogGrows
<1>9. ASSUME NEW m \in Launches
      PROVE  /\ Reported(m)' = Reported(m)
             /\ m # l => (Untold(m)' <=> Untold(m))
             /\ m = l => (Untold(m)' <=> l \in rec.out \cup out)
  <2>1. Reported(m)' = Reported(m)
    BY DEF Reported
  <2> QED BY <1>3, <2>1 DEF Untold
<1>10. ASSUME NEW m \in Launches, jobs'[m].st \in TerminalStatuses
       PROVE  jobs'[m].term = jobs'[m].st
  BY <1>6, <1>10 DEF Left, LeftJob, Known, TerminalStatuses
<1>11. rec.todo = {} /\ rec.held = {m \in Launches : BatchesOf(m, batches, {"pending"}) # {}}
  BY <1>1 DEF PhaseInv
<1>12. PhaseInv'
  <2>1. \A m \in Launches \ rec'.left : ~Running(jobs'[m])
    BY <1>1, <1>3, <1>4 DEF PhaseInv
  <2>2. \A m \in rec'.left : ~jobs'[m].supp
    BY <1>1, <1>3, <1>4 DEF PhaseInv, Recoveries
  <2>3. \A m \in Launches : m \in rec'.out <=> Untold(m)'
    BY <1>1, <1>4, <1>9 DEF PhaseInv
  <2>4. rec'.out \subseteq Launches
    BY <1>4 DEF Recoveries
  <2>5. \A m \in rec'.out : Untold(m)' /\ jobs'[m].term = jobs'[m].st
    BY <1>10, <2>3, <2>4 DEF Untold
  <2>6. rec'.held = {m \in Launches : BatchesOf(m, batches', {"pending"}) # {}}
    BY <1>4, <1>11
  <2> QED BY <1>4, <1>11, <2>1, <2>2, <2>3, <2>5, <2>6 DEF PhaseInv
<1>13. ~rec'.told /\ (~refused' => \A b \in entries' : batches'[b].st = "acked")
  BY <1>1, <1>4, <1>11 DEF RecoveringInv
<1> QED BY <1>1, <1>3, <1>4, <1>6, <1>8, <1>11, <1>12, <1>13, RecoverStep

\* Every way to examine a job.
LEMMA RecoverJobKeeps ==
  ASSUME RecInv, NEW l \in Launches, RecoverJob(l)
  PROVE  RecInv'
<1> DEFINE j == jobs[l]
           unheld == {l} \ (rec.held \cup AcknowledgedLaunches(batches))
<1>1. /\ rec.at = "jobs" /\ l \in rec.left /\ NotRecovered
      /\ UNCHANGED <<batches, entries, scheduled, refused>>
      /\ PromoteOutcome(l) \/ LeaveEnded(l) \/ FailUnmaterialized(l) \/ FailInterrupted(l)
  BY DEF RecoverJob, Recovering
<1>2. /\ j \in Jobs /\ faults \in 0 .. MaxFaults /\ BatchInv /\ PhaseInv
      /\ Left(child[l], j) /\ ~j.supp
  BY <1>1, RecoveringFacts DEF RecoveringInv, PhaseInv
<1>3. l \in rec.out => Untold(l) /\ j.term = j.st
  BY <1>1, <1>2 DEF PhaseInv
<1>4. l \in unheld <=> ~Reported(l)
  BY <1>1, <1>2 DEF PhaseInv, Reported, AcknowledgedLaunches, BatchesOf
<1>5. j.term # "none" => child[l] = PastChild /\ LeftJob(j)
  BY <1>2 DEF Left, ReportConsistent, NoChild
<1>6. Reported(l) => j.term # "none"
  BY <1>2 DEF Reported, BatchesOf, BatchInv, Final
<1>7. CASE PromoteOutcome(l)
  <2> DEFINE k == Terminal(j, j.term, TRUE)
             out == {x \in unheld : jobs[x].path}
  <2>1. /\ j.term \notin {"none", j.st} /\ jobs' = [jobs EXCEPT ![l] = k]
        /\ rec' = [rec EXCEPT !.left = @ \ {l}, !.out = @ \cup out] /\ UNCHANGED faults
    BY <1>7 DEF PromoteOutcome, JobBecomes, Examined
  <2>2. child[l] = PastChild /\ LeftJob(j) /\ j.path /\ Known(j)
        /\ j.term \in TerminalStatuses
    BY <1>2, <1>5, <2>1 DEF LeftJob, Jobs, Outcomes
  <2>3. /\ k \in Jobs /\ k.st = j.term /\ k.term = j.term /\ k.recovered
        /\ k.ack = j.ack /\ k.supp = j.supp /\ k.path = j.path
    BY <1>2, <2>2 DEF Terminal, Jobs, Statuses, TerminalStatuses
  <2>4. l \in out <=> ~Reported(l)
    BY <1>4, <2>2
  <2>5. out \subseteq {l}
    OBVIOUS
  <2> HIDE DEF k, out
  <2>6. LeftJob(k) /\ ~Running(k)
    BY <2>2, <2>3 DEF LeftJob, Known, Running, RunningStatuses, TerminalStatuses
  <2>7. l \in rec.out \cup out <=>
          k.st \in TerminalStatuses /\ ~k.supp /\ ~Reported(l)
    BY <1>2, <1>3, <2>2, <2>3, <2>4 DEF Untold
  <2>8. /\ Left(child[l], k)
        /\ Final(l) => /\ k.term = jobs[l].term /\ ~k.supp
                       /\ k.ack \/ k.recovered
        /\ faults' \in 0 .. MaxFaults
    BY <1>2, <2>1, <2>2, <2>3, <2>6 DEF Left, Final
  <2> QED BY <1>1, <2>1, <2>3, <2>5, <2>6, <2>7, <2>8, JobExamined
<1>8. CASE LeaveEnded(l)
  <2> DEFINE out == {}
  <2>1. /\ j.st \notin RunningStatuses /\ UNCHANGED <<jobs, faults>>
        /\ rec' = [rec EXCEPT !.left = @ \ {l}, !.out = @ \cup out]
    BY <1>8 DEF LeaveEnded, Examined
  <2>2. jobs' = [jobs EXCEPT ![l] = j]
    BY <1>1, <2>1, RecoveringFacts
  <2>3. l \in rec.out \cup out <=> j.st \in TerminalStatuses /\ ~j.supp /\ ~Reported(l)
    BY <1>1, <1>2, <1>3 DEF PhaseInv, Untold
  <2>4. /\ ~Running(j) /\ faults' \in 0 .. MaxFaults
        /\ Final(l) => /\ ~j.supp
                       /\ j.ack \/ j.recovered
    BY <1>2, <2>1 DEF Running, Final
  <2>5. out \subseteq {l}
    OBVIOUS
  <2> HIDE DEF j, out
  <2> QED BY <1>1, <1>2, <2>1, <2>2, <2>3, <2>4, <2>5, JobExamined DEF j
<1>9. CASE FailUnmaterialized(l)
  <2> DEFINE k == PreMaterializationFailed(j)
             out == {}
  <2>1. /\ j.term = "none" /\ j.st \in RunningStatuses
        /\ CanFail \/ UNCHANGED faults
        /\ jobs' = [jobs EXCEPT ![l] = k]
        /\ rec' = [rec EXCEPT !.left = @ \ {l}, !.out = @ \cup out]
    BY <1>9 DEF FailUnmaterialized, JobBecomes, Examined, Interrupted
  <2>2. faults' \in 0 .. MaxFaults
    BY <1>2, <2>1, FaultsAssumption DEF CanFail
  <2>3. Known(j) /\ child[l] = PastChild /\ LeftJob(j)
    BY <1>2, <2>1 DEF Left, Known, RunningStatuses
  <2>4. /\ k \in Jobs /\ k.st = "pre_materialization_failed" /\ k.term = "none"
        /\ k.recovered = j.recovered /\ k.ack = j.ack /\ k.supp = j.supp
        /\ k.path = j.path
    BY <1>2, <2>1, <2>3 DEF PreMaterializationFailed, Jobs, Statuses
  <2> HIDE DEF k
  <2>5. LeftJob(k) /\ ~Running(k) /\ k.st \notin TerminalStatuses
    BY <2>1, <2>3, <2>4 DEF LeftJob, Known, Running, RunningStatuses, TerminalStatuses
  <2>6. l \notin rec.out
    BY <1>3, <2>1 DEF Untold, TerminalStatuses
  <2>7. Left(child[l], k) /\ ~Final(l)
    BY <2>1, <2>3, <2>5 DEF Left, Final
  <2>8. out \subseteq {l} /\ l \notin rec.out \cup out
    BY <2>6
  <2> HIDE DEF out
  <2> QED BY <1>1, <2>1, <2>2, <2>4, <2>5, <2>7, <2>8, JobExamined
<1>10. CASE FailInterrupted(l)
  <2> DEFINE k == Terminal(j, "error", TRUE)
             out == {x \in {l} : jobs[x].path}
  <2>1. /\ j.term = "none" /\ j.st \in RunningStatuses /\ j.path /\ UNCHANGED faults
        /\ jobs' = [jobs EXCEPT ![l] = k]
        /\ rec' = [rec EXCEPT !.left = @ \ {l}, !.out = @ \cup out]
    BY <1>10 DEF FailInterrupted, JobBecomes, Examined, Interrupted
  <2>2. Known(j) /\ child[l] = PastChild /\ LeftJob(j)
    BY <1>2, <2>1 DEF Left, Known, RunningStatuses
  <2>3. /\ k \in Jobs /\ k.st = "error" /\ k.term = "error" /\ k.recovered
        /\ k.ack = j.ack /\ k.supp = j.supp /\ k.path = j.path
    BY <1>2, <2>2 DEF Terminal, Jobs, Statuses, Outcomes, TerminalStatuses
  <2>4. out = {l}
    BY <2>1
  <2> HIDE DEF k, out
  <2>5. LeftJob(k) /\ ~Running(k) /\ k.st \in TerminalStatuses
    BY <2>1, <2>2, <2>3 DEF LeftJob, Known, Running, RunningStatuses, TerminalStatuses
  <2>6. /\ Left(child[l], k) /\ ~Final(l) /\ ~k.supp /\ ~Reported(l)
        /\ faults' \in 0 .. MaxFaults
    BY <1>2, <1>6, <2>1, <2>2, <2>3, <2>5 DEF Left, Final
  <2>7. l \in rec.out \cup out /\ out \subseteq {l}
    BY <2>4
  <2> QED BY <1>1, <2>1, <2>3, <2>5, <2>6, <2>7, JobExamined
<1> QED BY <1>1, <1>7, <1>8, <1>9, <1>10

-----------------------------------------------------------------------------
(* The batch recovery records, and the session it opens.                   *)

\* The batch names the outcomes nobody was told of, which are in no other.
LEMMA RecordRecoveryBatchKeeps ==
  ASSUME RecInv, RecordRecoveryBatch
  PROVE  RecInv'
<1> DEFINE fresh == Cardinality({b \in BatchIds : batches[b].st # "none"}) + 1
           out == [l \in Launches |-> IF l \in rec.out THEN jobs[l].term ELSE "none"]
           new == [st |-> "pending", out |-> out, trig |-> FALSE]
<1>1. /\ rec.at = "jobs" /\ rec.left = {} /\ fresh \in BatchIds
      /\ batches' = [batches EXCEPT ![fresh] = new]
      /\ rec' = [rec EXCEPT !.at = "report", !.todo = {fresh}]
      /\ UNCHANGED <<jobs, entries, scheduled, faults, refused>> /\ NotRecovered
  BY DEF RecordRecoveryBatch, Recovering, NotificationBatch
<1>2. /\ jobs \in [Launches -> Jobs] /\ batches \in [BatchIds -> Batches]
      /\ entries \subseteq BatchIds /\ faults \in 0 .. MaxFaults
      /\ refused \in BOOLEAN /\ rec \in Recoveries
      /\ BatchInv /\ LogInv /\ RecoveringInv /\ PhaseInv /\ checks = {}
  BY <1>1, RecoveringFacts
<1>3. new.st = "pending" /\ new.out = out /\ new \in Batches
  <2>1. out \in [Launches -> Outcomes]
    BY <1>2 DEF Jobs, Outcomes
  <2> HIDE DEF out
  <2> QED BY <2>1 DEF Batches
<1>4. UNCHANGED <<child, checks>>
  BY <1>1 DEF NotRecovered, queueVars
<1>5. ASSUME NEW l \in Launches
      PROVE  /\ out[l] # "none" <=> l \in rec.out
             /\ l \in rec.out => Untold(l) /\ out[l] = jobs[l].term /\ Final(l)
  <2>1. l \in rec.out => Untold(l) /\ out[l] = jobs[l].term /\ jobs[l].term = jobs[l].st
    BY <1>1, <1>2 DEF PhaseInv
  <2>2. l \notin rec.out => out[l] = "none"
    OBVIOUS
  <2>3. l \in rec.out => Final(l)
    <3>1. Untold(l) => child[l] = PastChild /\ LeftJob(jobs[l])
      BY <1>2 DEF RecoveringInv, Left, Untold, Known, TerminalStatuses
    <3> QED BY <2>1, <3>1 DEF LeftJob, Final, Untold, TerminalStatuses
  <2> HIDE DEF out
  <2> QED BY <2>1, <2>2, <2>3 DEF Final
<1>6. \A l \in Launches : Untold(l) => Reports(l) = {}
  BY DEF Untold, Reported, Reports
<1>7. fresh = Cardinality({b \in BatchIds : batches[b].st # "none"}) + 1
  OBVIOUS
<1> HIDE DEF fresh, out, new
<1>8. batches[fresh].st = "none" /\ BatchInv'
  BY <1>1, <1>2, <1>3, <1>4, <1>5, <1>6, <1>7, NewBatchKeeps
<1>9. /\ batches' \in [BatchIds -> Batches] /\ batches'[fresh] = new
      /\ \A b \in BatchIds \ {fresh} : batches'[b] = batches[b]
  BY <1>1, <1>2, <1>3
<1>10. LogInv'
  BY <1>1, <1>2, <1>3, <1>4, <1>9 DEF LogInv
<1>11. /\ rec' \in Recoveries /\ rec'.at = "report" /\ rec'.todo = {fresh}
       /\ rec'.told = rec.told /\ rec'.left = {}
  BY <1>1, <1>2 DEF Recoveries
<1>12. PhaseInv'
  <2>1. ASSUME NEW l \in Launches PROVE ~Running(jobs'[l])
    BY <1>1, <1>2 DEF PhaseInv
  <2>2. ASSUME NEW l \in Launches, Untold(l)' PROVE FALSE
    <3>1. l \notin rec.out
      BY <1>1, <1>3, <1>5, <1>9, <2>2 DEF Untold, Reported, BatchesOf
    <3>2. ~Untold(l)
      BY <1>1, <1>2, <3>1 DEF PhaseInv
    <3>3. Reported(l)
      BY <1>1, <2>2, <3>2 DEF Untold
    <3>4. Reported(l)'
      BY <1>8, <1>9, <3>3 DEF Reported, BatchesOf
    <3> QED BY <2>2, <3>4 DEF Untold
  <2> QED BY <1>11, <2>1, <2>2 DEF PhaseInv
<1>13. rec.todo = {} /\ ~rec.told
  BY <1>1, <1>2 DEF PhaseInv, RecoveringInv
<1>14. ~refused' => \A b \in entries' : batches'[b].st = "acked" \/ b \in rec'.todo
  BY <1>1, <1>2, <1>9, <1>11, <1>13 DEF RecoveringInv
<1>15. /\ rec'.todo \subseteq PendingBatches(batches')
       /\ \A l \in Launches : Left(child[l], jobs'[l])
  BY <1>1, <1>2, <1>3, <1>9, <1>11 DEF RecoveringInv, PendingBatches
<1> QED BY <1>1, <1>2, <1>8, <1>9, <1>10, <1>11, <1>12, <1>13, <1>14, <1>15, RecoverStep

\* A session opens with a supervisor that has no child, over a journal in which
\* nothing runs.
LEMMA AttachKeeps ==
  ASSUME RecInv, Attach
  PROVE  RecInv'
<1>1. /\ rec.at \in {"jobs", "report"} /\ rec' = Up
      /\ rec.at = "jobs" => rec.left = {}
      /\ rec.at = "report" => rec.todo = {}
      /\ scheduled' = HasPendingNotifications
      /\ UNCHANGED <<jobs, batches, entries, faults, refused>> /\ NotRecovered
  BY DEF Attach, Recovering
<1>2. /\ jobs \in [Launches -> Jobs] /\ batches \in [BatchIds -> Batches]
      /\ entries \subseteq BatchIds /\ faults \in 0 .. MaxFaults
      /\ refused \in BOOLEAN /\ rec \in Recoveries
      /\ BatchInv /\ LogInv /\ RecoveringInv /\ PhaseInv /\ checks = {}
  BY <1>1, RecoveringFacts
<1>3. /\ Quiet /\ rec.todo = {} /\ \A l \in Launches : ~Running(jobs[l])
      /\ \A l \in Launches : Left(child[l], jobs[l])
  BY <1>1, <1>2 DEF PhaseInv, RecoveringInv
<1>4. UNCHANGED <<child, ownerStopping, stopping, closing, stopPhase, disposed,
                  run, queue, wake, sends, send, admitted, again, q, checks,
                  stoppingBatch, sendFaults, restarts>>
  BY <1>1 DEF NotRecovered, sendVars, queueVars
<1>5. BatchInv' /\ LogInv'
  BY <1>1, <1>2, <1>4, FinalsStand, BatchesStand, LogGrows
<1>6. RecoveryTypeOK'
  <2>1. scheduled' \in BOOLEAN
    BY <1>1 DEF HasPendingNotifications
  <2>2. TypeOK'
    BY <1>1, <1>4, <2>1 DEF RecInv, RecoveryTypeOK, SupervisorTypeOK, TypeOK
  <2>3. Up \in Recoveries
    BY DEF Up, Recoveries
  <2> QED BY <1>1, <1>4, <2>2, <2>3 DEF RecInv, RecoveryTypeOK, SupervisorTypeOK
<1>7. SupCore'
  <2>1. ASSUME NEW l \in Launches
        PROVE  Lawful(child'[l], jobs'[l]) /\ Reportable(child'[l], jobs'[l])
    BY <1>1, <1>3, <1>4 DEF Left, Lawful, Past, Reportable
  <2>2. ReportInv' /\ IInv'
    BY <1>6, <2>1 DEF RecoveryTypeOK, SupervisorTypeOK, IInv, ReportInv, Lawful, Past,
       Reportable
  <2>3. StoppingInv'
    BY <1>3, <1>4 DEF Quiet, StoppingInv, NoSend, Ending
  <2> QED BY <1>5, <1>6, <2>2, <2>3 DEF SupCore, RecoveryTypeOK
<1>8. ~refused' => MailInv'
  <2> SUFFICES ASSUME ~refused PROVE MailInv'
    BY <1>1
  <2>1. \A b \in entries' : batches'[b].st = "acked"
    BY <1>1, <1>2, <1>3 DEF RecoveringInv
  <2>2. Quiet'
    BY <1>3, <1>4 DEF Quiet
  <2>3. ASSUME NEW b \in BatchIds PROVE Mailed(b)'
    <3>1. Handled(b)' => b \in entries'
      BY <2>2, JournalAssumption DEF Quiet, Handled, BatchIds, NoBatch
    <3>2. b # wake' /\ b # stoppingBatch' /\ b \notin q'.awaiting /\ b \notin queue'
          /\ b \notin checks' /\ stopPhase' \notin Ending
      BY <2>2, JournalAssumption DEF Quiet, BatchIds, NoBatch, EmptyQueue, Ending
    <3>3. batches'[b].st = "acked" => b \in entries'
      BY <1>5 DEF LogInv
    <3> QED BY <2>1, <2>2, <3>1, <3>2, <3>3 DEF Mailed, Quiet
  <2> QED BY <2>2, <2>3 DEF MailInv, Quiet, Flushing, NoSend
<1> QED BY <1>1, <1>5, <1>6, <1>7, <1>8 DEF RecInv, OpenInv, Up

\* An open session is a supervisor's.
LEMMA SuperviseKeeps ==
  ASSUME RecInv, Supervise
  PROVE  RecInv'
<1>1. rec.at = "up" /\ SupervisorNext /\ UNCHANGED <<restarts, rec, refused>>
  BY DEF Supervise
<1>2. SupCore' /\ (MailInv => MailInv')
  BY <1>1, SupervisorStepKeeps DEF RecInv, OpenInv, Keeps
<1>3. RecoveryTypeOK'
  BY <1>1, <1>2 DEF RecInv, RecoveryTypeOK, SupCore
<1> QED BY <1>1, <1>2, <1>3 DEF RecInv, OpenInv, SupCore

\* Every step keeps the invariant.
LEMMA RecoveryStepKeeps ==
  ASSUME RecInv, [RecoveryNext]_allVars
  PROVE  RecInv'
<1>1. CASE UNCHANGED allVars
  <2>1. UNCHANGED vars /\ UNCHANGED <<restarts, rec, refused>>
    BY <1>1 DEF allVars
  <2>2. CASE rec.at = "up"
    <3>1. SupCore' /\ (MailInv => MailInv')
      BY <2>1, <2>2, SupervisorStepKeeps DEF RecInv, OpenInv, Keeps
    <3>2. RecoveryTypeOK'
      BY <2>1, <3>1 DEF RecInv, RecoveryTypeOK, SupCore
    <3> QED BY <2>1, <2>2, <3>1, <3>2 DEF RecInv, OpenInv, SupCore
  <2>3. CASE rec.at # "up"
    <3>1. /\ NotRecovered
          /\ UNCHANGED <<jobs, batches, entries, scheduled, faults, rec, refused,
                         child, checks>>
      BY <2>1 DEF NotRecovered, vars, childVars, parentVars, sendVars, queueVars
    <3>2. BatchInv' /\ LogInv'
      BY <2>3, <3>1, RecoveringFacts, FinalsStand, BatchesStand, LogGrows
    <3>3. PhaseInv'
      BY <2>3, <3>1 DEF RecInv, PhaseInv, Untold, Reported, BatchesOf
    <3> QED BY <2>3, <3>1, <3>2, <3>3, RecoveringFacts, RecoverStep DEF RecoveringInv
  <2> QED BY <2>2, <2>3
<1>2. CASE Supervise
  BY <1>2, SuperviseKeeps
<1>3. CASE Restart
  BY <1>3, RestartKeeps
<1>4. CASE Recover
  BY <1>4, DeliverMessageKeeps, DeliverAcknowledgesKeeps, DeliverRefusedKeeps,
     CollectOutcomesKeeps, RecoverJobKeeps, RecordRecoveryBatchKeeps, AttachKeeps
     DEF Recover
<1> QED BY <1>1, <1>2, <1>3, <1>4 DEF RecoveryNext

\* A first process has nothing to recover.
LEMMA RecoveryInitHolds == RecoveryInit => RecInv
<1> SUFFICES ASSUME RecoveryInit PROVE RecInv
  OBVIOUS
<1>1. SupInv /\ restarts = 0 /\ rec = Up /\ refused = FALSE
  BY SupInitHolds DEF RecoveryInit
<1>2. RecoveryTypeOK
  <2>1. Up \in Recoveries
    BY DEF Up, Recoveries
  <2>2. restarts \in 0 .. MaxRestarts
    BY <1>1, RestartsAssumption
  <2>3. SupervisorTypeOK
    BY <1>1 DEF SupInv, SupCore
  <2>4. refused \in BOOLEAN
    BY <1>1
  <2> QED BY <1>1, <2>1, <2>2, <2>3, <2>4 DEF RecoveryTypeOK
<1> QED BY <1>1, <1>2 DEF RecInv, OpenInv, SupInv, SupCore, Up

-----------------------------------------------------------------------------
(* The theorems.                                                           *)

\* Every state that a session reaches, over any number of restarts, satisfies
\* the inductive invariant.
THEOREM RecoveryConsistent == RecoverySpec => []RecInv
<1>1. RecInv /\ [RecoveryNext]_allVars => RecInv'
  BY RecoveryStepKeeps
<1> QED BY <1>1, RecoveryInitHolds, PTL DEF RecoverySpec

\* The session's state keeps its type, while it is open and while it recovers.
THEOREM RecoveryTypeCorrect == RecoverySpec => []RecoveryTypeOK
<1>1. RecInv => RecoveryTypeOK
  BY DEF RecInv
<1> QED BY <1>1, RecoveryConsistent, PTL

\* Across restarts, too, a launch is in one batch that was not given up: what
\* recovery reports is what no batch names.
THEOREM RecoveryReportsOnce == RecoverySpec => []OutcomeReportedOnce
<1>1. RecInv => OutcomeReportedOnce
  <2> SUFFICES ASSUME RecInv, NEW l \in Launches PROVE Cardinality(Reports(l)) <= 1
    BY DEF OutcomeReportedOnce
  <2>1. \A a, b \in Reports(l) : a = b
    BY DEF RecInv, BatchInv
  <2> QED BY <2>1, AtMostOne
<1> QED BY <1>1, RecoveryConsistent, PTL

\* What a batch reports survives every restart: no torn stop suppresses it, and
\* recovery promotes outcomes to what a batch may already say of them.
THEOREM RecoveredReportsAreFinal == RecoverySpec => []ReportIsFinal
<1>1. RecInv => ReportIsFinal
  <2> SUFFICES ASSUME RecInv, NEW l \in Launches, NEW b \in Reports(l)
               PROVE  /\ jobs[l].ack \/ jobs[l].recovered
                      /\ ~jobs[l].supp
                      /\ batches[b].out[l] = jobs[l].term
    BY DEF ReportIsFinal
  <2>1. b \in BatchIds /\ batches[b].out[l] # "none"
    BY DEF Reports, BatchesOf
  <2> QED BY <2>1 DEF RecInv, BatchInv, Final
<1> QED BY <1>1, RecoveryConsistent, PTL

\* The log and the journal agree at every crash, whatever was torn.
THEOREM LogMatchesJournal == RecoverySpec => []LogAndJournalAgree
<1>1. RecInv => LogAndJournalAgree
  <2> SUFFICES ASSUME RecInv PROVE LogAndJournalAgree
    OBVIOUS
  <2>1. entries \subseteq BatchIds
    BY DEF RecInv, RecoveryTypeOK, SupervisorTypeOK
  <2>2. \A b \in BatchIds, l \in Launches :
          batches[b].out[l] # "none" => batches[b].out[l] = jobs[l].term
    BY DEF RecInv, BatchInv
  <2>3. \A b \in BatchIds : batches[b].st = "acked" => b \in entries
    BY DEF RecInv, LogInv
  <2> QED BY <2>1, <2>2, <2>3 DEF LogAndJournalAgree
<1> QED BY <1>1, RecoveryConsistent, PTL

\* The model is told of an outcome once, over all the processes that served the
\* session: a message that an earlier process wrote and did not acknowledge is
\* found by recovery and not written again.
THEOREM ToldOnceOverRestarts == RecoverySpec => []ToldOnceAcrossRestarts
<1>1. RecInv => ToldOnceAcrossRestarts
  <2> SUFFICES ASSUME RecInv, ~refused PROVE ToldOnce
    BY DEF ToldOnceAcrossRestarts
  <2>1. CASE rec.at = "up"
    <3>1. SupInv
      BY <2>1 DEF RecInv, OpenInv, SupInv
    <3> QED BY <3>1, SupInvTellsOnce
  <2>2. CASE rec.at # "up"
    <3>1. /\ entries \subseteq BatchIds /\ BatchInv /\ RecoveringInv
          /\ run = "idle" /\ queue = {}
      BY <2>2, RecoveringFacts DEF RecoveringInv, Quiet
    <3>2. ASSUME NEW l \in Launches
          PROVE  Cardinality({b \in entries : batches[b].out[l] # "none"}) <= 1
      <4>1. {b \in entries : batches[b].out[l] # "none"} \subseteq Reports(l)
        BY <3>1 DEF RecoveringInv, PendingBatches, Reports, BatchesOf
      <4>2. \A a, b \in {x \in entries : batches[x].out[l] # "none"} : a = b
        BY <3>1, <4>1 DEF BatchInv
      <4> QED BY <4>2, AtMostOne
    <3> QED BY <3>1, <3>2 DEF ToldOnce
  <2> QED BY <2>1, <2>2
<1> QED BY <1>1, RecoveryConsistent, PTL

\* No agent id stays refused after a restart: a job that runs in an open session
\* has a child, or its launch is still to begin.
THEOREM NoJobRunsAlone == RecoverySpec => []RunningJobHasChild
<1>1. RecInv => RunningJobHasChild
  <2> SUFFICES ASSUME RecInv, NEW l \in Launches, rec.at = "up", Running(jobs[l])
               PROVE  child[l].owned \/ (child[l].pc = "none" /\ jobs[l].st = "reserved")
    BY DEF RunningJobHasChild
  <2>1. Lawful(child[l], jobs[l]) /\ Reportable(child[l], jobs[l])
        /\ child[l].owned \in BOOLEAN
    BY DEF RecInv, OpenInv, SupCore, IInv, TypeOK, ReportInv, Children
  <2>2. Consistent(child[l], jobs[l]) /\ ReportConsistent(child[l], jobs[l])
    BY <2>1 DEF Lawful, Past, Reportable, Consistent, LaunchConsistent, PastChild, NoChild
  <2>3. jobs[l].st # "absent"
    BY DEF Running, RunningStatuses
  <2> QED BY <2>1, <2>2, <2>3 DEF Consistent, ReleaseConsistent, ReportConsistent
<1> QED BY <1>1, RecoveryConsistent, PTL

\* Recovery leaves no outcome untold: whatever the last process had begun, a
\* session opens with every outcome in the log or in a batch still to be sent.
THEOREM RecoveryTellsAll == RecoverySpec => RecoveryReports
<1>1. ASSUME RecInv, [RecoveryNext]_allVars, rec.at # "up", rec'.at = "up",
             NEW l \in Launches, jobs'[l].st \in TerminalStatuses, ~jobs'[l].supp
      PROVE  BatchesOf(l, batches', {"pending", "acked"}) # {}
  <2>1. Attach
    BY <1>1 DEF RecoveryNext, Supervise, Restart, Recover, DeliverMessage,
       DeliverAcknowledges, DeliverRefused, CollectOutcomes, RecoverJob,
       PromoteOutcome, LeaveEnded, FailUnmaterialized, FailInterrupted, Examined,
       RecordRecoveryBatch, Recovering, allVars, Up, RecInv, RecoveryTypeOK, Recoveries
  <2>2. UNCHANGED <<jobs, batches>> /\ ~Untold(l)
    BY <1>1, <2>1 DEF Attach, Recovering, RecInv, PhaseInv
  <2> QED BY <1>1, <2>2 DEF Untold, Reported
<1>2. RecInv /\ [RecoveryNext]_allVars =>
        [rec.at # "up" /\ rec'.at = "up" =>
           \A l \in Launches :
             jobs'[l].st \in TerminalStatuses /\ ~jobs'[l].supp =>
               BatchesOf(l, batches', {"pending", "acked"}) # {}]_allVars
  BY <1>1
<1> QED BY <1>2, RecoveryConsistent, PTL DEF RecoverySpec, RecoveryReports

=============================================================================
