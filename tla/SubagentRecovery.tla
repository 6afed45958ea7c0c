--------------------------- MODULE SubagentRecovery ---------------------------
(***************************************************************************)
(* An owner session across restarts: a SubagentSupervisor that may stop    *)
(* anywhere, and what the next process makes of the journal it left        *)
(* (src/subagent/recovery.ts) before it constructs a new supervisor.       *)
(*                                                                         *)
(* A restart keeps the two files: the journal (jobs, batches) and the      *)
(* owner's log (entries).  Everything else starts again.  A process that   *)
(* is killed may have written only some of the records that one step of    *)
(* the supervisor appends; such journals are the torn ones below.          *)
(* Recovery may itself be cut off, and is then run again.                  *)
(***************************************************************************)
EXTENDS SubagentSupervisor

CONSTANT MaxRestarts  \* bound: how often the session is opened again

ASSUME RestartsAssumption == MaxRestarts \in Nat

VARIABLES
  restarts,
  rec,      \* where recovery is: see Recoveries
  refused   \* whether recovery ever found the owner's session unreadable

allVars == <<vars, restarts, rec, refused>>

\* at: the loop over the pending batches, the one over the jobs, the delivery
\* of the batch they lead to, or "up", when the session is open; todo: batches
\* to deliver; told: the oldest of them is in the owner's log; left: jobs to
\* look at; held: pendingLaunchIds; out: the jobs of outcomesByOwner.
Recoveries ==
  [at : {"up", "pending", "jobs", "report"}, todo : SUBSET BatchIds, told : BOOLEAN,
   left : SUBSET Launches, held : SUBSET Launches, out : SUBSET Launches]

Up == [at |-> "up", todo |-> {}, told |-> FALSE, left |-> {}, held |-> {}, out |-> {}]

RecoveryTypeOK ==
  /\ SupervisorTypeOK
  /\ restarts \in 0 .. MaxRestarts
  /\ rec \in Recoveries
  /\ refused \in BOOLEAN

RecoveryInit == SupervisorInit /\ restarts = 0 /\ rec = Up /\ refused = FALSE

-----------------------------------------------------------------------------
(* The end of a process.                                                   *)

\* A job after the first of the records that one step appends about it.
TornJob(l) ==
  {jobs[l]}
    \cup (IF child[l].pc = "materializing" /\ ~jobs[l].supp
            THEN {Materialized(jobs[l])} ELSE {})
    \cup (IF child[l].pc = "working" /\ ~disposed
            THEN {LaunchAcknowledged(jobs[l])} ELSE {})

\* stopAll suppresses one launch after the other and then forces one child
\* after the other.
TornStop ==
  LET suppressed(S) == [l \in Launches |-> IF l \in S THEN SuppressUnacknowledged(jobs[l])
                                                      ELSE jobs[l]]
      all == suppressed(Owned)
      forced(S) == [l \in Launches |-> IF l \in S THEN ForceJobError(child[l], all[l])
                                                  ELSE all[l]]
  IN  IF /\ rec.at = "up" /\ stopPhase = "idle" /\ ~disposed
         /\ run = "idle" /\ send.by # "admission"
        THEN {suppressed(S) : S \in SUBSET Owned} \cup {forced(S) : S \in SUBSET Owned}
        ELSE {}

TornJobs == UNION {{[jobs EXCEPT ![l] = j] : j \in TornJob(l)} : l \in Launches}

\* A stop supersedes one batch after the other.
TornBatches ==
  IF rec.at = "up" /\ stopPhase = "notify" /\ send.by = "none" /\ sends = {}
    THEN {NotificationSuperseded(batches, B) :
            B \in SUBSET (PendingBatches(batches) \ {stoppingBatch})}
    ELSE {batches}

\* The process ends, or the session is closed; it is opened again.  A dispatch
\* of the old process is over, whatever became of it.
Restart ==
  /\ restarts < MaxRestarts
  /\ restarts' = restarts + 1
  /\ jobs' \in TornJobs \cup TornStop
  /\ batches' \in TornBatches
  /\ rec' = [Up EXCEPT !.at = "pending", !.todo = PendingBatches(batches')]
  /\ child' = [l \in Launches |-> IF Known(jobs[l]) THEN [NoChild EXCEPT !.pc = "ended"]
                                                    ELSE NoChild]
  /\ ownerStopping' = FALSE /\ stopping' = FALSE /\ closing' = FALSE
  /\ stopPhase' = "idle" /\ disposed' = FALSE /\ scheduled' = FALSE
  /\ run' = "idle" /\ queue' = {} /\ wake' = NoBatch
  /\ sends' = {} /\ send' = NoSend /\ admitted' = FALSE /\ again' = {}
  /\ q' = EmptyQueue /\ checks' = {} /\ stoppingBatch' = NoBatch
  /\ UNCHANGED <<entries, faults, sendFaults, refused>>

-----------------------------------------------------------------------------
(* recoverSubagentTree, between the appends that a restart may separate.   *)

Recovering(at) == rec.at = at

\* What recovery leaves alone: all but the journal, the log and itself.
NotRecovered ==
  UNCHANGED <<child, ownerStopping, stopping, closing, stopPhase, disposed,
              run, queue, wake, sendVars, queueVars, sendFaults, restarts>>

\* Mutant: the batch is acknowledged before its message is written.
MutantDeliverMessage ==
  /\ rec.todo # {} /\ ~rec.told
  /\ batches' = NotificationAck(batches, Oldest(rec.todo))
  /\ rec' = [rec EXCEPT !.told = TRUE]
  /\ UNCHANGED <<jobs, entries, scheduled, faults, refused>> /\ NotRecovered

\* deliver: the message goes into the owner's log, unless it is there already.
DeliverMessage ==
  /\ rec.todo # {} /\ ~rec.told
  /\ entries' = entries \cup {Oldest(rec.todo)}
  /\ rec' = [rec EXCEPT !.told = TRUE]
  /\ UNCHANGED <<jobs, batches, scheduled, faults, refused>> /\ NotRecovered

\* Then the batch is acknowledged.
DeliverAcknowledges ==
  LET b == Oldest(rec.todo) IN
  /\ rec.told
  /\ batches' = NotificationAck(batches, b)
  /\ rec' = [rec EXCEPT !.todo = @ \ {b}, !.told = FALSE]
  /\ UNCHANGED <<jobs, entries, scheduled, faults, refused>> /\ NotRecovered

\* The owner's session cannot be read: its batch stays pending.
DeliverRefused ==
  /\ rec.todo # {} /\ ~rec.told
  /\ CanFail
  /\ rec' = [rec EXCEPT !.todo = @ \ {Oldest(rec.todo)}]
  /\ refused' = TRUE
  /\ UNCHANGED <<jobs, batches, entries, scheduled>> /\ NotRecovered

\* Mutant: only pending batches are looked at, not the acknowledged ones.
MutantCollectOutcomes ==
  LET held == {l \in Launches : BatchesOf(l, batches, {"pending"}) # {}} IN
  /\ Recovering("pending") /\ rec.todo = {}
  /\ rec' = [rec EXCEPT
       !.at = "jobs",
       !.held = held,
       !.left = {l \in Launches : Known(jobs[l]) /\ ~jobs[l].supp},
       !.out = {l \in Launches \ held :
                  jobs[l].st \in TerminalStatuses /\ ~jobs[l].supp /\ jobs[l].path}]
  /\ UNCHANGED <<jobs, batches, entries, scheduled, faults, refused>> /\ NotRecovered

\* The outcomes nobody was told of, and the jobs to look at.
CollectOutcomes ==
  LET held == {l \in Launches : BatchesOf(l, batches, {"pending"}) # {}} IN
  /\ Recovering("pending") /\ rec.todo = {}
  /\ rec' = [rec EXCEPT
       !.at = "jobs",
       !.held = held,
       !.left = {l \in Launches : Known(jobs[l]) /\ ~jobs[l].supp},
       !.out = {l \in Launches \ (held \cup AcknowledgedLaunches(batches)) :
                  jobs[l].st \in TerminalStatuses /\ ~jobs[l].supp /\ jobs[l].path}]
  /\ UNCHANGED <<jobs, batches, entries, scheduled, faults, refused>> /\ NotRecovered

\* Job l has been looked at; a message names outcomes with a session path only.
Examined(l, out) ==
  rec' = [rec EXCEPT !.left = @ \ {l}, !.out = @ \cup {x \in out : jobs[x].path}]

\* Mutant: promotes the job's status instead of its outcome.
MutantPromoteOutcome(l) ==
  /\ jobs[l].term \notin {"none", jobs[l].st}
  /\ JobBecomes(l, Terminal(jobs[l], jobs[l].st, TRUE))
  /\ Examined(l, {l} \ (rec.held \cup AcknowledgedLaunches(batches)))
  /\ UNCHANGED faults

\* An outcome that waited for the acknowledgement of its launch is promoted.
PromoteOutcome(l) ==
  /\ jobs[l].term \notin {"none", jobs[l].st}
  /\ JobBecomes(l, Terminal(jobs[l], jobs[l].term, TRUE))
  /\ Examined(l, {l} \ (rec.held \cup AcknowledgedLaunches(batches)))
  /\ UNCHANGED faults

LeaveEnded(l) ==
  /\ jobs[l].st \notin RunningStatuses
  /\ jobs[l].term \in {"none", jobs[l].st}
  /\ Examined(l, {})
  /\ UNCHANGED <<jobs, faults>>

Interrupted(l) == jobs[l].term = "none" /\ jobs[l].st \in RunningStatuses

\* Mutant: only reports the launch and leaves its job as it is.
MutantFailUnmaterialized(l) ==
  /\ Interrupted(l)
  /\ IF jobs[l].st = "working" THEN CanFail ELSE UNCHANGED faults
  /\ UNCHANGED jobs
  /\ Examined(l, {})

\* A launch without a readable session of its own cannot have done anything.
\* Before materialization the file need not be there; later that is a fault.
FailUnmaterialized(l) ==
  /\ Interrupted(l)
  /\ IF jobs[l].st = "working" THEN CanFail ELSE UNCHANGED faults
  /\ JobBecomes(l, PreMaterializationFailed(jobs[l]))
  /\ Examined(l, {})

\* Mutant: an interrupted child is recorded and not reported.
MutantFailInterrupted(l) ==
  /\ Interrupted(l) /\ jobs[l].path
  /\ JobBecomes(l, Terminal(jobs[l], "error", TRUE))
  /\ Examined(l, {})
  /\ UNCHANGED faults

FailInterrupted(l) ==
  /\ Interrupted(l) /\ jobs[l].path
  /\ JobBecomes(l, Terminal(jobs[l], "error", TRUE))
  /\ Examined(l, {l})
  /\ UNCHANGED faults

RecoverJob(l) ==
  /\ Recovering("jobs") /\ l \in rec.left
  /\ PromoteOutcome(l) \/ LeaveEnded(l) \/ FailUnmaterialized(l) \/ FailInterrupted(l)
  /\ UNCHANGED <<batches, entries, scheduled, refused>> /\ NotRecovered

\* The outcomes become one batch, which triggers no turn.
RecordRecoveryBatch ==
  LET fresh == Cardinality({b \in BatchIds : batches[b].st # "none"}) + 1 IN
  /\ Recovering("jobs") /\ rec.left = {} /\ rec.out # {}
  /\ fresh \in BatchIds
  /\ batches' = NotificationBatch(batches, fresh,
                  [l \in Launches |-> IF l \in rec.out THEN jobs[l].term ELSE "none"],
                  FALSE)
  /\ rec' = [rec EXCEPT !.at = "report", !.todo = {fresh}]
  /\ UNCHANGED <<jobs, entries, scheduled, faults, refused>> /\ NotRecovered

\* The session is created and the new supervisor attached to it.
Attach ==
  /\ \/ Recovering("jobs") /\ rec.left = {} /\ rec.out = {}
     \/ Recovering("report") /\ rec.todo = {}
  /\ rec' = Up
  /\ scheduled' = HasPendingNotifications
  /\ UNCHANGED <<jobs, batches, entries, faults, refused>> /\ NotRecovered

-----------------------------------------------------------------------------

Recover ==
  \/ DeliverMessage \/ DeliverAcknowledges \/ DeliverRefused \/ CollectOutcomes
  \/ \E l \in Launches : RecoverJob(l)
  \/ RecordRecoveryBatch \/ Attach

Supervise == rec.at = "up" /\ SupervisorNext /\ UNCHANGED <<restarts, rec, refused>>

RecoveryNext == Supervise \/ Restart \/ Recover

RecoverySpec == RecoveryInit /\ [][RecoveryNext]_allVars

-----------------------------------------------------------------------------
(* Properties.                                                             *)

\* The owner's log holds at most one message about a launch, whatever restart,
\* retry or supersession there was between the message and its acknowledgement,
\* as long as recovery can read that log.
ToldOnceAcrossRestarts == ~refused => ToldOnce

\* The owner's log and the journal agree at every crash: what the log says of a
\* launch is what the journal says of it, and neither a stop nor a recovery finds
\* another outcome afterwards; and a batch is acknowledged only where its message
\* is in the log.
LogAndJournalAgree ==
  /\ \A b \in entries : \A l \in Launches : batches[b].out[l] \in {"none", jobs[l].term}
  /\ \A b \in BatchIds : batches[b].st = "acked" => b \in entries

\* In an open session a job that the journal counts as running has a child, or
\* is about to be launched: after a restart no agent id stays refused.
RunningJobHasChild ==
  \A l \in Launches :
    rec.at = "up" /\ Running(jobs[l]) =>
      child[l].owned \/ (child[l].pc = "none" /\ jobs[l].st = "reserved")

\* Recovery leaves no outcome untold: what has come of every launch that was
\* not suppressed is in the log or in a batch that is still to be sent.
RecoveryReports ==
  [][rec.at # "up" /\ rec'.at = "up" =>
       \A l \in Launches :
         jobs'[l].st \in TerminalStatuses /\ ~jobs'[l].supp =>
           BatchesOf(l, batches', {"pending", "acked"}) # {}]_allVars

\* An open owner with nothing left to do is quiescent: no child, no batch, no
\* send, no callback, and every outcome acknowledged in its log.
IdleOwnerIsQuiescent ==
  /\ rec.at = "up" /\ ~Shut /\ run = "idle"
  /\ Owned = {} /\ PendingBatches(batches) = {}
  /\ \A l \in Launches :
       jobs[l].term # "none" /\ ~jobs[l].supp => l \in AcknowledgedLaunches(batches)
  /\ send.by = "none" /\ sends = {} /\ ~scheduled
  => Quiescent

=============================================================================
