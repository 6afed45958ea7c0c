-------------------------- MODULE SubagentSupervisor --------------------------
(***************************************************************************)
(* The whole SubagentSupervisor (src/subagent/supervisor.ts): the children *)
(* of SubagentChildren and the queue that reports their outcomes to the    *)
(* parent session in notification batches.                                 *)
(*                                                                         *)
(* sendPromise is a lock, held by one flush of the queue or by the         *)
(* admission of one prompt.  A flush freezes the outcomes that are ready   *)
(* in a batch, hands the oldest batch to the parent and lets go; the       *)
(* parent persists the message at a moment of its own, and only an entry   *)
(* found in the parent's log acknowledges the batch.                       *)
(*                                                                         *)
(* The parent is Pi's AgentSession (external), reduced to what the code    *)
(* relies on: sendCustomMessage queues a steer while a run is streaming,   *)
(* starts a run when it is idle and triggerTurn is set, and otherwise      *)
(* appends; agent_start and turn_end hooks are awaited; queued steers are  *)
(* consumed at the boundary that follows turn_end; clearQueue drops them.  *)
(* The owner is the root session, whose cancellation aborts its run and    *)
(* settles its prompts before it calls cancelAll or abortAll.              *)
(***************************************************************************)
EXTENDS SubagentChildren

CONSTANT MaxSendFaults  \* bound: how many sends and preflights fail

ASSUME SendFaultsAssumption == MaxSendFaults \in Nat

VARIABLES
  run,           \* the parent's run: a hook, a turn, or none
  queue,         \* batches queued in the parent as steers
  wake,          \* the batch whose send owns the current run
  entries,       \* batches whose message is in the parent's log
  sends,         \* notificationSends: sends that have not settled
  send,          \* sendPromise and where the flush that owns it is
  admitted,      \* admittingBatch.acknowledge() was called
  again,         \* what waits for the active send: "schedule", "retry"
  q,             \* the supervisor's notes on the pending batches, see Queues
  checks,        \* pendingAcknowledgementChecks
  stoppingBatch, \* stoppingBatchId
  sendFaults

parentVars == <<run, queue, wake, entries>>

sendVars == <<sends, send, admitted, again>>

queueVars == <<q, checks, stoppingBatch>>

vars == <<childVars, parentVars, sendVars, queueVars, sendFaults>>

BatchOrNone == BatchIds \cup {NoBatch}

Runs == {"idle", "starting", "running", "boundary", "polling"}

Senders == [by : {"none", "admission", "flush"},
            at : {"start", "ready", "admit"},
            batch : BatchOrNone, trig : BOOLEAN, closing : BOOLEAN,
            retry : BatchOrNone]

NoSend == [by |-> "none", at |-> "start", batch |-> NoBatch, trig |-> FALSE,
           closing |-> FALSE, retry |-> NoBatch]

\* awaitingAcknowledgementBatchIds, blockedTriggeredBatchId,
\* scheduledTriggeredRetryBatchId, automaticallyRetriedTriggeredBatchIds
Queues == [awaiting : SUBSET BatchIds, blocked : BatchOrNone,
           retry : BatchOrNone, auto : SUBSET BatchIds]

EmptyQueue == [awaiting |-> {}, blocked |-> NoBatch, retry |-> NoBatch,
               auto |-> {}]

SupervisorTypeOK ==
  /\ TypeOK
  /\ run \in Runs
  /\ queue \subseteq BatchIds
  /\ wake \in BatchOrNone
  /\ entries \subseteq BatchIds
  /\ sends \subseteq BatchIds
  /\ send \in Senders
  /\ admitted \in BOOLEAN
  /\ again \subseteq {"schedule", "retry"}
  /\ q \in Queues
  /\ checks \subseteq BatchIds
  /\ stoppingBatch \in BatchOrNone
  /\ sendFaults \in 0 .. MaxSendFaults

SupervisorInit ==
  /\ Init
  /\ run = "idle"
  /\ queue = {}
  /\ wake = NoBatch
  /\ entries = {}
  /\ sends = {}
  /\ send = NoSend
  /\ admitted = FALSE
  /\ again = {}
  /\ q = EmptyQueue
  /\ checks = {}
  /\ stoppingBatch = NoBatch
  /\ sendFaults = 0

CanFailSend == sendFaults < MaxSendFaults /\ sendFaults' = sendFaults + 1

SameChildren == UNCHANGED <<jobs, child, ownerStopping, stopping, closing,
                            disposed, faults>>

-----------------------------------------------------------------------------
(* Synchronous helpers of the notification queue.                          *)

Shut == IsStopping \/ disposed

Streaming == run # "idle"

Oldest(B) == IF B = {} THEN NoBatch ELSE CHOOSE b \in B : \A x \in B : b <= x

\* hasSchedulableNotificationWork
Schedulable(js, bs, qs) ==
  LET first == Oldest(PendingBatches(bs) \ qs.awaiting) IN
  /\ ~Shut
  /\ \/ Deliverable(js, bs) # {}
     \/ first # NoBatch /\ first # qs.blocked

\* reconcileNotificationQueueState
Reconcile(qs, pending) ==
  LET stale == qs.blocked \notin pending IN
  [awaiting |-> qs.awaiting \cap pending,
   blocked  |-> IF stale THEN NoBatch ELSE qs.blocked,
   retry    |-> IF stale /\ qs.retry = qs.blocked THEN NoBatch ELSE qs.retry,
   auto     |-> qs.auto \cap pending]

\* clearNotificationBatchState
Clear(qs, b) ==
  [awaiting |-> qs.awaiting \ {b},
   blocked  |-> IF qs.blocked = b THEN NoBatch ELSE qs.blocked,
   retry    |-> IF qs.retry = b THEN NoBatch ELSE qs.retry,
   auto     |-> qs.auto \ {b}]

\* blockTriggeredBatch: the first failure of a batch also schedules its one
\* automatic retry.
Block(qs, b, bs) ==
  IF Shut \/ b \notin PendingBatches(bs) THEN qs
  ELSE [qs EXCEPT !.blocked = b,
                  !.retry = IF b \in qs.auto THEN @ ELSE b,
                  !.auto = @ \cup {b}]

\* runtimeBecameCoherent: a blocked batch is scheduled for another attempt.
Coherent(qs, bs) ==
  IF Shut \/ qs.blocked \notin PendingBatches(bs) THEN qs
  ELSE [qs EXCEPT !.retry = qs.blocked]

HasPendingNotifications ==
  \/ PendingBatches(batches) # {}
  \/ \E l \in Launches :
       /\ jobs[l].term # "none"
       /\ ~jobs[l].supp
       /\ IF jobs[l].ack THEN l \notin AcknowledgedLaunches(batches)
                         ELSE ~IsStopping

Quiescent ==
  /\ ~HasRunningChildren
  /\ send.by = "none"
  /\ sends = {}
  /\ ~HasPendingNotifications

StartFlush(trig, closeBatch, retryBatch) ==
  send' = [NoSend EXCEPT !.by = "flush", !.trig = trig,
                         !.closing = closeBatch, !.retry = retryBatch]

\* Mutant: a callback that found the queue busy is forgotten.
MutantRelease(ok, qs) ==
  /\ send' = NoSend
  /\ admitted' = FALSE
  /\ again' = {}
  /\ q' = qs
  /\ UNCHANGED scheduled
  /\ stopPhase' = IF stopPhase = "sending"
                    THEN IF ok THEN "sent" ELSE "failed"
                    ELSE stopPhase

\* sendPromise settles, with qs the queue's notes at that moment: the waiting
\* callbacks run, and after a success the queue is looked at again.
Release(ok, qs) ==
  /\ send' = NoSend
  /\ admitted' = FALSE
  /\ again' = {}
  /\ q' = IF "retry" \in again THEN Coherent(qs, batches') ELSE qs
  /\ scheduled' = (\/ scheduled
                   \/ /\ ok \/ "schedule" \in again
                      /\ Schedulable(jobs, batches', qs))
  /\ stopPhase' = IF stopPhase = "sending"
                    THEN IF ok THEN "sent" ELSE "failed"
                    ELSE stopPhase

\* acknowledgePersistedNotification, when the entry is there
Acknowledge(b) ==
  /\ batches' = NotificationAck(batches, b)
  /\ q' = Clear(q, b)
  /\ admitted' = (admitted \/ (send.at = "admit" /\ send.batch = b))
  /\ scheduled' = (scheduled \/ Schedulable(jobs, batches', q'))

IgnoreMessage == UNCHANGED <<batches, q, admitted, scheduled>>

\* The parent persists the message of batch b.  The supervisor hears of it
\* either with the entry in the log, or just before and looks again in a
\* microtask.
Persist(b) ==
  /\ entries' = entries \cup {b}
  /\ IF disposed \/ b \notin PendingBatches(batches)
       THEN IgnoreMessage /\ UNCHANGED checks
       ELSE \/ Acknowledge(b) /\ UNCHANGED checks
            \/ IgnoreMessage /\ checks' = checks \cup {b}

-----------------------------------------------------------------------------
(* The flush: sendNextBatch between its awaits.                            *)

\* What a flush finds at its start: the outcomes that are ready are frozen in
\* a new batch, and one pending batch is chosen.
Frozen ==
  LET outcomes == Deliverable(jobs, batches)
      fresh == Cardinality({b \in BatchIds : batches[b].st # "none"}) + 1
      fits == outcomes = {} \/ fresh \in BatchIds
      bs == IF outcomes = {} \/ ~fits THEN batches
            ELSE NotificationBatch(batches, fresh,
                   [l \in Launches |-> IF l \in outcomes THEN jobs[l].term
                                                         ELSE "none"],
                   send.trig)
      pending == PendingBatches(bs)
  IN  [fits |-> fits,
       batches |-> bs,
       q |-> Reconcile(q, pending),
       batch |-> IF ~send.closing THEN Oldest(pending \ q.awaiting)
                 ELSE IF stoppingBatch \in pending THEN stoppingBatch
                 ELSE IF outcomes = {} THEN NoBatch ELSE fresh]

NothingToSend(f) ==
  \/ f.batch = NoBatch
  \/ f.batch \in f.q.awaiting
  \/ f.batch = f.q.blocked /\ send.retry # f.batch
  \/ send.retry # NoBatch /\ send.retry # f.batch

Flushing(at) == send.by = "flush" /\ send.at = at

ChooseStoppingBatch(f) ==
  stoppingBatch' = IF send.closing /\ f.batch # NoBatch THEN f.batch
                                                       ELSE stoppingBatch

\* parent.sendCustomMessage for batch b, with qs and bs the state before it
HandOver(b, qs, bs) ==
  /\ q' = [qs EXCEPT !.awaiting = @ \cup {b}]
  /\ sends' = sends \cup {b}
  /\ send' = [send EXCEPT !.at = "admit", !.batch = b]
  /\ IF ~Streaming /\ bs[b].trig
       THEN /\ run' = "starting"
            /\ wake' = b
            /\ admitted' \in BOOLEAN
            /\ UNCHANGED queue
       ELSE /\ queue' = queue \cup {b}
            /\ admitted' = Streaming
            /\ UNCHANGED <<run, wake>>
  /\ UNCHANGED <<entries, checks, scheduled, stopPhase, again>>

FlushEmpty ==
  Flushing("start") /\ \E f \in {Frozen} :
  /\ f.fits
  /\ NothingToSend(f)
  /\ batches' = f.batches
  /\ ChooseStoppingBatch(f)
  /\ Release(TRUE, f.q)
  /\ SameChildren
  /\ UNCHANGED <<parentVars, sends, checks, sendFaults>>

\* An idle wake first makes sure that the runtime is ready for a run.
FlushPreflight ==
  Flushing("start") /\ \E f \in {Frozen} :
  /\ f.fits
  /\ ~NothingToSend(f)
  /\ f.batches[f.batch].trig /\ ~Streaming
  /\ batches' = f.batches
  /\ ChooseStoppingBatch(f)
  /\ q' = f.q
  /\ send' = [send EXCEPT !.at = "ready", !.batch = f.batch]
  /\ SameChildren
  /\ UNCHANGED <<parentVars, sends, admitted, again, checks, stopPhase,
                 scheduled, sendFaults>>

Unblocked(qs, b) ==
  [qs EXCEPT !.blocked = IF @ = b THEN NoBatch ELSE @]

FlushHandsOver ==
  Flushing("start") /\ \E f \in {Frozen} :
  /\ f.fits
  /\ ~NothingToSend(f)
  /\ f.batches[f.batch].trig => Streaming /\ ~Shut
  /\ batches' = f.batches
  /\ ChooseStoppingBatch(f)
  /\ HandOver(f.batch,
              IF f.batches[f.batch].trig THEN Unblocked(f.q, f.batch) ELSE f.q,
              f.batches)
  /\ SameChildren
  /\ UNCHANGED sendFaults

\* A streaming owner started to stop before the flush began.
FlushShut ==
  Flushing("start") /\ \E f \in {Frozen} :
  /\ f.fits
  /\ ~NothingToSend(f)
  /\ f.batches[f.batch].trig /\ Streaming /\ Shut
  /\ batches' = f.batches
  /\ ChooseStoppingBatch(f)
  /\ Release(TRUE, Unblocked(f.q, f.batch))
  /\ SameChildren
  /\ UNCHANGED <<parentVars, sends, checks, sendFaults>>

\* ensureTriggeredTurnReady has resolved: look again before sending.
PreflightSucceeds ==
  LET b == send.batch IN
  /\ Flushing("ready")
  /\ UNCHANGED batches
  /\ IF Shut \/ b \notin PendingBatches(batches)
       THEN /\ Release(TRUE, Unblocked(q, b))
            /\ UNCHANGED <<parentVars, sends, checks>>
       ELSE HandOver(b, Unblocked(q, b), batches)
  /\ SameChildren
  /\ UNCHANGED <<stoppingBatch, sendFaults>>

PreflightFails ==
  /\ Flushing("ready")
  /\ CanFailSend
  /\ UNCHANGED batches
  /\ Release(FALSE, Block(q, send.batch, batches))
  /\ SameChildren
  /\ UNCHANGED <<parentVars, sends, checks, stoppingBatch>>

\* Promise.race of the send and its admission
FlushAdmitted ==
  /\ Flushing("admit")
  /\ admitted \/ send.batch \notin sends
  /\ UNCHANGED batches
  /\ Release(TRUE, q)
  /\ SameChildren
  /\ UNCHANGED <<parentVars, sends, checks, stoppingBatch, sendFaults>>

\* sendCustomMessage resolves: a queued steer at once, an append when it is in
\* the log, a wake when its run is over; after the microtasks of that moment.
SendResolves(b) ==
  /\ b \in sends \ checks
  /\ wake # b
  /\ batches[b].trig \/ b \notin queue
  /\ sends' = sends \ {b}
  /\ q' = IF b \in PendingBatches(batches) THEN q ELSE Coherent(q, batches)
  /\ SameChildren
  /\ UNCHANGED <<batches, scheduled, stopPhase, parentVars, send, admitted,
                 again, checks, stoppingBatch, sendFaults>>

\* Mutant: a rejected batch still counts as handed over.
MutantRejectUnpersisted(b) ==
  LET qs == IF b \notin PendingBatches(batches) THEN Coherent(q, batches)
            ELSE IF batches[b].trig THEN Block(q, b, batches)
            ELSE q
  IN
  /\ UNCHANGED batches
  /\ IF Flushing("admit") /\ send.batch = b /\ ~admitted
       THEN Release(FALSE, qs)
       ELSE /\ q' = qs
            /\ UNCHANGED <<send, admitted, again, scheduled, stopPhase>>

\* A rejected send of b: its batch is sent again later, and a flush that still
\* waits for the send fails.
RejectUnpersisted(b) ==
  LET forgot == [q EXCEPT !.awaiting = @ \ {b}]
      qs == IF b \notin PendingBatches(batches) THEN Coherent(q, batches)
            ELSE IF batches[b].trig THEN Block(forgot, b, batches)
            ELSE forgot
  IN
  /\ UNCHANGED batches
  /\ IF Flushing("admit") /\ send.batch = b /\ ~admitted
       THEN Release(FALSE, qs)
       ELSE /\ q' = qs
            /\ UNCHANGED <<send, admitted, again, scheduled, stopPhase>>

\* sendCustomMessage rejects; a run it had started is over, and the steers
\* queued in that run stay for the next one.
SendRejects(b) ==
  /\ b \in sends
  /\ b \in queue \cup {wake}
  /\ wake = b => checks = {}
  /\ CanFailSend
  /\ sends' = sends \ {b}
  /\ queue' = queue \ {b}
  /\ IF wake = b THEN run' = "idle" /\ wake' = NoBatch
                 ELSE UNCHANGED <<run, wake>>
  /\ IF b \in PendingBatches(batches) \cap entries
       THEN Acknowledge(b) /\ UNCHANGED <<send, again, stopPhase>>
       ELSE RejectUnpersisted(b)
  /\ SameChildren
  /\ UNCHANGED <<entries, checks, stoppingBatch>>

-----------------------------------------------------------------------------
(* The callbacks the supervisor schedules.                                 *)

\* The callback of scheduleNotification
NotificationTask ==
  /\ scheduled
  /\ scheduled' = FALSE
  /\ again' = IF ~Shut /\ send.by # "none" THEN again \cup {"schedule"} ELSE again
  /\ IF send.by = "none" /\ Schedulable(jobs, batches, q)
       THEN StartFlush(TRUE, FALSE, NoBatch)
       ELSE UNCHANGED send
  /\ SameChildren
  /\ UNCHANGED <<batches, stopPhase, parentVars, sends, admitted, queueVars,
                 sendFaults>>

\* Mutant: a retry that finds the queue busy is not asked for again.
MutantRetryTask ==
  LET b == q.retry
      wanted == q.blocked = b /\ ~Shut /\ b \in PendingBatches(batches)
  IN
  /\ b # NoBatch
  /\ q' = [q EXCEPT !.retry = NoBatch]
  /\ IF wanted /\ send.by = "none"
       THEN StartFlush(TRUE, FALSE, b)
       ELSE UNCHANGED send
  /\ SameChildren
  /\ UNCHANGED <<batches, stopPhase, scheduled, parentVars, sends, admitted,
                 again, checks, stoppingBatch, sendFaults>>

\* The callback of scheduleTriggeredRetry
RetryTask ==
  LET b == q.retry
      wanted == q.blocked = b /\ ~Shut /\ b \in PendingBatches(batches)
  IN
  /\ b # NoBatch
  /\ q' = [q EXCEPT !.retry = NoBatch]
  /\ again' = IF wanted /\ send.by # "none" THEN again \cup {"retry"} ELSE again
  /\ IF wanted /\ send.by = "none"
       THEN StartFlush(TRUE, FALSE, b)
       ELSE UNCHANGED send
  /\ SameChildren
  /\ UNCHANGED <<batches, stopPhase, scheduled, parentVars, sends, admitted,
                 checks, stoppingBatch, sendFaults>>

\* Mutant: the check does not look at the log again.
MutantCheckTask(b) ==
  /\ b \in checks
  /\ checks' = checks \ {b}
  /\ IgnoreMessage
  /\ SameChildren
  /\ UNCHANGED <<stopPhase, parentVars, sends, send, again, stoppingBatch,
                 sendFaults>>

\* The microtask of scheduleAcknowledgementCheck
CheckTask(b) ==
  /\ b \in checks
  /\ checks' = checks \ {b}
  /\ IF ~disposed /\ b \in PendingBatches(batches) /\ b \in entries
       THEN Acknowledge(b) ELSE IgnoreMessage
  /\ SameChildren
  /\ UNCHANGED <<stopPhase, parentVars, sends, send, again, stoppingBatch,
                 sendFaults>>

\* The owner's binding has applied a change of the runtime and is clean
\* (RuntimeBinding).  It comes when the configuration changes, or never.
RuntimeBecameCoherent ==
  /\ q' = Coherent(q, batches)
  /\ SameChildren
  /\ UNCHANGED <<batches, stopPhase, scheduled, parentVars, sendVars, checks,
                 stoppingBatch, sendFaults>>

-----------------------------------------------------------------------------
(* The parent session.  Its own steps leave the children alone, and what   *)
(* they tell the supervisor goes through Persist or Release.               *)

ParentOnly == SameChildren /\ UNCHANGED <<stopPhase, stoppingBatch, sendFaults>>

SupervisorSame == UNCHANGED <<batches, scheduled, sendVars, q, checks>>

\* acquirePromptAdmission, when no send is active
PromptAdmitted ==
  /\ send.by = "none" /\ ~Shut
  /\ send' = [NoSend EXCEPT !.by = "admission"]
  /\ ParentOnly
  /\ UNCHANGED <<batches, scheduled, parentVars, sends, admitted, again, q,
                 checks>>

\* The prompt is an extension command that starts a native run and returns
\* only when that run is over.
NativeStart ==
  /\ send.by = "admission" /\ run = "idle" /\ ~ownerStopping
  /\ run' = "starting"
  /\ send' = [send EXCEPT !.at = "admit"]
  /\ ParentOnly
  /\ UNCHANGED <<batches, scheduled, queue, wake, entries, sends, admitted,
                 again, q, checks>>

\* The prompt is accepted or refused, and its admission released.
PromptEnds ==
  /\ send.by = "admission"
  /\ send.at = "admit" => run = "idle"
  /\ UNCHANGED batches
  /\ Release(TRUE, q)
  /\ \/ UNCHANGED run
     \/ run = "idle" /\ ~ownerStopping /\ run' = "starting"
  /\ SameChildren
  /\ UNCHANGED <<queue, wake, entries, sends, checks, stoppingBatch, sendFaults>>

\* agent_start and turn_end await drainNotifications.
InHook == run \in {"starting", "boundary"}

\* Mutant: a native start keeps the admission of its prompt.
MutantDrainReleasesAdmission == FALSE

DrainReleasesAdmission ==
  /\ run = "starting" /\ send.by = "admission"
  /\ UNCHANGED batches
  /\ Release(TRUE, q)
  /\ SameChildren
  /\ UNCHANGED <<parentVars, sends, checks, stoppingBatch, sendFaults>>

DrainAcknowledges ==
  /\ InHook /\ Flushing("admit") /\ ~admitted
  /\ admitted' = TRUE
  /\ ParentOnly
  /\ UNCHANGED <<batches, scheduled, parentVars, sends, send, again, q, checks>>

DrainFlushes ==
  /\ InHook /\ send.by = "none" /\ Schedulable(jobs, batches, q)
  /\ StartFlush(TRUE, FALSE, NoBatch)
  /\ ParentOnly
  /\ UNCHANGED <<batches, scheduled, parentVars, sends, admitted, again, q,
                 checks>>

HookEnds ==
  /\ InHook
  /\ Shut \/ (send.by = "none" /\ ~Schedulable(jobs, batches, q))
  /\ run' = IF run = "starting" THEN "running" ELSE "polling"
  /\ ParentOnly /\ SupervisorSame
  /\ UNCHANGED <<queue, wake, entries>>

\* A run that a batch started begins with its message.
WakeMessage ==
  /\ run = "running" /\ wake # NoBatch /\ wake \notin entries
  /\ Persist(wake)
  /\ ParentOnly
  /\ UNCHANGED <<run, queue, wake, sends, send, again>>

\* The tool calls of a turn are over when each has returned or thrown.
ToolCallsOver ==
  \A l \in Launches : ~Known(jobs[l]) \/ child[l].pc \in {"ended", "threw"}

TurnEnds ==
  /\ run = "running" /\ (wake = NoBatch \/ wake \in entries)
  /\ ToolCallsOver
  /\ run' = "boundary"
  /\ ParentOnly /\ SupervisorSame
  /\ UNCHANGED <<queue, wake, entries>>

PollSteer(b) ==
  /\ run = "polling" /\ b \in queue
  /\ queue' = queue \ {b}
  /\ Persist(b)
  /\ ParentOnly
  /\ UNCHANGED <<run, wake, sends, send, again>>

\* A message for an idle parent that starts no run is appended.
AppendMessage(b) ==
  /\ run = "idle" /\ b \in queue /\ ~batches[b].trig
  /\ queue' = queue \ {b}
  /\ Persist(b)
  /\ ParentOnly
  /\ UNCHANGED <<run, wake, sends, send, again>>

\* The model is called again or the run is over.  Acknowledgement checks are
\* microtasks: none is left when a run ends.
PollEnds ==
  /\ run = "polling" /\ queue = {} /\ checks = {}
  /\ run' \in {"running", "idle"}
  /\ wake' = IF run' = "idle" THEN NoBatch ELSE wake
  /\ ParentOnly /\ SupervisorSame
  /\ UNCHANGED <<queue, entries>>

AbortRun ==
  /\ run # "idle" /\ ownerStopping /\ checks = {}
  /\ run' = "idle"
  /\ wake' = NoBatch
  /\ ParentOnly /\ SupervisorSame
  /\ UNCHANGED <<queue, entries>>

-----------------------------------------------------------------------------
(* Stopping.  Most of it is the children's; the queue adds its own reset,  *)
(* the notification step and quiescence.                                   *)

Unchanged == UNCHANGED <<parentVars, sendVars, queueVars, sendFaults>>

\* The owner's cancellation also drops the steers queued in its parent.
OwnerStops ==
  /\ RequestStop
  /\ queue' = {b \in queue : ~Streaming /\ ~batches[b].trig}
  /\ UNCHANGED <<run, wake, entries, sendVars, queueVars, sendFaults>>

\* The owner has aborted its run and settled its prompts.
BeginSupervisorStop ==
  /\ run = "idle" /\ send.by # "admission"
  /\ \E terminal \in BOOLEAN : BeginStop(terminal)
  /\ q' = [EmptyQueue EXCEPT !.awaiting = q.awaiting]
  /\ UNCHANGED <<parentVars, sendVars, checks, stoppingBatch, sendFaults>>

\* Mutant: a stop sends its batch and leaves the others pending.
MutantStopSupersedes ==
  /\ stopPhase = "notify"
  /\ send.by = "none" /\ sends = {}
  /\ StartFlush(FALSE, TRUE, NoBatch)
  /\ stopPhase' = "sending"
  /\ SameChildren
  /\ UNCHANGED <<batches, q, scheduled, parentVars, sends, admitted, again,
                 checks, stoppingBatch, sendFaults>>

\* Every send is over: what is still pending, but for the stop's own batch, is
\* superseded, and the stop sends its batch.
StopSupersedes ==
  LET old == PendingBatches(batches) \ {stoppingBatch} IN
  /\ stopPhase = "notify"
  /\ send.by = "none" /\ sends = {}
  /\ batches' = NotificationSuperseded(batches, old)
  /\ q' = Reconcile(q, PendingBatches(batches'))
  /\ StartFlush(FALSE, TRUE, NoBatch)
  /\ stopPhase' = "sending"
  /\ SameChildren
  /\ UNCHANGED <<scheduled, parentVars, sends, admitted, again, checks,
                 stoppingBatch, sendFaults>>

\* A stop that reopens the supervisor forgets its batch.
ForgetStoppingBatch ==
  stoppingBatch' = IF stopping' THEN stoppingBatch ELSE NoBatch

StopSent ==
  /\ stopPhase = "sent"
  /\ ConcludeStop
  /\ ForgetStoppingBatch
  /\ UNCHANGED <<jobs, batches, disposed, scheduled, faults, parentVars,
                 sendVars, q, checks, sendFaults>>

StopSendFailed ==
  /\ stopPhase = "failed"
  /\ StopFails
  /\ UNCHANGED <<jobs, batches, disposed, scheduled, faults>>
  /\ Unchanged

StopQuiesces ==
  /\ StopWaits(Quiescent)
  /\ ForgetStoppingBatch
  /\ UNCHANGED <<parentVars, sendVars, q, checks, sendFaults>>

\* flushNotifications, which the owner calls after its abortAll
FlushForClose ==
  /\ closing /\ stopPhase \in {"idle", "closed"} /\ ~disposed
  /\ send.by = "none"
  /\ StartFlush(FALSE, FALSE, q.blocked)
  /\ SameChildren
  /\ UNCHANGED <<batches, stopPhase, scheduled, parentVars, sends, admitted,
                 again, queueVars, sendFaults>>

DisposeSupervisor ==
  /\ send.by = "none"
  /\ Dispose(Quiescent)
  /\ q' = EmptyQueue
  /\ UNCHANGED <<parentVars, sendVars, checks, stoppingBatch, sendFaults>>

-----------------------------------------------------------------------------

\* A child's own steps; a dispatch tool call is made by a turn of the parent.
SuperviseChild(l) ==
  /\ ChildStep(l)
  /\ ~Known(jobs[l]) => run = "running" /\ ~ownerStopping
  /\ Unchanged

FlushStep ==
  \/ FlushEmpty \/ FlushPreflight \/ FlushHandsOver \/ FlushShut
  \/ FlushAdmitted

PreflightEnds == PreflightSucceeds \/ PreflightFails

SendStep(b) == SendResolves(b) \/ SendRejects(b) \/ CheckTask(b)

HookStep == DrainReleasesAdmission \/ DrainAcknowledges \/ DrainFlushes \/ HookEnds

ParentStep ==
  \/ PromptAdmitted \/ NativeStart \/ PromptEnds \/ WakeMessage \/ TurnEnds
  \/ \E b \in BatchIds : PollSteer(b) \/ AppendMessage(b)
  \/ PollEnds \/ AbortRun

StopSupervisorStep ==
  \/ StopChildrenDone /\ Unchanged
  \/ StopSupersedes \/ StopSent \/ StopSendFailed \/ StopQuiesces

SupervisorNext ==
  \/ \E l \in Launches : SuperviseChild(l)
  \/ FlushStep \/ PreflightEnds
  \/ \E b \in BatchIds : SendStep(b)
  \/ NotificationTask \/ RetryTask \/ RuntimeBecameCoherent
  \/ HookStep \/ ParentStep
  \/ OwnerStops \/ BeginSupervisorStop \/ (CloseWhileStopping /\ Unchanged)
  \/ StopSupervisorStep
  \/ FlushForClose \/ DisposeSupervisor

\* What a child, or a coroutine that waits for one, does of itself.
ChildProgress(l) ==
  /\ \/ StartupEnds(l) \/ LaunchStep(l) \/ StopStep(l) \/ AbortEnds(l)
     \/ CleanupEnds(l) \/ DisposalEnds(l) \/ Launch(l) \/ ToolEnd(l)
     \/ LaunchMaterialized(l) \/ MaterializationFails(l)
     \/ child[l].abort = "done" /\ Settle(l)
  /\ Unchanged

\* Scheduled callbacks and continuations run; a startup, a cleanup, a preflight,
\* a send, a hook, a turn and an aborted run end; the prompts of a user do not
\* win every race for the send lock (SF).  Nothing says that the runtime ever
\* becomes coherent.
SupervisorFairness ==
  /\ \A l \in Launches : WF_vars(ChildProgress(l))
  /\ WF_vars(FlushStep \/ PreflightEnds)
  /\ \A b \in BatchIds : WF_vars(SendStep(b) \/ PollSteer(b) \/ AppendMessage(b))
  /\ SF_vars(send.by = "none" /\ (NotificationTask \/ RetryTask))
  /\ SF_vars(HookEnds \/ DrainFlushes)
  /\ WF_vars(DrainReleasesAdmission \/ DrainAcknowledges)
  /\ WF_vars(PromptEnds)
  /\ WF_vars(WakeMessage \/ TurnEnds \/ PollEnds)
  /\ WF_vars(AbortRun)
  /\ WF_vars(StopSupervisorStep)

SupervisorSpec == SupervisorInit /\ [][SupervisorNext]_vars

FairSupervisorSpec == SupervisorSpec /\ SupervisorFairness

-----------------------------------------------------------------------------
(* Properties.                                                             *)

\* An outcome is in at most one batch that was not given up: a stop that
\* supersedes batches and flushes again never reports a child twice.
Reports(l) == BatchesOf(l, batches, {"pending", "acked"})

OutcomeReportedOnce == \A l \in Launches : Cardinality(Reports(l)) <= 1

\* The parent's log holds at most one message about a launch, retried,
\* superseded and re-frozen batches included, and no message that is in the log
\* is queued or opens a run again: the model is told once.
ToldOnce ==
  /\ \A l \in Launches :
       Cardinality({b \in entries : batches[b].out[l] # "none"}) <= 1
  /\ queue \cap entries = {}
  /\ run = "starting" => wake \notin entries

\* A batch that was not given up reports what the journal says of the job, of
\* a launch the parent has acknowledged or a recovery has ended; a stop forces
\* other outcomes only.
ReportIsFinal ==
  \A l \in Launches : \A b \in Reports(l) :
    /\ jobs[l].ack \/ jobs[l].recovered
    /\ ~jobs[l].supp
    /\ batches[b].out[l] = jobs[l].term

\* While the supervisor is open, a batch that flushes skip because its message
\* was handed over is still on its way: queued, being sent, opening a run, or
\* about to be acknowledged.  Otherwise it would be skipped for ever.
AwaitedBatchIsOnItsWay ==
  \A b \in q.awaiting \cap PendingBatches(batches) :
    ~Shut => b \in queue \cup sends \cup checks \cup {wake}

\* A batch is blocked after more than one failure, and no retry of it is due or
\* under way: only a coherent runtime or another delivery makes it go on.
AwaitsRuntime ==
  /\ q.blocked # NoBatch /\ sendFaults > 1
  /\ q.retry # q.blocked /\ send.retry # q.blocked /\ "retry" \notin again

\* An outcome the parent may be told of reaches its log, unless the owner stops or
\* a batch waits for good for a runtime that never becomes coherent: one failure
\* is retried whatever happens (supervisor.test.ts: "attempts one event-loop retry
\* after a triggered guard failure, then waits for a recovery event").
EveryOutcomeIsDelivered ==
  \A l \in Launches :
    l \in Deliverable(jobs, batches) ~>
      l \in AcknowledgedLaunches(batches) \/ Shut \/ []AwaitsRuntime

\* A blocked batch whose retry was asked for, by its first failure, a coherent
\* runtime or another batch that was delivered, is tried again: the request is
\* not lost when it comes while the queue is busy.
BlockedBatchIsRetried ==
  q.blocked # NoBatch /\ (q.retry = q.blocked \/ "retry" \in again) ~>
    q.blocked \in {send.retry, NoBatch} \/ Shut

\* The hooks that wait for the queue return: the run that waits for a send and
\* the send or the prompt that waits for the run do not block each other.
HooksReturn == InHook ~> ~InHook

=============================================================================
