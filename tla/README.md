# EasyResearch, specified and verified in TLA+

EasyResearch runs a team of research agents around Pi's `AgentSession`: a root
session (the *owner*) dispatches subagents, a local server keeps the sessions
alive for a web page or a desktop window, and several processes on one machine
agree on who serves. This directory holds TLA+ models of the parts of it whose
correctness depends on interleavings, failures and restarts, the TLC runs that
check them on small instances, and proofs, checked by TLAPS, that hold for every
value of the constants. Paths below are relative to the repository.

Contents:
[1 The system](#1-the-system) ·
[2 Modules](#2-modules) ·
[3 Runs](#3-runs) ·
[4 Fairness](#4-fairness) ·
[5 Proofs](#5-proofs) ·
[6 Disagreements with the code](#6-disagreements-with-the-code) ·
[7 Not modelled, and what is left](#7-not-modelled-and-what-is-left)

## 1 The system

The source is TypeScript, run by Node or Bun: one thread per process, so state
changes only between two `await`s, and everything that is read before an `await`
may be stale after it. Between processes there is only the file system.

| Component | State it keeps | Operations | Correct when |
|---|---|---|---|
| **Subagent journal** (`src/subagent/job-journal.ts`, `coordinator.ts`) | append-only records in the owner's session log; jobs and notification batches are their fold | one append per fact | a later record never contradicts what was told before |
| **Subagent supervisor: children** (`supervisor.ts`) | a map of owned children: startup, handle, outcome, promises of abort, disposal and cleanup | `launch`, settlement, `cancelAll`/`abortAll`, `observeParentEvent`, `dispose` | nothing started is lost track of; an outcome is recorded once and stays; a stop takes everything down |
| **Subagent supervisor: notifications** (`supervisor.ts`) | the send lock, unsettled sends, blocked and awaited batches | flush, admission of prompts, acknowledgement, retry, drain, stop | the parent is told of each outcome once, and in the end; hooks and stops do not hang |
| **Runtime lease** (`src/cli/runtime-lease.ts`) | a directory with one owner record, and handoff guards | acquire, release, reserve, commit, cancel, adopt | one owner at a time whatever dies; a dead owner's lease is recovered; a broken handoff fails closed |
| **Dispatch** (`src/subagent/tool.ts`, `coordinator.ts`, `agent-alias.ts`, `dispatch-authorization.ts`) | agent ids, aliases, the generation an authorisation holds for | reserve, continue, authorise | one running job per agent id; no dispatch on a stale generation |
| Stage session (`stage-session.ts`, `materialization.ts`) | the child's Pi runtime | start, abort, dispose, first write | a child is usable only when its file and its link exist |
| **Restart recovery** (`recovery.ts`, `web/subagent-sessions.ts`) | the journal a stopped process left | recover jobs, append outcomes, continue batches | every outcome is told once across restarts |
| **Active session registry** (`src/web/active-sessions.ts`, `session-lifecycle.ts`, `workspaces.ts`) | a table of live sessions, launches under way, idle timers | launch, stop, restart, delete, workspace operations, shutdown | at most one runtime per session file; a deleted session has none; a shutdown leaves none |
| Session adapter (`session-adapter.ts`) | one owner session's flags and queue | prompt, cancel, mutate, compact, close | a mutation or a close never overlaps a run it excludes |
| **Session deletion and history** (`session-deletion.ts`, `subagent-sessions.ts`) | session files and links | delete post-order | a child file is removed only with its last parent |
| Process handoff (`src/cli/index.ts`, `daemon-spawn.ts`, `src/desktop/sidecar.ts`, `desktop-entry.ts`) | two leases, the server record, a child process | start, stop, replace, daemonise | one server; no process left without an owner |
| **Runtime restart** (`runtime-restart.ts`, `request-admission.ts`) | admission gate, reservation | sample, reserve, commit | work in progress is never cut off by an idle restart |
| **Live configuration** (`src/runtime/live-configuration.ts`, watchers) | generation, drain, candidate | request, validate, confirm, commit | a committed generation was validated for the sources it names |
| **Agent runtime binding** (`agent-runtime-binding.ts`, `model-runtime-transaction.ts`) | active and candidate runtimes, leases on them | prepare, activate, commit, roll back | a session never runs on a mixture; a leased runtime is not disposed |
| **Manual compaction** (`manual-compaction.ts`) | queued and native compaction | queue, start at `agent_end`, cancel | what a cancellation meets is not written, and it leaves nothing compacting |
| **Event channel** (`event-channel.ts`, `webui/src/api/event-worker-broker.ts`) | subscriptions by revision | replace, stream, retire | both sides agree on what is subscribed; events follow their snapshot |
| **Auth flows** (`auth-flow-store.ts`, gateway) | a flow and the prompt it waits on, the line of a provider | log in, answer, cancel, log out, delete | the credential is that of the last request; a login makes way |
| File watching and operations, HTTP routes, Web UI, network routing, extensions and tools, settings and agents, desktop window, logging, first run | little or none between calls | I/O and translation | tested call by call; see `PROJECT.json` |

How they interact: the session adapter owns one supervisor and forwards Pi's
events to it; the dispatch tool reserves a job in the journal and calls
`launch`; the supervisor starts a stage session for each job, appends what
becomes of it to the journal and sends the outcomes to the parent `AgentSession`
as hidden messages; the registry owns the adapters and stops them; the runtime
restart and the handoff stop the registry; the live configuration moves every
binding to a new generation when its files change. The leases decide which
process does all that.

What is hard in it, and what the properties are about: two coroutines that end
the same child (a failed launch and a stop); an outcome that a stop rewrites
while it is being reported; a message handed over whose persistence is learned
later, or never; hooks that wait for a send that waits for the run that waits
for the hook; a stop that fails and is tried again; and, between processes,
every file system call of a contender racing every call of an owner, with deaths
in between; and, in the server, operations on one session that each await several
times, and configuration that moves while somebody prepares to run on it.
`PROJECT.json` lists the hazards at their lines with the properties
that cover them.

## 2 Modules

| Module | Models | Extends |
|---|---|---|
| `SubagentJournal` | the journal's fold, as operators on one job or on the batches | |
| `SubagentChildren` | the children one supervisor owns, and stopping them | `SubagentJournal` |
| `SubagentSupervisor` | the whole supervisor: children and notification queue, with the parent session | `SubagentChildren` |
| `SubagentRecovery` | restarts of the owner's process and what recovery makes of the journal | `SubagentSupervisor` |
| `SubagentChildrenProofs` | theorems about `SubagentChildren` | `SubagentChildren` |
| `SubagentSupervisorProofs` | theorems about `SubagentSupervisor` | `SubagentSupervisor`, `SubagentChildrenProofs` |
| `SubagentRecoveryProofs` | theorems about `SubagentRecovery` | `SubagentRecovery`, `SubagentSupervisorProofs` |
| `RuntimeLease` | one lease directory and the processes that contend for it | |
| `RuntimeLeaseProofs` | theorems about `RuntimeLease` | `RuntimeLease` |
| `SessionOwnership` | abstract: at most one runtime per session, exclusive changes, a gate | |
| `SessionRegistry` | the registry of live sessions; implements `SessionOwnership` | |
| `RuntimeRestart` | the restart of a running server | `SessionRegistry` |
| `SessionRegistryProofs` | theorems about `SessionRegistry` and `RuntimeRestart` | `RuntimeRestart` |
| `AcceptedConfiguration` | abstract: versions of the sources, what is accepted, requests answered truthfully | |
| `LiveConfiguration` | batches, drains, validation, watchers; implements `AcceptedConfiguration` | `AcceptedConfiguration` |
| `DispatchAuthorization` | a dispatch that must act on the accepted catalog | `AcceptedConfiguration` |
| `ConfigurationProofs` | theorems about `LiveConfiguration` and `DispatchAuthorization` | both |
| `ModelRuntimeTransaction` | candidates of a model runtime and the leases on it | |
| `RuntimeBinding` | the runtime one session runs with | `AcceptedConfiguration`, `ModelRuntimeTransaction` |
| `RuntimeBindingProofs` | theorems about `RuntimeBinding` and `ModelRuntimeTransaction` | `RuntimeBinding` |
| `SessionDeletion` | which files a deletion removes | |
| `AuthOperations` | logins, log-outs and deletions of a provider | |
| `EventDelivery` | subscriptions between a page and the server | |
| `ManualCompaction` | compactions of one session against its cancellation and stop | |
| `ServerProofs` | theorems about `ManualCompaction`, `SessionDeletion`, `AuthOperations`, `EventDelivery` and the composed `MCServer` | `MCServer`, `RuntimeLeaseProofs`, `ConfigurationProofs`, `RuntimeBindingProofs` |
| `MC...` | instances for TLC: symmetry and constraints; `MCServer` holds the parts that share no state | |

### SubagentJournal

The code re-reads all entries after every append, so what a component sees is the
fold of the log. A job is a record of the fields that later decisions read
(`st`, `ack`, `term`, `supp`, `path`, `recovered`), a batch is its state, the
outcome it reports for each launch, and whether it triggers a turn; one operator
per record kind is the fold's step. Batch ids are numbers in order of recording,
which is the order `pendingBatches` lists them in. Left out: agent ids, aliases
and the checks of `reserveDispatch` (they belong to dispatch).

### SubagentChildren

An action is the code between two awaits. The coroutines are program counters:
`pc` is where `launch()` and its cleanup chain are, `stop` where the callback is
that `stopAll` runs for that child. A promise that several coroutines join
(startup, startup cleanup, abort, disposal) is a field with "running" and "done",
on which each of them waits. When an attempt fails, `Fails` sends the failure to
everybody who joined. `removeChild` and the recording and publication of an
outcome are synchronous, so they are operators inside the actions that reach
them (`RemoveIfFinished`, `RecordAndPublish`, `SuppressIfFinished`).

Where startups, aborts, cleanups, disposals and materializations can fail in the
code, they fail in the model, up to `MaxFaults` times. On its own this module
takes the notification step of `stopAll` as one step that changes no child.

### SubagentSupervisor

`send` is `sendPromise`, a lock taken by a flush or by the admission of a prompt;
`send.at` says where its holder is. A flush freezes the ready outcomes into a
batch, picks a batch, makes the parent ready if it is idle, hands the message
over and waits for its admission. The message is persisted later by the parent's
own steps; `Persist` is `observeParentEvent` for it, with the acknowledgement at
once or in a microtask (`checks`). `q` holds the supervisor's notes on pending
batches, `again` the callbacks that found the queue busy.

Pi's `AgentSession` is not in the repository. It is modelled by what the code in
`src/` relies on: a message is queued as a steer during a run, starts a run when
the parent is idle and the message triggers one, and is appended otherwise;
`agent_start` and `turn_end` hooks are awaited (states `starting`, `boundary`);
steers are consumed at the boundary after `turn_end` (`polling`). These
definitions are marked external in the map. Owner cancellation
(`session-adapter.ts`) drops queued steers, aborts the run and settles prompts
before it calls `cancelAll`.

### SubagentRecovery

`Restart` ends the process anywhere: the journal (`jobs`, `batches`) and the
owner's log (`entries`) stay, everything else starts again. One step of the
supervisor may append several records, so a process that is killed may leave
only the first of them: `TornJob`, `TornStop` and `TornBatches` are those
journals. `rec` is where `recoverSubagentTree` is; its steps are separated by
the appends, since it may be killed between any two of them and is then run from
the beginning. `Attach` creates the supervisor and opens the session; from then
on the actions are those of `SubagentSupervisor`.

Abstractions, and why they are sound:

- The owner is the root session. Batches of nested owners are delivered by the
  same steps, but their supervisors are not restarted with it.
- A dispatch call of the old process is over, whatever became of it; its launch
  keeps what the journal says and has no child.
- Recovery that throws is a session that does not open; it is opened again, which
  is another restart.
- A session that cannot be read, or no longer is the journaled one, is a fault
  and counted in `MaxFaults`; the file of a child that has not materialized may
  be missing without one.
- Jobs are examined in any order.
- A message is written whole or not at all. The check that a written batch has
  the content it was frozen with (`persistedBatch`) cannot fail, since a batch is
  never frozen twice.

### RuntimeLease

Processes share only the file system, so each file system call is one step and a
process may die between two. `records` are the owner files in the lease
directory, `guards` the handoff guards, `path` what the name refers to. Handle
state is `held`, `rec`, `to`. Transition lease and server lease are the same
algorithm on two directories.

Abstractions, and why they are sound:

- The private staging directory is written before the rename and seen by nobody;
  it is merged with the rename.
- A process has one handle at a time (both leases are separate instances).
- During a handoff the guard keeps others out, so a check followed by an
  operation on the process's own files is one step.
- A handoff is reserved with a record in the process's own name; a handoff to a
  process that adopts is a commit followed at once by `relinquish`, as in
  `desktop-entry.ts`; one to a child that works under its parent keeps custody
  with the parent, as in `daemon-spawn.ts` and `sidecar.ts`. A sidecar's
  transition token may be used again by the same pair.
- A file operation that throws has no effect (no half-written record).
- A pid is not reused. Reuse could only make a dead owner look alive, and a
  contender wait or be refused.
- An older version's lease file exists only from the beginning; nothing writes
  one any more.

### SessionRegistry, SessionOwnership, RuntimeRestart

`runtime` maps a slot to a runtime on its way through `pendingLaunches` and
`records`; `operation` holds the deletion, restart or rename of each session, and
`workspace` and `shutdown` the operations on many. An action is what runs between
two awaits. The refinement takes a runtime for alive from the launch that opens
its session to the end of its stop or cleanup, and a session for exclusively used
while its files are deleted, renamed or moved. `RuntimeRestart` adds the
coordinator and its reservation.

Abstractions: one mutation per record at a time; a workspace operation stops its
runtimes in the step that begins it (a microtask later in the code); stopping a
record that has already stopped is one step; a new session's path is known to
nobody before its launch is over; `MaxRuntimes` keeps a slot for each queued
restart, so that none waits for a slot the code does not have.

### LiveConfiguration, AcceptedConfiguration

`AcceptedConfiguration` is the promise: what is accepted is some version that was
read, whole; generations and versions only go up; whoever asked is told
"accepted" only if the sources of the time of the request, or later ones, are
accepted; nothing is accepted after `close()`. `LiveConfiguration` is the
machinery: `pending` merges requests, `drain` walks through `validateAndAdvance`
with sources that are edited at any of its awaits, `starter` and `closer` are
`start()` and `close()`.

Abstractions: every edit makes a new version, so a fingerprint is a version
number (an edit that is undone within one drain is excluded); which home skills
are watched is fixed; `force`, `recoverWatchers` and the list of invalid layers
are left out; the answers committed, unchanged, repaired and superseded are all
"accepted". The server awaits `live.start()` before it serves (`server.ts:328`).

### DispatchAuthorization, RuntimeBinding, ModelRuntimeTransaction

Both users of the configuration are specified on `AcceptedConfiguration`, not on
the machinery: they hold for whatever implements it. `RuntimeBinding` walks
through `ensureCurrent` (`apply`), with the events of the configuration (`news`),
the runner it serves (`run`: prompts, and the boundary after a response) and
`loaded`, the change that the session was last loaded with. Its candidates and
those of the server's own models are the operators of `ModelRuntimeTransaction`;
the latter are also a part of their own, with authorizations that lease them.

Abstractions: a run begins in the microtasks after its preparation; the command
`reload`, the notifications of `onApplied` and the recapture of the compaction
base are left out; the disposal of a candidate is one step with the check that
discards it. One event may tell of a changed runtime and of a new availability at
once, as the configuration publishes it; `news.mixed` remembers that the last change
came so, since the code can then lose it (section 6).

### SessionDeletion

Files refer to the children they dispatched, forks to those of their source. A
deletion lists, reads everything and removes in one synchronous step, children
first; it may be cut off after any file, refused, and asked again. Abstractions:
the checks that find records contradictory only refuse; a link whose owner is
another file is a link of that owner; a file is removed by nobody else; ids are
drawn in order.

### AuthOperations

One provider. A login reserves the single-flight guard, joins the line of the
provider, prompts, stores and synchronizes; log-outs and deletions join the line
too, and a deletion aborts the logins it finds. An abort may come too late for a
login that is storing. The default time-out is assumed (a time-out of 0 switches
it off, and with it `LoginsMakeWay`).

### EventDelivery

`page` and `channel` are the two ends, `pipe` the frames on their way. A PUT
replaces the set of subscriptions; a source begins with its snapshot, and may end
or not be openable. Abstractions: a connection and its first frame are one step; a
lost stream closes the server's end; each view subscribes once; one event stands
for all. Streams that end without a retry (auth flows), heartbeats, budgets and
the SharedWorker broker are left out.

### ManualCompaction

`compaction` holds the controller's fields, `agent` the run and the stage of the
compaction that is on, `teardown` the abort or stop of the adapter. Pi is modelled
by what the files rely on: it compacts by itself in or after a run, a compaction
has a controller only from `session_before_compact` on, `agent_end` hooks are
awaited with the session still streaming. No run begins while Pi compacts or its
owner is stopping. The branch summaries that `isCompacting` also covers only
refuse a request, and are left out.

## 3 Runs

Deadlock is not checked: with nothing to do every one of these parts really
stops. All bounds are in the guards or the constants named here.

| Run | Instance | Checks |
|---|---|---|
| `children` | 2 launches, 2 failures | `TypeOK`, `NoOrphanedResources`, `PublishedIsFinal`, `ReleasedJobIsNotRunning`, `StopLeavesNoChild` |
| `children_retry` | 1 launch, 2 failures | violates `RetainedHandleRetried` |
| `supervisor_faults` | 1 launch, 4 batches, 1 child failure, 2 send failures | `ToldOnce`, `AwaitedBatchIsOnItsWay`, `HooksReturn`, `StopEnds`, `EveryOutcomeIsDelivered`, `BlockedBatchIsRetried` |
| `supervisor_retry` | 2 launches, 3 batches, 1 failed abort, 1 failed send, one cancellation | violates `StopEnds` |
| `recovery` | 2 launches, 3 batches, 2 restarts, 1 failure, 1 failed send, within `Room` | `RecoveryTypeOK`, `ToldOnceAcrossRestarts`, `LogAndJournalAgree`, `RunningJobHasChild`, `OutcomeReportedOnce`, `ReportIsFinal`, `RecoveryReports` |
| `recovery_rest` | 1 launch, 2 batches, 1 restart | violates `IdleOwnerIsQuiescent` |
| `lease_contention` | 2 processes, 2 tokens, no legacy file | violates `NothingCleanIsUnverifiable` |
| `registry` | 2 sessions, 2 directories, 2 runtimes, within `Bystander` and `OneByOne` | `RestartTypeOK`, `IdleSessionsAreTimed`, `ImplementsOwnership`, `UnforcedRestartSparesWork`, `EveryOperationEnds` |
| `server` | lease: 3 processes, 3 tokens, 2 deaths, 1 throwing operation, a legacy file; dispatch and binding: 4 generations, 2 epochs, 1 failure; models: 3 runtimes, 2 leases; deletion: 4 histories, 2 directories; auth: 2 logins, 1 log-out, 1 deletion; events: 1 view, 1 end, 1 loss; compaction | `ServerTypeOK`, `CustodyIsExclusive`, `LiveRecordsStay`, `HandoffFailsClosed`, `DispatchUsesAccepted`, `AppliedChangesAreLoaded`, `BoundariesKeepUp`, `NothingIsLeftBehind`, `DeletionKeepsTheTree`, `CredentialFollowsRequests`, `CancelledCompactionIsDropped` |
| `server_settles` | lease: 2 processes, 1 death; configuration: 2 versions, 1 failure; auth: 2 logins, 1 deletion; events: 2 views, 1 end, 1 loss | `ImplementsAccepted`, `ChangedProjectIsKnown`, `EditsTakeEffect`, `StaleLeaseIsRecovered`, `LoginsMakeWay`, `SubscriptionsConverge` |
| `binding_combined` | the binding alone: 3 generations, 2 epochs | violates `BoundariesAreCurrent` |
| `events_snapshot` | 2 views, 1 source that ends, nothing lost | violates `EventsFollowTheirSnapshot` |

The two `server` runs check several parts that share no state: every behaviour is
of one part, chosen at the start (`part`), while the others stay as they begin.
What the runs check of each part is the part's own `Next` and fairness.

Why these bounds:

- *Children.* A child's state depends on another child only through the stop
  they share, so two children show every way in which one delays, fails or
  outlives the other's stop. Two failures are what it takes for a step and the
  cleanup of that step to fail. Launches are interchangeable (symmetry).
- *Notifications.* Four batches for one launch allow a batch, its supersession by
  a stop, the stop's own and that of a retried stop; two send failures exhaust
  the one automatic retry of a blocked batch. Two launches, which it takes for a
  batch to freeze one outcome while another becomes ready, are in `recovery`,
  whose behaviours before the first restart are those of the supervisor. A flush
  is not taken when the next batch would exceed `MaxBatches`: this loses
  behaviours but adds none. In `supervisor_faults` no reachable state runs into
  the bound (TLC finds `Frozen.fits` at the start of every flush), so nothing
  stalls there because of it. Liveness runs use no symmetry. `OneCancellation`
  only narrows the search for the counterexample of `supervisor_retry`: every
  behaviour it leaves is one of the system.
- *Recovery.* A job is recovered by what the journal says of it alone; two
  restarts cut off a recovery and run it again, and three batches are one of the
  first process, one of the recovery and one of the supervisor after it. `Room`
  explores two children while nothing fails and the process goes on, and one
  child with everything that may become of it.
- *Lease.* Three processes are an owner, a contender that is about to remove its
  lease, and one that recovered it meanwhile; two deaths kill an owner and a
  child; three tokens let each process acquire or a handoff happen on top. The
  safety properties do not depend on the numbers (section 5). Which of the fresh
  tokens is drawn is fixed (`TokenDrawn`); processes are interchangeable in the
  safety run. The recovery run has both processes die or not, and a handoff.
- *Registry.* What two runtimes do to each other they do through a session or an
  operation on many: one session is asked for everything, the other (`Bystander`)
  is opened, idles, and is swept up. `OneByOne` looks at a restart of the server
  and at a login in the states of one session.
- *Configuration.* Two versions of the sources, home and project together, are one
  that is read and one that arrives meanwhile; one failure reaches every error
  path, and the flags it must preserve are merged with those of a later request.
- *Dispatch and binding.* A third generation overtakes a retry for a second one; in
  `server` a fourth lets a change follow one that was hidden
  (`MaxGenerations` is a bound of `MCServer`, not of the modules).
  `BindingRoom` lets one thing happen besides the generations: a failure, a close
  of the configuration or of the binding.
- *Deletion.* Four histories are a root, a child, a child of it or a shared one,
  and a fork or another root. *Auth.* Two logins and one removal of each kind meet
  in every order of the line. *Events.* One view shows all that its own source can
  do; two, with snapshots only (`EventRoom`), share a PUT.
- *Compaction* has no bound: its state space is finite.

What the main properties say:

- `NoOrphanedResources`, `ReleasedJobIsNotRunning`: a child leaves the map only
  when its startup, its setup cleanup and its session are over, and the journal
  no longer counts it as running (otherwise its agent id stays refused).
- `PublishedIsFinal`, `ReportIsFinal`: a stop forces an error on a child only if
  nobody was told of its outcome; what batches report is what the journal says.
- `StopLeavesNoChild`: a stop that resolves leaves no child owned, whatever
  started or failed during it.
- `OutcomeReportedOnce`, `ToldOnce`: across retries, supersession and re-freezing
  an outcome is in one live batch and in one message of the parent's log, which
  is not sent a second time.
- `AwaitedBatchIsOnItsWay`: a batch that flushes skip because it was handed over
  is queued, being sent, opening a run or being acknowledged, so skipping it
  never lasts for ever.
- `HooksReturn`, `StopEnds`, `EveryOutcomeIsDelivered`: nobody waits on
  everybody, and outcomes of an owner that goes on reach its log. Excepted is a
  batch that failed twice and then waits for good for a runtime that never becomes
  coherent: that is what the code does with it.
- `BlockedBatchIsRetried`: the retry of a blocked batch, asked for by its first
  failure, by a coherent runtime or by another delivery, is not lost when it comes
  while the queue is busy.
- `ToldOnceAcrossRestarts`, `LogAndJournalAgree`: a crash between a message and
  its acknowledgement neither repeats nor loses the message, and neither a stop
  nor a recovery, nor both in turn, decides an outcome otherwise than the log
  already says. The exception
  is in the property: if recovery could not read the owner's session after the
  message was written, its batch stays pending and the supervisor sends it
  again, because only recovery looks for the batch in the log.
- `RunningJobHasChild`, `RecoveryReports`: an open session counts no job as
  running that has no child, and recovery leaves no outcome that is neither in
  the log nor in a pending batch.
- `CustodyIsExclusive`, `LiveRecordsStay`: two processes never act as owners, and
  nobody removes a living owner's record but the holder. (`LostMeansDead`, that a
  holder which finds its record gone held it for a process that died, is proved
  and not run.)
- `HandoffFailsClosed`: from the guard on, nobody else becomes owner until the
  handoff is over.
- `StaleLeaseIsRecovered`: a dead owner's lease does not outlast a contender's
  loop.
- `ImplementsOwnership`: one runtime per session, its files changed only while it
  has none, none started after admission closed, none left by a shutdown that
  reports success. `EveryOperationEnds`: nobody waits for a launch or a stop whose
  end he is not told. `IdleSessionsAreTimed`: no idle runtime is forgotten.
- `UnforcedRestartSparesWork`: what begins while a restart awaits its reservation
  is seen before admission closes.
- `ImplementsAccepted`, `ChangedProjectIsKnown`, `EditsTakeEffect`: answers are
  true, a rejected batch loses no project, and every edit is accepted or rejected
  in the end, also one just before the watchers started.
- `DispatchUsesAccepted`: a dispatch acts on the catalog accepted at that moment,
  which has every edit made before its agents were resolved.
- `BoundariesKeepUp`, `AppliedChangesAreLoaded`: a response that follows another is
  computed with what was accepted when the one before it was over, and a generation
  said to be applied does not hide one that was not. Excepted are the states of
  `MayBeHidden`, in which the last change of the runtime came with a new epoch and a
  generation without one has followed: there the code can lose it, and
  `binding_combined` checks the claim of the docs, `BoundariesAreCurrent`, without the
  exception. The next change of the runtime ends it.
- `NothingIsLeftBehind`: no path of an application leaves a model runtime or a
  project behind, and none takes a runtime from its session.
- `DeletionKeepsTheTree`: a deletion, whole or half way, removes no file that a
  history outside it leads to, and leaves no child that nothing refers to.
- `CredentialFollowsRequests`, `LoginsMakeWay`: a late answer does not overwrite a
  removal, nor a removal a later login; the guard of the logins is freed.
- `SubscriptionsConverge`: both ends of the event channel come to agree.
- `CancelledCompactionIsDropped`: no compaction is written once it was cancelled,
  at whatever stage the cancellation met it, and none is on or queued when the
  cancellation is over. It excepts a stop that could not abort the run: such a
  stop goes on to detach from the session's events and to dispose of the
  controller, which waits for ever if a compaction of Pi's own was on
  (`session-adapter.ts:841-861`; listed among the hazards).

Each property of a passing run has a mutant: a plausible wrong form of one mapped
definition under which the property fails (`PROJECT.json`, `mutants`; operators
named `Mutant...` in the modules).

## 4 Fairness

- Weak fairness of the continuations of `launch()`, of `stopAll`, of flushes and
  of microtasks: the event loop runs what is ready.
- Weak fairness of the *end* of a startup, abort, cleanup, disposal,
  materialization, preflight and send, one way or the other: the code awaits
  them without a timeout and relies on it. A child settles once its abort is
  done; a child that is not aborted need not settle.
- Strong fairness of the scheduled notification against users' prompts for the
  send lock, and of a hook against the flushes that delay it: prompts do not win
  every race.
- None of `RuntimeBecameCoherent`: the binding calls it after an application that
  changed the runtime (`agent-runtime-binding.ts:467`), which needs a change of the
  configuration that may never come. What else unblocks a batch, a send that was
  delivered (`supervisor.ts:1053`) and the one retry of its own, is part of the sends.
- The lease assumes only that an acquiring process goes on while it lives.
- Weak fairness of every operation of the registry, of the drain, the start and
  the close of the configuration, and of both ends of the event channel: awaited
  promises settle one way or the other, timers fire, a retry is made.
- Weak fairness of a watcher that has an event to report. Of a login: its own
  steps, its time-out, and that the provider ends a login whose signal is
  aborted. A log-out or a deletion before it in the line may hang.

Nothing assumes that a stop is requested, a prompt arrives, a run starts, a child
completes of itself, a source is edited or a user retries.

## 5 Proofs

TLAPS checks every leaf. The theorems hold for all values of the constants that
satisfy the assumptions named in the modules, and these say little: bounds are
natural numbers, the "no such thing" values (`NoProcess`, `NoToken`, `NoOwner`,
`NoFlow`, `NoSession`) are none of the things, every session has a directory, `Dispatcher` and `Starter` are requesters, there
is a directory (`WorkspaceAssumption`), and a login is not a removal
(`OperationAssumption`). The sets of launches, processes, tokens, sessions,
directories, runtimes, histories, requesters and logins are arbitrary, and so are
the numbers of batches, restarts, failures, deaths, versions and generations.

Every proof has the same form. The property is not inductive; an invariant that is
contains it, with the reason why it holds. TLC checked these invariants on small
instances before they were proved. One lemma shows that an action
keeps it, with a step for every part that the action can disturb; PTL puts them
together.

**`SubagentChildrenProofs`.** The invariants relate one child to its own job, and
none is inductive alone: that a released child is over depends on what `pc`,
`startup`, `handle` and `disposal` can be together. `IInv` is `TypeOK` and, for
every launch, `Consistent`, whose parts say how far the startup has got
(`StartupConsistent`), what the journal knows (`LaunchConsistent`), what the
outcome is (`OutcomeConsistent`) and what was let go of (`ReleaseConsistent`).
Lemmas show that every operator the handlers are composed of preserves it for
one child; each action then applies operators to one launch, and the two that
touch all children (`BeginStop`, the end of a stop) go launch by launch.
`ChildrenConsistent` is the invariant; `TypeCorrect`, `NothingIsOrphaned`,
`PublishedStays`, `NeverBoth` and `ReleasedJobEnded` follow from it. `NeverBoth`
(`AcknowledgedOrSuppressed`: a launch is not both acknowledged and suppressed) is
proved and not run: `PublishedIsFinal` covers it where it shows.
`StopTakesDown` needs a second invariant, `StopInv`: during a stop every owned
child has a callback of that stop, which is "done" only when the child is gone,
because nothing can be launched while `stopping` is set.

**`SubagentSupervisorProofs`.** The whole supervisor keeps `IInv`, and with it
`SupInv`. Its parts besides: `ReportInv`, that an outcome is published before the
journal offers it to a batch, so that no later stop changes what a batch says;
`BatchInv`, that each launch is in one batch that was not given up; `LogInv`, that
what is acknowledged is in the parent's log; `StoppingInv`, the flags of a stop,
the lock and the run; and `MailInv`, which says for each batch where its message
is: nowhere, on its way at exactly one place, or in the log. `ReportedOnce`,
`ReportsAreFinal`, `OutcomeToldOnce` and `AwaitedIsOnItsWay` follow. All parts but
`MailInv` hold without it (`SupCore`), and each step is shown to keep the two
separately: after a recovery that could not read the parent's log, `MailInv` is
what is lost.

**`SubagentRecoveryProofs`.** `RecInv` holds over any number of restarts. An open
session satisfies `SupCore`, and `MailInv` unless recovery was refused the log; a
recovering one satisfies `RecoveringInv` (nothing is in memory, every job is one a
process can leave, torn writes included, and only messages that recovery still has
to look at are in the log without an acknowledgement) and `PhaseInv` (what each
of its loops has established). `Restart` leads from the first to the second from any
state, `Attach` back. Hence `ToldOnceOverRestarts`, `LogMatchesJournal`,
`RecoveryReportsOnce`, `RecoveredReportsAreFinal`, `NoJobRunsAlone` and
`RecoveryTellsAll`.

**`RuntimeLeaseProofs`.** `CustodyIsExclusive` alone is not inductive: that nobody
else becomes owner rests on what is on disk. `Anchored` says an owner's record
is in the directory or its guard is; `Directory` and `HandleNamesOwner` relate
guards and handles to program counters; `StaleIsDead` says that a contender gets
as far as `unlink` only for a record of a dead process, which stays dead; and
`AdoptsAlone` that while an adopter reads, nobody is owner. A rename succeeds
only on a missing or empty directory, hence when nobody is anchored.
`LeaseConsistent` is that invariant, and `LeaseTypeCorrect`, `OneCustodian`,
`LostOnlyWhenDead`, `LiveRecordsAreKept` and `HandoffBlocksAcquisition` follow,
for any number of processes, tokens, deaths and failures. Since the model
excludes the reuse of pids and tokens, so do the theorems.

**`SessionRegistryProofs`.** That a session has one runtime at most rests on what
the operations wait for, since a restart reserves the second runtime before the
first has stopped. `CoreInv` says that only such a pair shares a session
(`OneRuntimeEach`), that an operation which heard of no failure still waits for every
runtime in its way (`StillAwaited`), and that a launch somebody waits for is
cancelled and cannot report that it has begun (`AwaitedIsEnding`).
`RegistryImplements` is the refinement: every step is one of `SessionOwnership` or a
stutter; `RestartImplementsOwnership` says the same with the coordinator of restarts
in front. `IdleSessionsTimed` is inductive together with `CoreInv`: every step that
makes a session idle, or takes away what held it, sets its timer. `RestartSparesWork`
needs no invariant, since the coordinator looks at the registry in the step that closes
admission.

**`ConfigurationProofs`.** `LiveInv` says who waits in which batch (`RequestInv`),
that a candidate is between what is accepted and what there is, and no older than
the requests it answers (`CandidateInv`), that an outcome is true of everybody it is
told to (`OutcomeInv`), and where a changed project is remembered (`ProjectInv`).
From it `ChangedIsKnown`, and `LiveImplements`: each step is one of
`AcceptedConfiguration` or a stutter. This is `ImplementsAccepted` without the
fairness that `AcceptedSpec` states. `DispatchActsOnAccepted` is proved from the
promise alone, hence for whatever implements it: the generation is the same after the
second look (`CatalogInv`), and what the answer says covers the edits made before the
agents were resolved (`SecondInv`).

**`RuntimeBindingProofs`.** `BindingInv` has three parts. `StageInv` says where the
runner and the application can be together; `OwnersInv` which model runtimes there are
at each stage, so that no way out of an application leaves one behind
(`NothingLeft`); `FollowInv` what the binding knows of the changes its session was
loaded with: a change that is not applied is pending, and a session whose state is known
has what is applied, or goes round again before a boundary is over. None of the
theorems restricts the events, which may tell of a changed runtime and of an
availability at once. `AppliedAreLoaded` and `BoundariesKeptUp` state what holds of
them all: a change can be hidden only if it came with a new epoch and a generation
without a change has followed (`MayBeHidden`), and however much was hidden before, the
next change of the runtime makes up for it. So `FollowInv` is the same after a hidden
change as before it: what it says of the last change, it says while that one cannot be
hidden. The exception is needed: `binding_combined` violates `BoundariesAreCurrent`,
which is without it (section 6).
The transaction that a binding drives is also used by the server for its own models, with
leases: `ModelsInv` says that a candidate of theirs is live and not current, that what
gives way is retired in the same step, and that a closed transaction has neither current
runtime nor leases; `LeasedRuntimesStay` follows.

**`ServerProofs`.** *Compaction*: while a cancellation is requested nothing is
queued and what compacts cannot write any more, and as long as the controller listens
it knows what compacts (`CompactionInv`, `CancelledIsDropped`). *Deletion*: the sessions
reached from some are the least closed set that contains them; `TreeIsKept` argues with
that set alone, so it needs no induction over paths, and holds for links of any shape.
*Auth*: everyone has one place in the line of the provider, and whoever has come to its
turn found all before it settled (`LineInv`, `TurnInv`); a login that a deletion found is
over or aborted (`FoundInv`). `CredentialFollows` is an action property on top of these.

*Event channel*: `EventInv` says of a connection what each end may assume of the other.
A request that nothing has overtaken asks for what is wanted, and what the server then
serves differs from it only by streams whose end is in the pipe or has been heard
(`AgreeInv`); nothing knows of a view before it subscribes (`NewInv`). Hence `EndsAgree`:
with nothing on its way, the two ends agree, whatever was lost or changed meanwhile. As
long as no source has ended, a view has one source in a connection, whose frames come in
their order and none of which the page drops (`OneSourceInv`), so no view follows events
whose snapshot it was not given (`UnendedAreFollowed`). Without that condition it is
false: `events_snapshot` (section 6) shows the one way, a source that ended and is opened
again by a request under way.

*The composed server*: each part with variables of its own does its own steps or none
(`ServerRunsItsParts`). `ServerInv` says besides that the parts over the accepted
configuration, which share it, find it well-formed: the binding asks and hears the
configuration but does not change it (`BinderAskIs`). `ServerTypeCorrect` states
`ServerTypeOK` for every value of the constants and every choice of the part.

**What the proofs changed.** Proving corrected the models in places that the instances
did not reach. The prompt that opens a run does not reject while acknowledgements are
due in microtasks (`SendRejects`), a message is appended without a turn only if it
triggers none (`AppendMessage`), and a stop drops every other queued message
(`OwnerStops`): without these the invariant of `OutcomeToldOnce` was not inductive. Two overlapping guards of a `CASE`,
which leaves the choice open, became `IF` (`LiveConfiguration`, `RuntimeBinding`).
`PutArrives` (`EventDelivery`) appends the frame of the source it picks, where it
converted a set of frames; it allows the same steps. The
bound on generations moved to `MCServer`, so that no theorem depends on it.

**Only model-checked.**

- All liveness: `StopEnds`, `HooksReturn`, `EveryOutcomeIsDelivered`,
  `BlockedBatchIsRetried`,
  `StaleLeaseIsRecovered`, `EveryOperationEnds`, `EditsTakeEffect`, `LoginsMakeWay`,
  `SubscriptionsConverge`, and in `ImplementsAccepted` that who waits is answered.
  Liveness under fairness and ENABLED are beyond the proof system.
- The properties that runs expect to be violated (section 6), and what the instances of
  `MCServer` add to the parts: its rooms cut behaviours off and allow none.

## 6 Disagreements with the code

Six runs show the code doing something other than what a comment or a test of
the repository says; `PROJECT.json` quotes them.

1. `children_retry`: a handle kept by `ownHandle` before startup rejected, whose
   disposal failed, is not retried by a later stop (`supervisor.ts:567`), which
   waits for `child.finished` for ever; the comment at `supervisor.ts:748` says
   that later teardown retries it.
2. `supervisor_retry`: a cancellation that is tried again after its batch was
   rejected freezes a second batch but sends only the first
   (`supervisor.ts:1002`), and waits for quiescence for ever; two tests say that
   a failed cancellation can be retried.
3. `lease_contention`: a contender that looks at the lease while its owner
   releases rejects with "Cannot verify ... Remove it manually"
   (`runtime-lease.ts:428`), where a test says that it waits and acquires.
4. `recovery_rest`: a job that recovery ended although its launch was never
   acknowledged counts as pending work for ever (`supervisor.ts:403`), even after
   the owner was told of it: the supervisor never becomes quiescent and the
   session never idle, where a test says that recovery work is over once the
   runtime has settled.

5. `binding_combined`: one event may tell of a new generation and of a new
   availability of models; a busy session takes it for the latter only
   (`agent-runtime-binding.ts:550`), a later change of the display raises the
   generation it says it has applied, and its next boundary does not reload: the
   run goes on with the old configuration, where `docs/model-configuration.md`
   says that it applies the new one before the next request.
6. `events_snapshot`: a source that ends while a PUT is under way is opened again
   by that PUT; the page drops the frames of the new source, its snapshot with
   them (`event-connection.ts:90`), and its own retry finds a subscription that
   exists. The view shows events on top of an old state, where a test expects the
   fresh snapshot.

## 7 Not modelled, and what is left

Not modelled, or not wholly:

- *Dispatch*: agent ids, aliases, continuations, the choice of a model and of a
  thinking level. Each is one synchronous step over what the journal says.
- *Stage session*: behind the handle of `SubagentChildren`; inside it follows the
  protocol of the session adapter.
- *Process handoff*: daemon, command line and desktop beyond their leases:
  processes, ports, pipes and time-outs outside of the program.
- *Event channel*: the SharedWorker broker, which hands the connection from one
  page to another through the browser.
- *File watching*: counters around events whose order the operating system makes.
- The parts of the last row of the table in section 1, and most of the source by
  its size (bundled skills and their scripts, the Web UI, parsers, build and
  release scripts): I/O, layout or translation with no state between calls.

Every invariant and every safety property of a passing run is a theorem; what is left to
the model checker is liveness (section 5). A next step is a model of the agent ids and
continuations of a dispatch, and of the SharedWorker broker in front of `EventDelivery`.
