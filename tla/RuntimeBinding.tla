--------------------------- MODULE RuntimeBinding ---------------------------
(***************************************************************************)
(* createAgentRuntimeBinding (runtime/agent-runtime-binding.ts): what one  *)
(* Agent session runs with follows what the configuration accepts, without *)
(* ever changing under a response or a batch of tools.  It asks the        *)
(* configuration (AcceptedConfiguration) for a synchronization around the  *)
(* preparation of every candidate, keeps its models in a transaction       *)
(* (ModelRuntimeTransaction), listens to what is accepted meanwhile, and   *)
(* serves a runner: the adapter of a session, whose prompts and whose      *)
(* boundaries between a response and the next wait for it.                 *)
(*                                                                         *)
(* Nobody edits the sources here: the generations accepted are what the    *)
(* binding looks at.                                                       *)
(***************************************************************************)
EXTENDS AcceptedConfiguration, ModelRuntimeTransaction

CONSTANTS
  Binder,           \* the requester that is the binding
  MaxEpochs         \* bound on the epochs of the models' availability

ASSUME BindingAssumption == Binder \in Requester /\ MaxEpochs \in Nat \ {0}

\* news: of what was accepted, the epoch of availability, the generation that
\* changed the runtime last, and whether the event that told of that change
\* also told of a new epoch (mixed); binding: its own state (pending 0: none);
\* apply: the application under way and its candidate; loaded: the change the
\* session was loaded with; run: its runner, and the change accepted when the
\* runner began to wait.
VARIABLES news, binding, apply, loaded, run

bindingVars == <<acceptedVars, models, failures, news, binding, apply, loaded, run>>

\* A state of the runtime: a generation, its epoch, and the last change of the
\* runtime that is in its definition.  Generation 0 is none.
NoState == [generation |-> 0, epoch |-> 0, change |-> 0]

NoApply == [at |-> "none", boundary |-> FALSE, candidate |-> NoState, over |-> NoState]

NewBinding ==
  [status |-> "clean", applied |-> NoState, pending |-> 0, again |-> FALSE, boundary |-> FALSE,
   abort |-> FALSE, attached |-> FALSE, registered |-> FALSE, closing |-> FALSE,
   disposed |-> FALSE, released |-> FALSE]

NewRun == [at |-> "new", since |-> 0]

Greater(a, b) == IF a > b THEN a ELSE b

\* isIdle of the session; whoever waits for the application under way.
Idle == run.at \notin {"busy", "boundary"}
Waits == run.at \in {"starting", "attaching", "preparing", "boundary"}

BinderAsks == ask' = [ask EXCEPT ![Binder] = IF closed THEN Answer("closed") ELSE Request(TRUE, TRUE)]
BinderHung == ask' = [ask EXCEPT ![Binder] = Quiet]
BinderHears(at) == apply.at = at /\ ask[Binder].at = "answered"

ConfigurationStays == UNCHANGED <<source, accepted, rejected, closed, news>>

-----------------------------------------------------------------------------
\* The state of the binding.

MarkedPending(b, generation) == [b EXCEPT !.pending = Greater(@, generation)]

MarkedApplied(b, generation) ==
  [b EXCEPT !.pending = IF @ <= generation THEN 0 ELSE @, !.status = "clean"]

\* Mutant: a boundary does not have the session aborted when its application fails.
MutantDemanded(b, boundary) == [b EXCEPT !.boundary = @ \/ boundary]

\* ensureCurrent, after its first tests: the flags of a boundary, and an
\* application, joined or begun.
Demanded(b, boundary) ==
  [b EXCEPT !.boundary = @ \/ boundary, !.abort = @ \/ boundary]
Begun(a) == IF a.at = "none" THEN [NoApply EXCEPT !.at = "queued"] ELSE a

\* Mutant: a generation without a change of the runtime is taken over at once.
MutantNotified(b, event) ==
  LET heard == [b EXCEPT !.again = @ \/ apply.at # "none"]
  IN  IF event.availability /\ event.epoch > b.applied.epoch THEN heard
      ELSE IF event.runtime THEN MarkedPending(heard, event.generation)
      ELSE [b EXCEPT !.applied.generation = Greater(@, event.generation)]

\* The listener of the binding.  An epoch that is new is left to the next
\* application, and so is a change of the runtime, which is remembered; a
\* change of neither is taken over when nothing is pending.
Notified(b, event) ==
  LET heard == [b EXCEPT !.again = @ \/ apply.at # "none"]
  IN  IF event.availability /\ event.epoch > b.applied.epoch THEN heard
      ELSE IF event.runtime
      THEN IF event.generation <= Greater(b.applied.generation, b.pending) THEN heard
           ELSE MarkedPending(heard, event.generation)
      ELSE IF event.generation <= b.applied.generation THEN b
      ELSE IF b.pending # 0 \/ b.status # "clean" THEN heard
      ELSE [b EXCEPT !.applied.generation = event.generation]

\* It begins an application at once when the session is idle.
Begins(b, event) ==
  /\ Idle
  /\ \/ event.availability /\ event.epoch > b.applied.epoch
     \/ event.runtime /\ event.generation > Greater(b.applied.generation, b.pending)

Listening == binding.attached /\ ~binding.closing

Published(event) ==
  /\ binding' = IF Listening THEN Notified(binding, event) ELSE binding
  /\ apply' = IF Listening /\ Begins(binding, event) THEN Begun(apply) ELSE apply

\* A generation is accepted; the first one is of everything.
GenerationAccepted ==
  /\ Accepts
  /\ \E runtime, availability \in BOOLEAN :
       /\ accepted.generation = 0 => runtime /\ availability
       /\ availability => news.epoch < MaxEpochs
       /\ news' = [epoch |-> IF availability THEN news.epoch + 1 ELSE news.epoch,
                   change |-> IF runtime THEN accepted'.generation ELSE news.change,
                   mixed |-> IF runtime THEN availability /\ accepted.generation > 0
                                        ELSE news.mixed]
       /\ Published([generation |-> accepted'.generation, epoch |-> news'.epoch,
                     runtime |-> runtime, availability |-> availability])
  /\ UNCHANGED <<models, failures, loaded, run>>

\* advanceAvailability: an epoch of its own.
AvailabilityMoves ==
  /\ ~closed /\ accepted.generation > 0 /\ news.epoch < MaxEpochs
  /\ news' = [news EXCEPT !.epoch = @ + 1]
  /\ Published([generation |-> accepted.generation, epoch |-> news'.epoch,
                runtime |-> FALSE, availability |-> TRUE])
  /\ UNCHANGED <<acceptedVars, models, failures, loaded, run>>

-----------------------------------------------------------------------------
\* The end of an application: those who wait go on, or are told that it failed.

Goes(at) ==
  CASE at = "starting" -> "built" [] at = "attaching" -> "idle"
    [] at = "preparing" -> "ready" [] at = "boundary" -> "busy" [] OTHER -> at

\* A failed boundary aborts the session; without the abort it would go on.
Fails(at, abort) ==
  CASE at \in {"starting", "attaching"} -> "over" [] at = "preparing" -> "idle"
    [] at = "boundary" -> (IF abort THEN "idle" ELSE "busy")
    [] OTHER -> at

\* The catch of the operation, from the binding b.
ApplyFails(b) ==
  /\ apply' = NoApply
  /\ binding' = [b EXCEPT !.boundary = FALSE, !.abort = FALSE]
  /\ run' = [run EXCEPT !.at = Fails(@, b.abort /\ b.attached), !.since = 0]

\* The condition of the loop.
GoesAgain(b) ==
  /\ ~b.closing
  /\ b.boundary \/ (b.again /\ (~b.attached \/ Idle \/ apply.boundary))

\* applyLatest returned: the compaction policy is applied, which may fail, and
\* the loop goes round or the operation is over.
TurnSucceeds(b) ==
  /\ b.status # "poisoned"
  /\ IF GoesAgain(b)
     THEN /\ apply' = [NoApply EXCEPT !.at = "queued", !.boundary = apply.boundary]
          /\ binding' = b
          /\ UNCHANGED run
     ELSE /\ apply' = NoApply
          /\ binding' = [b EXCEPT !.abort = FALSE]
          /\ run' = [run EXCEPT !.at = Goes(@), !.since = 0]

TurnEnds(b) ==
  \/ TurnSucceeds(b) /\ NoFailure
  \/ /\ b.applied # NoState
     /\ IF b.status = "poisoned" THEN NoFailure ELSE Failure
     /\ ApplyFails(MarkedPending([b EXCEPT !.status = "poisoned"], accepted.generation))

\* A candidate that is given up is disposed of, or kept.
GivenUp ==
  LET given == RolledBack(models)
  IN  \/ models' = OwnerDisposed(given, models.candidate) /\ NoFailure
      \/ models' = OwnerKept(given, models.candidate) /\ Failure

-----------------------------------------------------------------------------
\* prepareCandidate.

\* A generation newer than what is applied is pending from now on.
Observed(b) ==
  IF b.applied # NoState /\ accepted.generation > b.applied.generation
  THEN MarkedPending(b, accepted.generation) ELSE b

\* The turn begins: a newer generation is pending from now on; the project is
\* acquired once, and a synchronization asked for.
TurnBegins ==
  /\ apply.at = "queued"
  /\ binding' = Observed([binding EXCEPT !.again = FALSE, !.boundary = FALSE])
  /\ apply' = [apply EXCEPT !.at = IF binding.registered THEN "first" ELSE "acquiring",
                            !.boundary = @ \/ binding.boundary]
  /\ IF binding.registered THEN BinderAsks ELSE UNCHANGED ask
  /\ UNCHANGED <<models, failures, loaded, run>> /\ ConfigurationStays

ProjectAcquired ==
  /\ apply.at = "acquiring"
  /\ \/ /\ ~closed
        /\ IF binding.closing
           THEN ApplyFails([binding EXCEPT !.registered = TRUE]) /\ UNCHANGED ask
           ELSE /\ binding' = [binding EXCEPT !.registered = TRUE]
                /\ apply' = [apply EXCEPT !.at = "first"]
                /\ BinderAsks /\ UNCHANGED run
        /\ NoFailure
     \/ closed /\ NoFailure /\ ApplyFails(binding) /\ UNCHANGED ask
     \/ Failure /\ ApplyFails(binding) /\ UNCHANGED ask
  /\ UNCHANGED <<models, loaded>> /\ ConfigurationStays

UpToDate ==
  /\ binding.applied # NoState
  /\ accepted.generation <= binding.applied.generation
  /\ news.epoch <= binding.applied.epoch
  /\ binding.pending = 0
  /\ binding.status # "poisoned"

Synchronized ==
  /\ BinderHears("first")
  /\ BinderHung
  /\ \/ binding.closing /\ ApplyFails(binding) /\ NoFailure
     \/ ~binding.closing /\ UpToDate /\ TurnEnds(binding)
     \/ /\ ~binding.closing /\ ~UpToDate
        /\ apply' = [apply EXCEPT !.at = "resolving",
                       !.candidate = [generation |-> accepted.generation, epoch |-> news.epoch,
                                      change |-> news.change]]
        /\ NoFailure /\ UNCHANGED <<binding, run>>
  /\ UNCHANGED <<models, loaded>> /\ ConfigurationStays

Moved == apply.candidate.generation # accepted.generation

\* The generation moved under the candidate: once more from the synchronization.
Anew(b) ==
  /\ BinderAsks
  /\ apply' = [apply EXCEPT !.at = "first", !.candidate = NoState]
  /\ binding' = b
  /\ UNCHANGED run

DefinitionResolved ==
  /\ apply.at = "resolving"
  /\ \/ Moved /\ Anew(binding) /\ NoFailure
     \/ /\ ~Moved /\ NoFailure
        /\ apply' = [apply EXCEPT !.at = "preparing"]
        /\ UNCHANGED <<ask, binding, run>>
     \/ Failure /\ ApplyFails(binding) /\ UNCHANGED ask    \* the Agent is gone
  /\ UNCHANGED <<models, loaded>> /\ ConfigurationStays

\* modelRuntimes.prepare, the refresh and the selection of a model.
RuntimeCreated ==
  /\ apply.at = "preparing" /\ models.candidate = NoOwner
  /\ \/ /\ Free(models) # {} /\ models' = Created(models)
        /\ NoFailure /\ UNCHANGED <<apply, binding, run>>
     \/ Failure /\ ApplyFails(binding) /\ UNCHANGED models
  /\ UNCHANGED <<ask, loaded>> /\ ConfigurationStays

\* A candidate that is given up for another try, or with a failure; a disposal
\* that fails is one.
Retry(b) ==
  \/ models' = OwnerDisposed(RolledBack(models), models.candidate) /\ NoFailure /\ Anew(b)
  \/ /\ models' = OwnerKept(RolledBack(models), models.candidate) /\ Failure
     /\ ApplyFails(binding) /\ BinderHung
GiveUp == GivenUp /\ ApplyFails(binding) /\ BinderHung

ModelSelected ==
  /\ apply.at = "preparing" /\ models.candidate # NoOwner
  /\ \/ binding.closing /\ GiveUp
     \/ ~binding.closing /\ Moved /\ Retry(binding)
     \/ /\ ~binding.closing /\ ~Moved
        /\ apply' = [apply EXCEPT !.at = "second"]
        /\ BinderAsks /\ NoFailure /\ UNCHANGED <<models, binding, run>>
  /\ UNCHANGED loaded /\ ConfigurationStays

Confirmed ==
  /\ BinderHears("second")
  /\ \/ binding.closing /\ GiveUp
     \/ ~binding.closing /\ Moved /\ Retry(binding)
     \/ ~binding.closing /\ ~Moved /\ closed /\ GiveUp
     \/ /\ ~binding.closing /\ ~Moved /\ ~closed
        /\ apply' = [apply EXCEPT !.at = "prepared"]
        /\ BinderHung /\ NoFailure /\ UNCHANGED <<models, binding, run>>
  /\ UNCHANGED loaded /\ ConfigurationStays

-----------------------------------------------------------------------------
\* applyLatest.

\* The candidate is given up, and the turn is over without a change.
Discarded ==
  \/ /\ models' = OwnerDisposed(RolledBack(models), models.candidate)
     /\ TurnEnds(binding)
  \/ /\ models' = OwnerKept(RolledBack(models), models.candidate) /\ Failure
     /\ ApplyFails(binding)

\* The candidate becomes what is applied.  Only its models are new when the
\* generation is the one that was applied.
Activates ==
  /\ models' = Activated(models)
  /\ binding' = [binding EXCEPT !.applied = apply.candidate, !.status = "applying"]
  /\ apply' = [apply EXCEPT !.over = binding.applied,
                 !.at = IF binding.attached
                           /\ apply.candidate.generation # binding.applied.generation
                        THEN "reloading" ELSE "committing"]
  /\ NoFailure /\ UNCHANGED <<ask, run>>

Undisturbed == ~binding.attached \/ Idle \/ apply.boundary

CandidateApplied ==
  /\ apply.at = "prepared"
  /\ \/ binding.closing /\ Discarded /\ UNCHANGED ask
     \/ ~binding.closing /\ Moved /\ Retry(Observed(binding))
     \/ ~binding.closing /\ ~Moved /\ closed /\ GiveUp
     \/ ~binding.closing /\ ~Moved /\ ~closed /\ ~Undisturbed /\ Discarded /\ UNCHANGED ask
     \/ ~binding.closing /\ ~Moved /\ ~closed /\ Undisturbed /\ Activates
  /\ UNCHANGED loaded /\ ConfigurationStays

\* The session is reloaded with what is applied now; a failure, of the reload
\* or of what is bound after it, rolls the models back.
SessionReloaded ==
  /\ apply.at = "reloading"
  /\ \/ /\ ~binding.disposed /\ NoFailure
        /\ loaded' = binding.applied.change
        /\ apply' = [apply EXCEPT !.at = "committing"]
        /\ UNCHANGED <<models, binding>>
     \/ /\ IF binding.disposed THEN NoFailure ELSE Failure
        /\ loaded' \in {loaded, binding.applied.change}
        /\ models' = OwnerDisposed(RolledBack(models), models.candidate)
        /\ binding' = [binding EXCEPT !.applied = apply.over, !.status = "restoring"]
        /\ apply' = [apply EXCEPT !.at = "restoring"]
  /\ UNCHANGED <<ask, run>> /\ ConfigurationStays

\* The candidate is committed; the runtime before it is disposed of, or kept.
CandidateCommitted ==
  /\ apply.at = "committing"
  /\ LET b == MarkedApplied(binding, apply.candidate.generation)
     IN  \/ /\ models' = IF models.previous = NoOwner THEN Committed(models)
                         ELSE OwnerDisposed(Committed(models), models.previous)
            /\ TurnEnds(b)
         \/ /\ models.previous # NoOwner
            /\ models' = OwnerKept(Committed(models), models.previous)
            /\ Failure /\ TurnSucceeds(b)
  /\ UNCHANGED <<ask, loaded>> /\ ConfigurationStays

\* restoreSession, after a reload that failed: the session is reloaded with
\* what was applied before, or nothing is known of it any more.
SessionRestored ==
  /\ apply.at = "restoring"
  /\ \/ /\ loaded' = binding.applied.change
        /\ ApplyFails(MarkedPending([binding EXCEPT !.status = "clean"],
                                    apply.candidate.generation))
        /\ NoFailure
     \/ /\ loaded' \in {loaded, binding.applied.change}
        /\ ApplyFails(MarkedPending([binding EXCEPT !.status = "poisoned"],
                                    apply.candidate.generation))
        /\ Failure
  /\ UNCHANGED <<ask, models>> /\ ConfigurationStays

-----------------------------------------------------------------------------
\* The runner.

Demands(at) ==
  /\ run' = [at |-> at, since |-> news.change]
  /\ apply' = Begun(apply)

\* The runtime of a session begins to be set up, with a configuration.
SetupBegins ==
  /\ run.at = "new" /\ accepted.generation > 0 /\ ~binding.closing
  /\ binding' = Demanded(binding, FALSE)
  /\ Demands("starting")
  /\ UNCHANGED <<acceptedVars, models, failures, news, loaded>>

\* The session was created with what was applied, and is attached; what was
\* accepted meanwhile is pending.
SessionAttached ==
  /\ run.at = "built"
  /\ IF binding.closing
     THEN run' = [run EXCEPT !.at = "over"] /\ UNCHANGED <<binding, apply, loaded>>
     ELSE /\ binding' = Demanded(Observed([binding EXCEPT !.attached = TRUE]), FALSE)
          /\ loaded' = binding.applied.change
          /\ Demands("attaching")
  /\ UNCHANGED <<acceptedVars, models, failures, news>>

PromptPrepares ==
  /\ run.at = "idle" /\ ~binding.closing
  /\ binding' = Demanded(binding, FALSE)
  /\ Demands("preparing")
  /\ UNCHANGED <<acceptedVars, models, failures, news, loaded>>

\* The run begins in the steps that follow its preparation, or is given up; an
\* application that an event began meanwhile is not yet past its awaits.
RunBegins ==
  /\ run.at = "ready"
  /\ apply.at \notin {"reloading", "committing", "restoring"}
  /\ \E at \in {"busy", "idle"} : run' = [run EXCEPT !.at = at]
  /\ UNCHANGED <<acceptedVars, models, failures, news, binding, apply, loaded>>

\* turn_end and agent_end: the next request waits for what was accepted.
BoundaryReached ==
  /\ run.at = "busy" /\ ~binding.closing
  /\ binding' = Demanded(binding, TRUE)
  /\ Demands("boundary")
  /\ UNCHANGED <<acceptedVars, models, failures, news, loaded>>

RunEnds ==
  /\ run.at = "busy"
  /\ run' = [run EXCEPT !.at = "idle"]
  /\ UNCHANGED <<acceptedVars, models, failures, news, binding, apply, loaded>>

\* close() and dispose(), which may be called at any time; an application
\* under way is awaited before anything is disposed of.
BindingCloses ==
  /\ run.at # "new" /\ ~binding.disposed
  /\ \E disposed \in BOOLEAN :
       /\ disposed \/ ~binding.closing
       /\ binding' = [binding EXCEPT !.closing = TRUE, !.disposed = disposed]
  /\ UNCHANGED <<acceptedVars, models, failures, news, apply, loaded, run>>

\* The rest of dispose(), or another try of it: every runtime and the project
\* are released, or one of them fails and is left to the next try.
BindingDisposed ==
  /\ binding.disposed /\ ~binding.released /\ apply.at = "none"
  /\ \E kept \in {{}} \cup {{o} : o \in {p \in Owner : models.at[p] # "free"}},
        registered \in {FALSE, binding.registered} :
       /\ IF kept = {} /\ ~registered THEN NoFailure ELSE Failure
       /\ models' = [TransactionClosed(models) EXCEPT !.disposing = FALSE,
                       !.at = [o \in Owner |-> IF o \in kept THEN "kept" ELSE "free"]]
       /\ binding' = [binding EXCEPT !.attached = FALSE, !.registered = registered,
                                     !.released = kept = {} /\ ~registered]
  /\ run' = [run EXCEPT !.at = "over"]
  /\ UNCHANGED <<acceptedVars, news, apply, loaded>>

-----------------------------------------------------------------------------

BindingInit ==
  /\ AcceptedInit /\ models = NoModels /\ failures = 0
  /\ news = [epoch |-> 0, change |-> 0, mixed |-> FALSE]
  /\ binding = NewBinding /\ apply = NoApply /\ loaded = 0 /\ run = NewRun

Applies ==
  \/ TurnBegins \/ ProjectAcquired \/ Synchronized \/ DefinitionResolved \/ RuntimeCreated
  \/ ModelSelected \/ Confirmed \/ CandidateApplied \/ SessionReloaded \/ CandidateCommitted
  \/ SessionRestored

BindingNext ==
  \/ Applies
  \/ SetupBegins \/ SessionAttached \/ PromptPrepares \/ RunBegins \/ BoundaryReached \/ RunEnds
  \/ BindingCloses \/ BindingDisposed
  \/ GenerationAccepted \/ AvailabilityMoves
  \/ (Rejects \/ Answers \/ Closes)
     /\ UNCHANGED <<models, failures, news, binding, apply, loaded, run>>

\* Every await of an application settles.
BindingFairness == WF_bindingVars(Applies) /\ EveryoneIsAnswered

BindingSpec == BindingInit /\ [][BindingNext]_bindingVars /\ BindingFairness

-----------------------------------------------------------------------------

States == [generation : Nat, epoch : 0..MaxEpochs, change : Nat]

BindingTypeOK ==
  /\ news \in [epoch : 0..MaxEpochs, change : Nat, mixed : BOOLEAN]
  /\ binding \in [status : {"clean", "applying", "restoring", "poisoned"}, applied : States,
                  pending : Nat, again : BOOLEAN, boundary : BOOLEAN,
                  abort : BOOLEAN, attached : BOOLEAN, registered : BOOLEAN, closing : BOOLEAN,
                  disposed : BOOLEAN, released : BOOLEAN]
  /\ apply \in [at : {"none", "queued", "acquiring", "first", "resolving", "preparing", "second",
                      "prepared", "reloading", "committing", "restoring"},
                boundary : BOOLEAN, candidate : States, over : States]
  /\ loaded \in Nat
  /\ run \in [at : {"new", "starting", "built", "attaching", "idle", "preparing", "ready", "busy",
                    "boundary", "over"}, since : Nat]

\* The last change came with a new epoch, and a generation without a change of
\* the runtime has followed it: a busy session takes the change for the epoch
\* only, and the generation after it for one that changes nothing.
MayBeHidden == news.mixed /\ news.change < accepted.generation

\* A generation that the binding says it has applied is one whose changes the
\* session was loaded with: a generation without a change of the runtime does
\* not hide one before it (agent-runtime-binding.test.ts: "keeps deferred
\* runtime work pending across a later display-only generation"), unless that
\* one came with a new epoch; and a change after it makes up for one hidden.
AppliedChangesAreLoaded ==
  /\ binding.attached /\ binding.status = "clean" /\ ~MayBeHidden
  /\ news.change <= binding.applied.generation
  => loaded = news.change

\* A response that follows another is computed with what had been accepted
\* when the one before it was over, whatever application it joined
\* (docs/model-configuration.md); where that fails, the run does not go on.
BoundariesAreCurrent ==
  [][run.at = "boundary" /\ run'.at = "busy" /\ ~binding.closing => loaded' >= run.since]_bindingVars

\* That is so as long as the last change cannot be hidden, whatever was hidden
\* before it (agent-runtime-binding.test.ts: "escalates a joined active boundary
\* after the idle candidate is discarded").
BoundariesKeepUp ==
  [][run.at = "boundary" /\ run'.at = "busy" /\ ~binding.closing /\ ~MayBeHidden
       => loaded' >= run.since]_bindingVars

\* The session's runtime is there as long as the session is; a candidate given
\* up is disposed of on every path, and a binding that is disposed of has left
\* no runtime and no project behind.
NothingIsLeftBehind ==
  /\ RuntimesInUseStay
  /\ run.at # "new" /\ apply.at = "none" => models.candidate = NoOwner
  /\ binding.attached => models.current # NoOwner
  /\ binding.released => ~binding.registered /\ \A o \in Owner : models.at[o] = "free"

\* Whoever waits for the configuration goes on, or is told that it failed.
EveryWaitEnds == Waits ~> ~Waits
=============================================================================
